------------------------------ MODULE MCReadStack ------------------------------
(* Small instances of ReadStack.                                             *)
EXTENDS ReadStack

InjectCorruptDelayed == <<"ReadInjector", "Corrupter", "DelayedReader">>
CorruptThrottled == <<"Terminator", "Corrupter", "ThrottledReader">>
Delayed == <<"DelayedReader">>
Injecting == <<"ReadInjector">>
DelayedThrottled == <<"DelayedReader", "ThrottledReader">>
ThrottledDelayed == <<"ThrottledReader", "DelayedReader">>

\* One injection, one corruption, some knob changes; a knob nobody reads has
\* one value.
Values(s, kind, values) == IF Member(kind, s) THEN values ELSE {CHOOSE v \in values : TRUE}
Varied(s, sets, ways) ==
  [stack : {s},
   knob : [rate : Values(s, "ThrottledReader", Rates),
           delay : Values(s, "DelayedReader", Delays),
           corrupt : Values(s, "Corrupter", Corrupts)],
   left : {[sets |-> sets, injections |-> 1, hits |-> 1]},
   habits : {ways}]

\* An owner that uses the stack as an AsyncBufRead can make a DelayedReader
\* panic if it also drops reads, or if an adapter above answers one.
MCSetups ==
  UNION {Varied(s, 1, {"abandon"}) : s \in {InjectCorruptDelayed, CorruptThrottled}}
    \cup UNION {Varied(s, 1, {"abandon", "fill"}) : s \in {Injecting, ClientSide}}
    \cup Varied(Delayed, 1, {"fill"})

\* The adapters stacked, with nothing unusual done to them.
MCDelayedThrottled == Varied(DelayedThrottled, 0, {})
MCThrottledDelayed == Varied(ThrottledDelayed, 2, {})
=============================================================================
