----------------------------- MODULE MCWriteStack -----------------------------
(* Small instances of WriteStack.                                           *)
EXTENDS WriteStack

Slicing == <<"SlicedWriter">>
CorruptedSlices == <<"Corrupter", "SlicedWriter">>
Throttled == <<"ThrottledWriter">>
CorruptDelayed == <<"Corrupter", "DelayedWriter">>
InjectCorrupt == <<"WriteInjector", "Corrupter">>

\* One knob change, one injection, one corruption; a knob nobody reads has one
\* value.
Values(s, kind, values) == IF Member(kind, s) THEN values ELSE {CHOOSE v \in values : TRUE}
Varied(s) ==
  [stack : {s},
   knob : [size : Values(s, "SlicedWriter", Sizes),
           rate : Values(s, "ThrottledWriter", Rates),
           delay : Values(s, "DelayedWriter", Delays),
           corrupt : Values(s, "Corrupter", Corrupts)],
   left : {[sets |-> 1, injections |-> 1, hits |-> 1]}]

\* trixter's own stack with everything on.
Everything ==
  {[stack |-> ClientSide,
    knob |-> [size |-> 1, rate |-> 1, delay |-> 2, corrupt |-> "sometimes"],
    left |-> [sets |-> 0, injections |-> 0, hits |-> 1]]}

MCSetups ==
  UNION {Varied(s) : s \in {Slicing, CorruptedSlices, Throttled,
                            CorruptDelayed, InjectCorrupt}}
    \cup Everything
MCBuffered == {Slicing}

MCSlicing == Varied(Slicing)

\* Garbage on every write, over a delay.
MCGarbage == Varied(CorruptDelayed)
MCNone == {}
=============================================================================
