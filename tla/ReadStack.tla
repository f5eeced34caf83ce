------------------------------ MODULE ReadStack ------------------------------
(***************************************************************************)
(* A stack of tokio-netem's read adapters between a BufReader, whose peer  *)
(* sends numbered bytes, and an owner.  No adapter comes back to a read it *)
(* has handed down, so a poll is a descent, one load of a knob or one      *)
(* decision at a time; knobs, injections, the clock and the peer may       *)
(* interfere at any step.                                                  *)
(*                                                                         *)
(* ThrottledReader and DelayedReader read through poll_fill_buf and        *)
(* consume of what they wrap.  Every adapter forwards these two, so such a *)
(* read goes past all adapters below, straight to the BufReader (a         *)
(* Shutdowner may fail it, and so may the socket).                         *)
(*                                                                         *)
(* Bounds: Total bytes, reads into buffers of at most MaxBuf, injected     *)
(* payloads of at most MaxPayload; a setup says how many knob changes,     *)
(* injections and corruptions at a probability below 1 may come.           *)
(***************************************************************************)
EXTENDS Integers, LeakyBucket, Delay

CONSTANTS
  Setups,     \* the stacks, the owner's side first, with knobs and habits
  Rates, Delays,
  Corrupts,   \* subset of {"never", "sometimes", "always"}: probability 0, between, 1
  Capacity,   \* of the BufReader
  Total, MaxBuf, MaxPayload

\* Atomics that setters store and adapters load.
Knobs == [rate : Rates, delay : Delays, corrupt : Corrupts]
Allowances == [sets : Nat, injections : Nat, hits : Nat]

\* What an owner may do besides polling a read to its end: drop it
\* ("abandon"), and use the stack as an AsyncBufRead, too ("fill").
Habits == SUBSET {"abandon", "fill"}

\* Bounds have a highest value, and no adapter is stacked twice.
ASSUME ReadStackAssumption ==
  /\ \A s \in Setups : s \in [stack : Seq(Kinds), knob : Knobs, left : Allowances,
                              habits : Habits]
  /\ \A s \in Setups : \A i, j \in DOMAIN s.stack : s.stack[i] = s.stack[j] => i = j
  /\ Rates \subseteq Nat /\ \E r \in Rates : \A q \in Rates : q <= r
  /\ Delays \subseteq Nat /\ \E d \in Delays : \A e \in Delays : e <= d
  /\ Corrupts \subseteq {"never", "sometimes", "always"}
  /\ {Capacity, MaxBuf, MaxPayload} \subseteq Nat \ {0} /\ Total \in Nat

VARIABLES
  stack, habits,  \* fixed
  knob,    \* the shared knobs: rate, delay, corrupt
  left,    \* how many sets, injections and hits may still come
  layer,   \* what the adapters keep between polls
  frame,   \* the adapter the poll is at, 0 between polls; what it has loaded
  call,    \* the owner's read: its state, the room in its buffer
  source,  \* bytes read by the owner, in the BufReader, in the socket; end of file
  got,     \* the bytes of the peer the owner was given
  eof,     \* the owner was given an end of file: "no", "empty" payload, "yes"
  meter,   \* LeakyBucket's meter of what the owner was given, valid as long as
           \* there has been a limit
  burst    \* ticks since the BufReader was filled; the lowest delay since then;
           \* whether the owner has had a byte of it

env == <<stack, habits, knob, left>>
history == <<meter, burst>>
vars == <<env, layer, frame, call, source, got, eof, history>>

TopRate == CHOOSE r \in Rates : \A q \in Rates : q <= r
TopDelay == CHOOSE d \in Delays : \A q \in Delays : q <= d
NoPayload == -1

EnvTypes ==
  stack \in Seq(Kinds) /\ habits \in Habits /\ knob \in Knobs /\ left \in Allowances

LayerTypes ==
  layer \in [queue : Seq(0..MaxPayload), buffer : {NoPayload} \cup 0..MaxPayload,
             bucket : Buckets(Rates), timer : Timers(Delays), bufEmpty : BOOLEAN]

ControlTypes ==
  /\ frame \in [at : 0..(Len(stack) + 1), step : {"enter", "fill", "acquire", "refill"},
                seen : Rates \cup {0}]
  /\ call \in [state : {"idle", "pending", "failed", "panicked"}, room : 0..MaxBuf]
  /\ eof \in {"no", "empty", "yes"}

DataTypes ==
  /\ source \in [pos : 0..Total, buf : 0..Capacity, arrived : 0..Total, closed : BOOLEAN]
  /\ source.pos + source.buf + source.arrived <= Total
  /\ got \in Seq(1..Total)

HistoryTypes ==
  /\ meter \in [level : Int, valid : BOOLEAN]
  /\ burst \in [since : 0..TopDelay, low : Delays, begun : BOOLEAN]

TypeOK == EnvTypes /\ LayerTypes /\ ControlTypes /\ DataTypes /\ HistoryTypes

Has(kind) == Member(kind, stack)

\* The adapters as their new() leaves them.
Fresh(rate) ==
  [queue |-> <<>>, buffer |-> NoPayload, bucket |-> Full(rate), timer |-> IdleTimer,
   bufEmpty |-> TRUE]

\* The builder methods of NetEmReadExt.
Init ==
  /\ \E s \in Setups :
       stack = s.stack /\ knob = s.knob /\ left = s.left /\ habits = s.habits
  /\ layer = Fresh(knob.rate)
  /\ frame = [at |-> 0, step |-> "enter", seen |-> 0]
  /\ call = [state |-> "idle", room |-> 0]
  /\ source = [pos |-> 0, buf |-> 0, arrived |-> 0, closed |-> FALSE]
  /\ got = <<>> /\ eof = "no"
  /\ meter = [level |-> MeterFull(TopRate),
              valid |-> Has("ThrottledReader") /\ knob.rate # 0]
  /\ burst = [since |-> 0, low |-> knob.delay, begun |-> FALSE]

-----------------------------------------------------------------------------
(* Knobs, injections, time and the peer.                                   *)

Set(name, value) ==
  /\ left.sets > 0 /\ value # knob[name]
  /\ knob' = [knob EXCEPT ![name] = value]
  /\ left' = [left EXCEPT !.sets = @ - 1]
  /\ UNCHANGED <<stack, habits, layer, frame, call, source, got, eof>>

\* DynamicRate::set
SetRate ==
  /\ Has("ThrottledReader")
  /\ \E r \in Rates :
       Set("rate", r) /\ meter' = IF r = 0 THEN [level |-> 0, valid |-> FALSE] ELSE meter
  /\ UNCHANGED burst

\* DynamicDuration::set
SetDelay ==
  /\ Has("DelayedReader")
  /\ \E d \in Delays : Set("delay", d) /\ burst' = [burst EXCEPT !.low = Least(@, d)]
  /\ UNCHANGED meter

\* DynamicProbability::set, of which the corrupter sees the threshold.
SetCorrupt ==
  /\ Has("Corrupter")
  /\ \E c \in Corrupts : Set("corrupt", c)
  /\ UNCHANGED history

\* A payload, possibly empty, is sent through the injector's channel.
Inject ==
  /\ Has("ReadInjector") /\ left.injections > 0
  /\ \E n \in 0..MaxPayload : layer' = [layer EXCEPT !.queue = Append(@, n)]
  /\ left' = [left EXCEPT !.injections = @ - 1]
  /\ UNCHANGED <<stack, habits, knob, frame, call, source, got, eof, history>>

\* Only a throttle or a delay looks at the clock.
Tick ==
  /\ layer' = [layer EXCEPT !.bucket = IF Has("ThrottledReader") THEN Older(@) ELSE @,
                            !.timer = Closer(@)]
  /\ meter' = IF meter.valid THEN [meter EXCEPT !.level = Metered(@, TopRate)] ELSE meter
  /\ burst' = IF Has("DelayedReader")
                THEN [burst EXCEPT !.since = Least(TopDelay, @ + 1)] ELSE burst
  /\ UNCHANGED <<env, frame, call, source, got, eof>>

Arrive ==
  /\ ~source.closed /\ source.pos + source.buf + source.arrived < Total
  /\ source' = [source EXCEPT !.arrived = @ + 1]
  /\ UNCHANGED <<env, layer, frame, call, got, eof, history>>

Close ==
  /\ ~source.closed
  /\ source' = [source EXCEPT !.closed = TRUE]
  /\ UNCHANGED <<env, layer, frame, call, got, eof, history>>

-----------------------------------------------------------------------------
(* BufReader: its buffer is filled from the socket when it is empty.       *)

Rem == IF source.buf > 0 THEN source.buf ELSE Least(source.arrived, Capacity)

\* poll_fill_buf is ready, with Rem bytes or, at the end of file, none.
CanFill == Rem > 0 \/ source.closed

Filled ==
  IF source.buf > 0 THEN source
  ELSE [source EXCEPT !.buf = Rem, !.arrived = @ - Rem]

\* A new burst begins when an empty buffer is filled.
Burst == IF source.buf > 0 \/ Rem = 0 THEN burst
         ELSE [since |-> 0, low |-> knob.delay, begun |-> FALSE]

Bytes(from, n) == [i \in 1..n |-> from + i - 1]

\* Mutant: all that was shown is consumed.
CopiesAll(n) ==
  /\ source' = [Filled EXCEPT !.pos = @ + Rem, !.buf = 0]
  /\ got' = got \o Bytes(source.pos + 1, n)
  /\ burst' = [Burst EXCEPT !.begun = @ \/ n > 0]
  /\ meter' = IF meter.valid THEN [meter EXCEPT !.level = @ - Second * n] ELSE meter

\* The owner's buffer gets the next n bytes, which are consumed.
Copies(n) ==
  /\ source' = [Filled EXCEPT !.pos = @ + n, !.buf = @ - n]
  /\ got' = got \o Bytes(source.pos + 1, n)
  /\ burst' = [Burst EXCEPT !.begun = @ \/ n > 0]
  /\ meter' = IF meter.valid THEN [meter EXCEPT !.level = @ - Second * n] ELSE meter

\* They are looked at, and stay where they are.
Looks == source' = Filled /\ burst' = Burst /\ UNCHANGED <<got, meter>>

-----------------------------------------------------------------------------
(* The owner.                                                              *)

Quiet == frame.at = 0

Read ==
  /\ Quiet /\ call.state = "idle" /\ eof = "no"
  /\ \E n \in 1..MaxBuf : call' = [state |-> "pending", room |-> n]
  /\ UNCHANGED <<env, layer, frame, source, got, eof, history>>

\* The future of a read is dropped.
Abandon ==
  /\ "abandon" \in habits /\ Quiet /\ call.state = "pending"
  /\ call' = [state |-> "idle", room |-> 0]
  /\ UNCHANGED <<env, layer, frame, source, got, eof, history>>

\* poll_fill_buf and consume, which every adapter forwards.
FillAndConsume ==
  /\ "fill" \in habits /\ Quiet /\ call.state = "idle" /\ Rem > 0
  /\ \E n \in 1..Rem : Copies(n)
  /\ UNCHANGED <<env, layer, frame, call, eof>>

\* A call enters the next adapter that acts on reads, or the BufReader.
Descend ==
  \E i \in Below(stack, "read", frame.at) : frame' = [at |-> i, step |-> "enter", seen |-> 0]

Poll ==
  /\ Quiet /\ call.state = "pending"
  /\ Descend
  /\ UNCHANGED <<env, layer, call, source, got, eof, history>>

-----------------------------------------------------------------------------
(* Calls and returns.                                                      *)

Running(kind, step) ==
  frame.at \in DOMAIN stack /\ stack[frame.at] = kind /\ frame.step = step
AtSource == frame.at = Len(stack) + 1

Goto(step, seen) ==
  frame' = [frame EXCEPT !.step = step, !.seen = seen] /\ UNCHANGED <<call, eof>>
\* inner.poll_read(cx, buf)
TailCall == Descend /\ UNCHANGED <<call, eof>>

Back == frame' = [at |-> 0, step |-> "enter", seen |-> 0]
ReturnPending == Back /\ UNCHANGED <<call, eof>>
ReturnFailed == Back /\ call' = [call EXCEPT !.state = "failed"] /\ UNCHANGED eof

\* Ready with n bytes in the buffer; none is an end of file.
ReturnReady(n, end) ==
  /\ Back /\ call' = [state |-> "idle", room |-> 0]
  /\ eof' = IF n = 0 THEN end ELSE eof

Elsewhere == UNCHANGED <<source, got, history>>

\* Shutdowner and Terminator: let the call through, or answer with an error
\* from now on.
Fuse ==
  /\ Running("Shutdowner", "enter") \/ Running("Terminator", "enter")
  /\ TailCall \/ ReturnFailed
  /\ UNCHANGED <<env, layer>> /\ Elsewhere

-----------------------------------------------------------------------------
(* ReadInjector::poll_read.                                                *)

InjectorDelivers ==
  /\ Running("ReadInjector", "enter") /\ layer.buffer # NoPayload
  /\ LET n == Least(call.room, layer.buffer) IN
       /\ layer' = [layer EXCEPT !.buffer = IF @ = n THEN NoPayload ELSE @ - n]
       /\ ReturnReady(n, "empty")
  /\ UNCHANGED env /\ Elsewhere

InjectorReceives ==
  /\ Running("ReadInjector", "enter") /\ layer.buffer = NoPayload /\ layer.queue # <<>>
  /\ layer' = [layer EXCEPT !.buffer = Head(layer.queue), !.queue = Tail(@)]
  /\ UNCHANGED <<env, frame, call, eof>> /\ Elsewhere

InjectorPasses ==
  /\ Running("ReadInjector", "enter") /\ layer.buffer = NoPayload /\ layer.queue = <<>>
  /\ TailCall
  /\ UNCHANGED <<env, layer>> /\ Elsewhere

-----------------------------------------------------------------------------
(* Corrupter::poll_read, with the draw left open.                          *)

CorrupterHits ==
  /\ Running("Corrupter", "enter")
  /\ \/ knob.corrupt = "always" /\ UNCHANGED left
     \/ /\ knob.corrupt = "sometimes" /\ left.hits > 0
        /\ left' = [left EXCEPT !.hits = @ - 1]
  /\ ReturnReady(call.room, "no")
  /\ UNCHANGED <<stack, habits, knob, layer>> /\ Elsewhere

CorrupterMisses ==
  /\ Running("Corrupter", "enter") /\ knob.corrupt # "always"
  /\ TailCall
  /\ UNCHANGED <<env, layer>> /\ Elsewhere

-----------------------------------------------------------------------------
(* ThrottledReader::poll_read; poll_acquire.                               *)

\* is_unlimited()
ThrottleOff ==
  /\ Running("ThrottledReader", "enter") /\ knob.rate = 0
  /\ TailCall
  /\ UNCHANGED <<env, layer>> /\ Elsewhere

ThrottleOn ==
  /\ Running("ThrottledReader", "enter") /\ knob.rate # 0
  /\ Goto("fill", 0)
  /\ UNCHANGED <<env, layer>> /\ Elsewhere

ThrottleFills ==
  /\ Running("ThrottledReader", "fill")
  /\ IF CanFill THEN Goto("acquire", 0) /\ Looks ELSE ReturnPending /\ Elsewhere
  /\ UNCHANGED <<env, layer>>

\* The buffer as it was when poll_fill_buf showed it: nobody else touches it.
Shown == source.buf

Yield(bucket, grant) ==
  LET n == Least(grant, call.room) IN
    Copies(n) /\ layer' = [layer EXCEPT !.bucket = Spent(bucket, n)] /\ ReturnReady(n, "yes")

\* A second load of the rate, which may be 0 by now.
Acquire ==
  /\ Running("ThrottledReader", "acquire")
  /\ CASE layer.bucket.nap > 0 -> ReturnPending /\ UNCHANGED layer /\ Elsewhere
       [] layer.bucket.nap = 0 /\ Shown = 0 ->
            ReturnReady(0, "yes") /\ UNCHANGED layer /\ Elsewhere
       [] layer.bucket.nap = 0 /\ Shown > 0 /\ knob.rate = 0 -> Yield(layer.bucket, Shown)
       [] OTHER -> Goto("refill", knob.rate) /\ UNCHANGED layer /\ Elsewhere
  /\ UNCHANGED env

\* Mutant: an empty bucket is an answer.
GrantNothing ==
  /\ Running("ThrottledReader", "refill")
  /\ LET bucket == Refilled(layer.bucket, knob.rate)
     IN Yield(bucket, Least(Shown, bucket.budget))
  /\ UNCHANGED env

\* update_budget() loads the rate a third time; the sleep goes by the second.
Grant ==
  /\ Running("ThrottledReader", "refill")
  /\ LET bucket == Refilled(layer.bucket, knob.rate)
         grant == Least(Shown, bucket.budget)
     IN IF grant > 0 THEN Yield(bucket, grant)
        ELSE /\ layer' = [layer EXCEPT !.bucket = Napping(bucket, frame.seen)]
             /\ ReturnPending /\ Elsewhere
  /\ UNCHANGED env

-----------------------------------------------------------------------------
(* DelayedReader::poll_read.                                               *)

\* Mutant: the buffer is taken for empty only if it was when it was shown.
HandOutShown(timer) ==
  LET n == Least(Rem, call.room) IN
    /\ Copies(n) /\ ReturnReady(n, "yes")
    /\ layer' = [layer EXCEPT !.timer = timer, !.bufEmpty = (Rem = 0)]

\* The buffer is handed out, and found empty when all of it is.
HandOut(timer) ==
  LET n == Least(Rem, call.room) IN
    /\ Copies(n) /\ ReturnReady(n, "yes")
    /\ layer' = [layer EXCEPT !.timer = timer, !.bufEmpty = (n = Rem)]

DelayIdles ==
  /\ Running("DelayedReader", "enter") /\ BeforeDelay(layer.timer) /\ ~CanFill
  /\ ReturnPending
  /\ UNCHANGED <<env, layer>> /\ Elsewhere

\* Mutant: the delay begins before there is anything to delay.
DelayArmsEarly ==
  /\ Running("DelayedReader", "enter") /\ BeforeDelay(layer.timer)
  /\ layer.bufEmpty /\ knob.delay # 0
  /\ layer' = [layer EXCEPT !.timer = Armed(knob.delay)]
  /\ Looks /\ ReturnPending
  /\ UNCHANGED env

\* Only the first read of a burst, and an end of file, are delayed.
DelayArms ==
  /\ Running("DelayedReader", "enter") /\ BeforeDelay(layer.timer) /\ CanFill
  /\ layer.bufEmpty /\ knob.delay # 0
  /\ layer' = [layer EXCEPT !.timer = Armed(knob.delay)]
  /\ Looks /\ ReturnPending
  /\ UNCHANGED env

DelaySkips ==
  /\ Running("DelayedReader", "enter") /\ BeforeDelay(layer.timer) /\ CanFill
  /\ ~layer.bufEmpty \/ knob.delay = 0
  /\ HandOut(IdleTimer)
  /\ UNCHANGED env

DelayWaits ==
  /\ Running("DelayedReader", "enter") /\ Waiting(layer.timer)
  /\ ReturnPending
  /\ UNCHANGED <<env, layer>> /\ Elsewhere

\* "buffer can't be empty", and if it is the read panics.
DelayOver ==
  /\ Running("DelayedReader", "enter") /\ AfterDelay(layer.timer)
  /\ IF CanFill THEN HandOut(IdleTimer)
     ELSE /\ layer' = [layer EXCEPT !.timer = IdleTimer]
          /\ Back /\ call' = [call EXCEPT !.state = "panicked"] /\ UNCHANGED eof
          /\ Elsewhere
  /\ UNCHANGED env

-----------------------------------------------------------------------------
(* BufReader::poll_read, and the socket.                                   *)

\* A read with room for a full buffer does not go through an empty one.
SourceReads ==
  /\ AtSource
  /\ IF CanFill
       THEN LET n == Least(IF source.buf = 0 /\ call.room >= Capacity
                             THEN source.arrived ELSE Rem, call.room)
            IN IF n <= Rem THEN Copies(n) /\ ReturnReady(n, "yes")
               ELSE /\ source' = [source EXCEPT !.pos = @ + n, !.arrived = @ - n]
                    /\ got' = got \o Bytes(source.pos + 1, n)
                    /\ ReturnReady(n, "yes") /\ UNCHANGED history
       ELSE ReturnPending /\ Elsewhere
  /\ UNCHANGED <<env, layer>>

\* An error of the socket, wherever the read is asked for.
SourceFails ==
  /\ \/ AtSource
     \/ Running("ThrottledReader", "fill")
     \/ Running("DelayedReader", "enter") /\ ~Waiting(layer.timer)
  /\ ReturnFailed
  /\ UNCHANGED <<env, layer>> /\ Elsewhere

-----------------------------------------------------------------------------

Environment ==
  \/ SetRate \/ SetDelay \/ SetCorrupt \/ Inject \/ Tick \/ Arrive \/ Close
  \/ Read \/ Abandon \/ FillAndConsume

TaskStep ==
  \/ Poll \/ Fuse
  \/ InjectorDelivers \/ InjectorReceives \/ InjectorPasses
  \/ CorrupterHits \/ CorrupterMisses
  \/ ThrottleOff \/ ThrottleOn \/ ThrottleFills \/ Acquire \/ Grant
  \/ DelayIdles \/ DelayArms \/ DelaySkips \/ DelayWaits \/ DelayOver
  \/ SourceReads \/ SourceFails

Next == Environment \/ TaskStep

\* A pending read is polled again and a poll runs to its end; time passes.
Fairness == WF_vars(TaskStep) /\ WF_vars(Tick)

Spec == Init /\ [][Next]_vars /\ Fairness
-----------------------------------------------------------------------------

\* The owner is given the peer's bytes once each and in order, through
\* whatever mixture of reads, dropped reads and AsyncBufRead it asks for them
\* (poll_read of every adapter: what is copied is what is consumed).
NothingLost == got = Bytes(1, source.pos)

\* A read of nothing, an end of file, means that the peer has closed and the
\* owner has all it sent, or that an empty payload was injected (injector.rs:
\* an empty buffer is a read of nothing).
EofTruthful ==
  eof = "yes" => source.closed /\ source.buf = 0 /\ source.arrived = 0

\* No window of w ticks lets more through than two seconds' worth of bytes at
\* the highest rate and w ticks' worth on top ("ThrottledReader limits reads
\* from an AsyncBufRead source", throttler.rs).
RateMetered == meter.level >= 0

\* The first byte of a burst comes out no earlier than the lowest delay set
\* since it was buffered (DelayedReader).
BurstDelayed ==
  [][Has("DelayedReader") /\ "fill" \notin habits /\ Len(got') > Len(got)
       => (burst.begun /\ source.buf > 0) \/ burst'.since >= burst'.low]_vars

\* "buffer can't be empty" (delayer.rs): a delayed read finds what it waited for.
NeverPanics == call.state # "panicked"

\* A read for which there are bytes or an end of file is answered some time.
ReadsAnswered ==
  (call.state = "pending" /\ CanFill) ~> (call.state # "pending" \/ ~CanFill)
=============================================================================
