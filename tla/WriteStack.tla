------------------------------ MODULE WriteStack ------------------------------
(***************************************************************************)
(* A stack of tokio-netem's write adapters between an owner, who writes    *)
(* numbered bytes, and a socket or a BufWriter.  A poll is a call that     *)
(* goes down the stack and comes back up, one load of a knob or one        *)
(* decision of an adapter at a time; knobs, injections, the clock and the  *)
(* peer may interfere at any step.                                         *)
(*                                                                         *)
(* Bounds: Total bytes in buffers of at most MaxBuf, payloads of the       *)
(* adapters of at most MaxPayload bytes; a setup says how many knob        *)
(* changes, injections and corruptions at a probability below 1 may come.  *)
(***************************************************************************)
EXTENDS Integers, LeakyBucket, Delay

CONSTANTS
  Setups,     \* the stacks, the owner's side first, with the knobs they start with
  Buffered,   \* the stacks over a BufWriter, whose flush may wait; a socket's does not
  Sizes, Rates, Delays,
  Corrupts,   \* subset of {"never", "sometimes", "always"}: probability 0, between, 1
  Total, MaxBuf, MaxPayload,
  Abandons,   \* the owner may drop a pending write (select!, timeout)
  Careful     \* in a write whose flush may wait the size does not become 0, and
              \* the owner keeps its buffer until the flush is through; a
              \* vectored write does not overtake a payload

\* Atomics that setters store and adapters load.
Knobs == [size : Sizes, rate : Rates, delay : Delays, corrupt : Corrupts]
Allowances == [sets : Nat, injections : Nat, hits : Nat]

\* Bounds have a highest value, and no adapter is stacked twice.
ASSUME WriteStackAssumption ==
  /\ \A s \in Setups : s \in [stack : Seq(Kinds), knob : Knobs, left : Allowances]
  /\ \A s \in Setups : \A i, j \in DOMAIN s.stack : s.stack[i] = s.stack[j] => i = j
  /\ Sizes \subseteq Nat
  /\ Rates \subseteq Nat /\ \E r \in Rates : \A q \in Rates : q <= r
  /\ Delays \subseteq Nat /\ \E d \in Delays : \A e \in Delays : e <= d
  /\ Corrupts \subseteq {"never", "sometimes", "always"}
  /\ MaxBuf \in Nat \ {0} /\ MaxPayload \in Nat \ {0}
  /\ Total \in Nat
  /\ {Abandons, Careful} \subseteq BOOLEAN

VARIABLES
  stack,   \* the stack, fixed
  knob,    \* the shared knobs: size, rate, delay, corrupt
  left,    \* how many sets, injections and hits may still come
  layer,   \* what the adapters keep between polls
  frames,  \* the calls of the poll under way, the innermost last
  answer,  \* the Poll a call has just returned
  call,    \* the owner's operation: op, state, offset and length of its buffer
  told,    \* how many bytes it was told are written; whether 0 was an answer
  stream,  \* the owner's bytes that have reached the sink
  sink,    \* it has room for more; it holds bytes not flushed
  due,     \* due[k]: bytes of a payload of adapter k that have not reached the sink
  meter,   \* LeakyBucket's meter of what has reached the sink, valid as long as
           \* there has been a limit
  spacing  \* ticks since bytes reached the sink; the lowest delay since then

env == <<stack, knob, left>>
control == <<frames, answer>>
owner == <<call, told>>
outlet == <<stream, sink>>
history == <<due, meter, spacing>>
vars == <<env, layer, control, owner, outlet, history>>

TopRate == CHOOSE r \in Rates : \A q \in Rates : q <= r
TopDelay == CHOOSE d \in Delays : \A q \in Delays : q <= d
Longest == IF MaxBuf < MaxPayload THEN MaxPayload ELSE MaxBuf
Sources == {"owner", "WriteInjector", "Corrupter"}
Steps == {"enter", "slice", "acquire", "refill", "drain"}
None == [kind |-> "none", n |-> 0]
Pending == [kind |-> "pending", n |-> 0]
Failed == [kind |-> "failed", n |-> 0]
Ready(n) == [kind |-> "ready", n |-> n]

EnvTypes == stack \in Seq(Kinds) /\ knob \in Knobs /\ left \in Allowances

LayerTypes ==
  layer \in [queue : Seq(0..MaxPayload), injecting : 0..MaxPayload,
             garbage : 0..MaxPayload, flushing : BOOLEAN, owed : 0..Longest,
             bucket : Buckets(Rates), timer : Timers(Delays)]

Frames ==
  [at : 1..(Len(stack) + 1), src : Sources, len : 0..Longest, step : Steps,
   seen : Rates \cup {0}]
Answers == {None, Pending, Failed} \cup {Ready(n) : n \in 0..Longest}
ControlTypes == frames \in Seq(Frames) /\ answer \in Answers

OwnerTypes ==
  /\ call \in [op : {"write", "vectored", "shutdown"},
               state : {"idle", "pending", "closed", "failed"},
               next : 1..(Total + 1), len : 0..MaxBuf]
  /\ told \in [bytes : 0..Total, zero : BOOLEAN]

OutletTypes ==
  stream \in Seq(1..Total) /\ sink \in [room : BOOLEAN, dirty : BOOLEAN]

HistoryTypes ==
  /\ due \in [{"WriteInjector", "Corrupter"} -> 0..MaxPayload]
  /\ meter \in [level : Int, valid : BOOLEAN]
  /\ spacing \in [since : 0..TopDelay, low : Delays]

TypeOK ==
  /\ EnvTypes /\ LayerTypes /\ ControlTypes /\ OwnerTypes /\ OutletTypes /\ HistoryTypes
  /\ told.bytes <= Len(stream)

Has(kind) == Member(kind, stack)

\* The adapters as their new() leaves them.
Fresh(rate) ==
  [queue |-> <<>>, injecting |-> 0, garbage |-> 0, flushing |-> FALSE, owed |-> 0,
   bucket |-> Full(rate), timer |-> IdleTimer]

\* The builder methods of NetEmWriteExt.
Init ==
  /\ \E s \in Setups : stack = s.stack /\ knob = s.knob /\ left = s.left
  /\ layer = Fresh(knob.rate)
  /\ frames = <<>> /\ answer = None
  /\ call = [op |-> "write", state |-> "idle", next |-> 1, len |-> 0]
  /\ told = [bytes |-> 0, zero |-> FALSE]
  /\ stream = <<>> /\ sink = [room |-> TRUE, dirty |-> FALSE]
  /\ due = [WriteInjector |-> 0, Corrupter |-> 0]
  /\ meter = [level |-> MeterFull(TopRate),
              valid |-> Has("ThrottledWriter") /\ knob.rate # 0]
  /\ spacing = [since |-> 0, low |-> knob.delay]

-----------------------------------------------------------------------------
(* Knobs, injections, time and the peer.                                   *)

Set(name, value) ==
  /\ left.sets > 0 /\ value # knob[name]
  /\ knob' = [knob EXCEPT ![name] = value]
  /\ left' = [left EXCEPT !.sets = @ - 1]
  /\ UNCHANGED <<stack, layer, control, owner, outlet, due>>

\* DynamicSize::set
SetSize ==
  /\ Has("SlicedWriter")
  /\ \E s \in Sizes :
       /\ Set("size", s)
       /\ Careful /\ stack \in Buffered /\ (frames # <<>> \/ layer.flushing) => s # 0
  /\ UNCHANGED <<meter, spacing>>

\* DynamicRate::set
SetRate ==
  /\ Has("ThrottledWriter")
  /\ \E r \in Rates :
       Set("rate", r) /\ meter' = IF r = 0 THEN [level |-> 0, valid |-> FALSE] ELSE meter
  /\ UNCHANGED spacing

\* DynamicDuration::set
SetDelay ==
  /\ Has("DelayedWriter")
  /\ \E d \in Delays :
       Set("delay", d) /\ spacing' = [spacing EXCEPT !.low = Least(@, d)]
  /\ UNCHANGED meter

\* DynamicProbability::set, of which the corrupter sees the threshold.
SetCorrupt ==
  /\ Has("Corrupter")
  /\ \E c \in Corrupts : Set("corrupt", c)
  /\ UNCHANGED <<meter, spacing>>

\* A payload, possibly empty, is sent through the injector's channel.
Inject ==
  /\ Has("WriteInjector") /\ left.injections > 0
  /\ \E n \in 0..MaxPayload : layer' = [layer EXCEPT !.queue = Append(@, n)]
  /\ left' = [left EXCEPT !.injections = @ - 1]
  /\ UNCHANGED <<stack, knob, control, owner, outlet, history>>

\* Only a throttle or a delay looks at the clock.
Tick ==
  /\ layer' = [layer EXCEPT !.bucket = IF Has("ThrottledWriter") THEN Older(@) ELSE @,
                            !.timer = Closer(@)]
  /\ meter' = IF meter.valid THEN [meter EXCEPT !.level = Metered(@, TopRate)] ELSE meter
  /\ spacing' = IF Has("DelayedWriter")
                  THEN [spacing EXCEPT !.since = Least(TopDelay, @ + 1)] ELSE spacing
  /\ UNCHANGED <<env, control, owner, outlet, due>>

PeerReads ==
  /\ ~sink.room
  /\ sink' = [sink EXCEPT !.room = TRUE]
  /\ UNCHANGED <<env, layer, control, owner, stream, history>>

-----------------------------------------------------------------------------
(* The owner.                                                              *)

Quiet == frames = <<>> /\ answer = None

\* The first poll of a write, or a poll of a pending one with a longer buffer,
\* as copy_bidirectional does.
Offer(op) ==
  /\ Quiet
  /\ call.state = "idle" \/ (call.state = "pending" /\ call.op = op)
  /\ Careful /\ layer.flushing => call.state = "pending"
  /\ Careful /\ op = "vectored" => due = [k \in DOMAIN due |-> 0]
  /\ \E n \in (call.len + 1)..MaxBuf :
       /\ call.next + n <= Total + 1
       /\ call' = [call EXCEPT !.op = op, !.state = "pending", !.len = n]
  /\ UNCHANGED <<env, layer, control, told, outlet, history>>

Shutdown ==
  /\ Quiet /\ call.state = "idle"
  /\ call' = [call EXCEPT !.op = "shutdown", !.state = "pending"]
  /\ UNCHANGED <<env, layer, control, told, outlet, history>>

\* poll_flush is answered by the sink: no adapter but the fuses, which would
\* end the story, acts on it.
Flush ==
  /\ Quiet /\ call.state = "idle"
  /\ sink' = [sink EXCEPT !.dirty = FALSE]
  /\ UNCHANGED <<env, layer, control, owner, stream, history>>

\* The future of a write is dropped.  Its owner, told nothing, offers the same
\* bytes again later or gives them up.
Abandon ==
  /\ Abandons /\ Quiet /\ call.state = "pending" /\ call.op # "shutdown"
  /\ Careful => ~layer.flushing
  /\ \E skipped \in {0, call.len} :
       call' = [call EXCEPT !.state = "idle", !.len = 0, !.next = @ + skipped]
  /\ UNCHANGED <<env, layer, control, told, outlet, history>>

\* A call enters the next adapter below position i that acts on the operation,
\* or the sink.
Entered(i, src, n) ==
  {[at |-> j, src |-> src, len |-> n, step |-> "enter", seen |-> 0] :
     j \in Below(stack, call.op, i)}

Poll ==
  /\ Quiet /\ call.state = "pending"
  /\ \E frame \in Entered(0, "owner", call.len) : frames' = <<frame>>
  /\ UNCHANGED <<env, layer, answer, owner, outlet, history>>

OwnerReady ==
  /\ frames = <<>> /\ answer.kind = "ready" /\ answer' = None
  /\ IF call.op = "shutdown"
       THEN call' = [call EXCEPT !.state = "closed"] /\ UNCHANGED told
       ELSE /\ call' = [call EXCEPT !.state = "idle", !.len = 0, !.next = @ + answer.n]
            /\ told' = [bytes |-> told.bytes + answer.n,
                        zero |-> told.zero \/ answer.n = 0]
  /\ UNCHANGED <<env, layer, frames, outlet, history>>

OwnerPending ==
  /\ frames = <<>> /\ answer.kind = "pending" /\ answer' = None
  /\ UNCHANGED <<env, layer, frames, owner, outlet, history>>

\* An error of the stream ends its use.
OwnerFails ==
  /\ frames = <<>> /\ answer.kind = "failed" /\ answer' = None
  /\ call' = [call EXCEPT !.state = "failed"]
  /\ UNCHANGED <<env, layer, frames, told, outlet, history>>

-----------------------------------------------------------------------------
(* Calls and returns.                                                      *)

Top == frames[Len(frames)]
Callers == SubSeq(frames, 1, Len(frames) - 1)
At(kind) == frames # <<>> /\ Top.at \in DOMAIN stack /\ stack[Top.at] = kind
Running(kind, step) == At(kind) /\ answer = None /\ Top.step = step

\* The wrapped writer has answered n to a call made in this step.
Resumed(kind) == At(kind) /\ answer.kind = "ready"

Goto(step, seen) ==
  frames' = Append(Callers, [Top EXCEPT !.step = step, !.seen = seen]) /\ answer' = None
\* inner.poll_write(cx, buf) as the last expression ...
TailCall ==
  /\ \E frame \in Entered(Top.at, Top.src, Top.len) : frames' = Append(Callers, frame)
  /\ answer' = None
\* ... or to come back to.
Call(src, n) ==
  /\ \E frame \in Entered(Top.at, src, n) : frames' = Append(frames, frame)
  /\ answer' = None
Return(result) == frames' = Callers /\ answer' = result

Keeping(rest) == UNCHANGED <<env, owner, outlet, rest>>

\* ready!() and `?`: pending calls and errors go straight up, every adapter
\* keeps its state.
PassUp ==
  /\ frames # <<>> /\ answer.kind \in {"pending", "failed"}
  /\ Return(answer)
  /\ UNCHANGED layer /\ Keeping(history)

\* Shutdowner and Terminator: let the call through, or answer with an error
\* from now on.
Fuse ==
  /\ Running("Shutdowner", "enter") \/ Running("Terminator", "enter")
  /\ TailCall \/ Return(Failed)
  /\ UNCHANGED layer /\ Keeping(history)

-----------------------------------------------------------------------------
(* WriteInjector::poll_write.                                              *)

InjectorDrains ==
  /\ Running("WriteInjector", "enter") /\ layer.injecting > 0
  /\ Call("WriteInjector", layer.injecting)
  /\ UNCHANGED layer /\ Keeping(history)

InjectorReceives ==
  /\ Running("WriteInjector", "enter") /\ layer.injecting = 0 /\ layer.queue # <<>>
  /\ layer' = [layer EXCEPT !.injecting = Head(layer.queue), !.queue = Tail(@)]
  /\ due' = [due EXCEPT !["WriteInjector"] = @ + Head(layer.queue)]
  /\ Keeping(<<control, meter, spacing>>)

InjectorPasses ==
  /\ Running("WriteInjector", "enter") /\ layer.injecting = 0 /\ layer.queue = <<>>
  /\ TailCall
  /\ UNCHANGED layer /\ Keeping(history)

\* Mutant: what is left of a payload after a short write is dropped.
InjectorResumesAnew ==
  /\ Resumed("WriteInjector")
  /\ layer' = [layer EXCEPT !.injecting = 0] /\ Goto("enter", 0)
  /\ Keeping(history)

\* A write of nothing is an error; Bytes::advance past the end panics.
InjectorResumes ==
  /\ Resumed("WriteInjector")
  /\ IF answer.n \in 1..layer.injecting
       THEN layer' = [layer EXCEPT !.injecting = @ - answer.n] /\ Goto("enter", 0)
       ELSE UNCHANGED layer /\ Return(Failed)
  /\ Keeping(history)

-----------------------------------------------------------------------------
(* Corrupter::poll_write.                                                  *)

CorrupterDrains ==
  /\ Running("Corrupter", "enter") /\ layer.garbage > 0
  /\ Call("Corrupter", layer.garbage)
  /\ UNCHANGED layer /\ Keeping(history)

\* random_data(), of which only the length matters.
Garbage == 1..MaxPayload

\* should_corrupt(), with the draw left open.
CorrupterHits ==
  /\ Running("Corrupter", "enter") /\ layer.garbage = 0
  /\ \/ knob.corrupt = "always" /\ UNCHANGED left
     \/ /\ knob.corrupt = "sometimes" /\ left.hits > 0
        /\ left' = [left EXCEPT !.hits = @ - 1]
  /\ \E n \in Garbage :
       /\ layer' = [layer EXCEPT !.garbage = n]
       /\ due' = [due EXCEPT !["Corrupter"] = @ + n]
  /\ UNCHANGED <<stack, knob, control, owner, outlet, meter, spacing>>

CorrupterMisses ==
  /\ Running("Corrupter", "enter") /\ layer.garbage = 0 /\ knob.corrupt # "always"
  /\ TailCall
  /\ UNCHANGED layer /\ Keeping(history)

\* Mutant: the garbage that is through is answered as the caller's bytes.
CorrupterResumesCounting ==
  /\ Resumed("Corrupter")
  /\ IF answer.n \in 1..layer.garbage
       THEN /\ layer' = [layer EXCEPT !.garbage = @ - answer.n]
            /\ IF answer.n = layer.garbage THEN Return(answer) ELSE Goto("enter", 0)
       ELSE UNCHANGED layer /\ Return(Failed)
  /\ Keeping(history)

\* When the garbage is through, the caller's bytes follow without another draw.
CorrupterResumes ==
  /\ Resumed("Corrupter")
  /\ IF answer.n \in 1..layer.garbage
       THEN /\ layer' = [layer EXCEPT !.garbage = @ - answer.n]
            /\ IF answer.n = layer.garbage THEN TailCall ELSE Goto("enter", 0)
       ELSE UNCHANGED layer /\ Return(Failed)
  /\ Keeping(history)

-----------------------------------------------------------------------------
(* SlicedWriter::poll_write and poll_write_vectored.                       *)

\* is_zero() || buf.is_empty(): a pass-through, whatever the phase.
SliceOff ==
  /\ Running("SlicedWriter", "enter")
  /\ knob.size = 0 \/ (Top.len = 0 /\ call.op = "write")
  /\ TailCall
  /\ UNCHANGED layer /\ Keeping(history)

SliceOn ==
  /\ Running("SlicedWriter", "enter")
  /\ knob.size # 0 /\ (Top.len > 0 \/ call.op = "vectored")
  /\ Goto("slice", 0)
  /\ UNCHANGED layer /\ Keeping(history)

\* size() is a second load of the knob.  An empty slice is answered with 0 by
\* poll_write and handed down by poll_write_vectored.
SliceWrites ==
  /\ Running("SlicedWriter", "slice") /\ ~layer.flushing
  /\ LET chunk == Least(Top.len, knob.size) IN
       IF chunk = 0 /\ call.op = "write" THEN Return(Ready(0)) ELSE Call(Top.src, chunk)
  /\ UNCHANGED layer /\ Keeping(history)

\* Mutant: the length of the buffer is put aside.
SliceResumesWhole ==
  /\ Resumed("SlicedWriter")
  /\ layer' = [layer EXCEPT !.flushing = TRUE, !.owed = Top.len]
  /\ Goto("slice", 0)
  /\ Keeping(history)

SliceResumes ==
  /\ Resumed("SlicedWriter")
  /\ layer' = [layer EXCEPT !.flushing = TRUE, !.owed = answer.n]
  /\ Goto("slice", 0)
  /\ Keeping(history)

\* Mutant: a flush that waits is taken for done.
SliceFlushedUnfinished ==
  /\ Running("SlicedWriter", "slice") /\ layer.flushing
  /\ layer' = [layer EXCEPT !.flushing = FALSE, !.owed = 0]
  /\ Return(Ready(layer.owed))
  /\ Keeping(history)

\* The number that was put aside is the answer, to whoever asks now.
SliceFlushed ==
  /\ Running("SlicedWriter", "slice") /\ layer.flushing
  /\ sink' = [sink EXCEPT !.dirty = FALSE]
  /\ layer' = [layer EXCEPT !.flushing = FALSE, !.owed = 0]
  /\ Return(Ready(layer.owed))
  /\ UNCHANGED <<env, owner, stream, history>>

SliceFlushWaits ==
  /\ Running("SlicedWriter", "slice") /\ layer.flushing /\ stack \in Buffered
  /\ Return(Pending)
  /\ UNCHANGED layer /\ Keeping(history)

SliceFlushFails ==
  /\ Running("SlicedWriter", "slice") /\ layer.flushing
  /\ Return(Failed)
  /\ UNCHANGED layer /\ Keeping(history)

-----------------------------------------------------------------------------
(* ThrottledWriter::poll_write and poll_write_vectored; poll_acquire.      *)

\* is_unlimited()
ThrottleOff ==
  /\ Running("ThrottledWriter", "enter") /\ knob.rate = 0
  /\ TailCall
  /\ UNCHANGED layer /\ Keeping(history)

ThrottleOn ==
  /\ Running("ThrottledWriter", "enter") /\ knob.rate # 0
  /\ Goto("acquire", 0)
  /\ UNCHANGED layer /\ Keeping(history)

\* A second load of the rate, which may be 0 by now.
Acquire ==
  /\ Running("ThrottledWriter", "acquire")
  /\ CASE layer.bucket.nap > 0 -> Return(Pending)
       [] layer.bucket.nap = 0 /\ Top.len = 0 -> Return(Ready(0))
       [] layer.bucket.nap = 0 /\ Top.len > 0 /\ knob.rate = 0 -> Call(Top.src, Top.len)
       [] OTHER -> Goto("refill", knob.rate)
  /\ UNCHANGED layer /\ Keeping(history)

\* update_budget() loads the rate a third time; the sleep goes by the second.
Grant ==
  /\ Running("ThrottledWriter", "refill")
  /\ LET bucket == Refilled(layer.bucket, knob.rate)
         grant == Least(Top.len, bucket.budget)
     IN IF grant > 0
          THEN layer' = [layer EXCEPT !.bucket = bucket] /\ Call(Top.src, grant)
          ELSE /\ layer' = [layer EXCEPT !.bucket = Napping(bucket, Top.seen)]
               /\ Return(Pending)
  /\ Keeping(history)

\* Only what the wrapped writer took is paid for.
ThrottleResumes ==
  /\ Resumed("ThrottledWriter")
  /\ layer' = [layer EXCEPT !.bucket = Spent(@, answer.n)]
  /\ Return(answer)
  /\ Keeping(history)

-----------------------------------------------------------------------------
(* DelayedWriter::poll_with_write_delay.                                   *)

DelayOff ==
  /\ Running("DelayedWriter", "enter") /\ BeforeDelay(layer.timer) /\ knob.delay = 0
  /\ TailCall
  /\ UNCHANGED layer /\ Keeping(history)

DelayArms ==
  /\ Running("DelayedWriter", "enter") /\ BeforeDelay(layer.timer) /\ knob.delay # 0
  /\ layer' = [layer EXCEPT !.timer = Armed(knob.delay)]
  /\ Return(Pending)
  /\ Keeping(history)

DelayWaits ==
  /\ Running("DelayedWriter", "enter") /\ Waiting(layer.timer)
  /\ Return(Pending)
  /\ UNCHANGED layer /\ Keeping(history)

\* Mutant: the state is not set back to Idle.
DelayOverStaying ==
  /\ Running("DelayedWriter", "enter") /\ AfterDelay(layer.timer)
  /\ TailCall
  /\ UNCHANGED layer /\ Keeping(history)

\* Idle again before the wrapped writer is asked: if that is pending, the next
\* poll delays anew.
DelayOver ==
  /\ Running("DelayedWriter", "enter") /\ AfterDelay(layer.timer)
  /\ layer' = [layer EXCEPT !.timer = IdleTimer]
  /\ TailCall
  /\ Keeping(history)

-----------------------------------------------------------------------------
(* The socket or BufWriter at the bottom.                                  *)

AtSink == frames # <<>> /\ Top.at = Len(stack) + 1 /\ answer = None
Bytes(from, n) == [i \in 1..n |-> from + i - 1]

SinkTakes(n) ==
  /\ AtSink /\ call.op # "shutdown" /\ sink.room
  /\ n <= Top.len /\ (n = 0 => Top.len = 0)
  /\ Return(Ready(n))
  /\ sink' \in [room : BOOLEAN, dirty : {sink.dirty \/ n > 0}]
  /\ IF Top.src = "owner"
       THEN stream' = stream \o Bytes(call.next, n) /\ UNCHANGED due
       ELSE due' = [due EXCEPT ![Top.src] = @ - n] /\ UNCHANGED stream
  /\ meter' = IF meter.valid THEN [meter EXCEPT !.level = @ - Second * n] ELSE meter
  /\ spacing' = [since |-> 0, low |-> knob.delay]
  /\ UNCHANGED <<env, layer, owner>>

SinkWaits ==
  /\ AtSink /\ call.op # "shutdown" /\ ~sink.room
  /\ Return(Pending)
  /\ UNCHANGED layer /\ Keeping(history)

SinkShuts ==
  /\ AtSink /\ call.op = "shutdown"
  /\ Return(Ready(0))
  /\ UNCHANGED layer /\ Keeping(history)

SinkFails ==
  /\ AtSink
  /\ Return(Failed)
  /\ UNCHANGED layer /\ Keeping(history)

-----------------------------------------------------------------------------

Environment ==
  \/ SetSize \/ SetRate \/ SetDelay \/ SetCorrupt \/ Inject \/ Tick \/ PeerReads
  \/ Offer("write") \/ Offer("vectored") \/ Shutdown \/ Flush \/ Abandon

Adapter ==
  \/ PassUp \/ Fuse
  \/ InjectorDrains \/ InjectorReceives \/ InjectorPasses \/ InjectorResumes
  \/ CorrupterDrains \/ CorrupterHits \/ CorrupterMisses \/ CorrupterResumes
  \/ SliceOff \/ SliceOn \/ SliceWrites \/ SliceResumes \/ SliceFlushed \/ SliceFlushWaits
  \/ SliceFlushFails
  \/ ThrottleOff \/ ThrottleOn \/ Acquire \/ Grant \/ ThrottleResumes
  \/ DelayOff \/ DelayArms \/ DelayWaits \/ DelayOver

Sink == (\E n \in 0..Longest : SinkTakes(n)) \/ SinkWaits \/ SinkShuts \/ SinkFails

TaskStep == Poll \/ OwnerReady \/ OwnerPending \/ OwnerFails \/ Adapter \/ Sink

Next == Environment \/ TaskStep

\* A pending write is polled again and a poll runs to its end; time passes, the
\* peer reads, a flush asked for again and again gets through.
Fairness ==
  WF_vars(TaskStep) /\ WF_vars(Tick) /\ WF_vars(PeerReads) /\ SF_vars(SliceFlushed)

Spec == Init /\ [][Next]_vars /\ Fairness
-----------------------------------------------------------------------------

\* Whenever no operation is under way, what reached the sink is what the owner
\* was told is written: nothing is forwarded behind its back.
ToldIsForwarded == call.state = "idle" => Len(stream) = told.bytes

\* No byte of the owner reaches the sink twice ("A slice size of 0 disables the
\* adapter, making it behave like a pass-through writer", slicer.rs).
ForwardedOnce == \A i, j \in DOMAIN stream : stream[i] = stream[j] => i = j

\* A buffer that is not empty is never answered with 0, which write_all and
\* copy_bidirectional take for an error.
NeverZero == ~told.zero

\* A slice reported written has been flushed, and everything before it: slices
\* never coalesce, whatever the size does in the meantime.
SlicesApart == [][layer.flushing /\ ~layer'.flushing => ~sink'.dirty]_vars

\* An injected or random payload reaches the sink whole: no byte that came to
\* its adapter from above gets there between its first byte and its last
\* ("queued payloads finish writing before normal I/O resumes", injector.rs).
PayloadsWhole ==
  [][/\ stream' # stream => due = [k \in DOMAIN due |-> 0]
     /\ due' # due => \A k \in DOMAIN due : due'[k] >= 0]_vars

\* No window of w ticks lets more through than two seconds' worth of bytes at
\* the highest rate and w ticks' worth on top, whatever the rate does in it
\* (throttler.rs: update_budget, consume).
RateMetered == meter.level >= 0

\* Bytes of a stack with a delay reach the sink at least as far apart as the
\* lowest delay set in between; a shutdown keeps the distance too.
SpacedOut ==
  [][Has("DelayedWriter") /\ AtSink /\ answer'.kind = "ready"
       => spacing.since >= spacing.low]_vars

\* Every write and shutdown is answered some time: no combination of adapters
\* keeps the owner waiting for ever.
Answered == call.state = "pending" ~> call.state # "pending"

\* Seen from the owner a stack is a sink like any other: its bytes arrive once,
\* in order, and as many as it was told.
Promise == INSTANCE ByteSink
  WITH stream <- SubSeq(stream, 1, Least(told.bytes, Len(stream))),
       next <- call.next, len <- call.len
ImplementsByteSink == Promise!Spec
=============================================================================
