--------------------------- MODULE WriteTiming_proof ---------------------------
(***************************************************************************)
(* What the adapters of WriteStack that look at the clock promise: how far *)
(* apart bytes reach the sink, and how many in how long.  Both need that   *)
(* injectors and corrupters, whose payloads reach the sink unasked, lie    *)
(* above the adapter in question, as they do in trixter.                   *)
(***************************************************************************)
EXTENDS WriteStack_proof

\* No adapter below one of this kind writes bytes of its own.
Beyond(kind) ==
  \A s \in Setups : \A i, j \in DOMAIN s.stack :
    s.stack[i] = kind /\ s.stack[j] \in Payers => j < i

\* The adapters of a stack are Beyond or above.
LEMMA PayersAbove ==
  ASSUME NEW kind, Beyond(kind), Chosen, EnvTypes, NEW p \in DOMAIN stack, stack[p] = kind,
         NEW j \in DOMAIN stack, p <= j
  PROVE stack[j] \notin Payers
<1>1. stack[j] \in Payers => j < p
  BY DEF Chosen, Beyond
<1>2. j \in Nat /\ p \in Nat
  BY DEF EnvTypes
<1> QED
  BY <1>1, <1>2

\* The innermost call goes past an adapter that acts on the operation only when
\* that adapter hands it on.
LEMMA Descents ==
  ASSUME TypeOK, Chain, Fits, [Next]_vars, NEW p \in DOMAIN stack, p \in Stops(stack, call.op),
         frames' # <<>>, p < Top'.at
  PROVE /\ frames # <<>> /\ UNCHANGED call
        /\ \/ p < Top.at
           \/ Top.at = p /\ (TailCall \/ CallsDown)
<1>0. EnvTypes /\ ControlTypes /\ OwnerTypes /\ p \in Nat \ {0}
  BY DEF TypeOK, EnvTypes
<1>1. \A f \in Frames : f.at \in Nat /\ f.src \in Sources /\ f.len \in 0..Longest
  BY <1>0 DEF Frames, EnvTypes
<1>2. frames # <<>> => Top \in Frames
  BY <1>0, TopIs
<1>3. CASE Stays
  BY <1>3 DEF Stays, Top
<1>4. ~OwnersTurn
  BY DEF OwnersTurn
<1>5. ~Poll
  <2> SUFFICES ASSUME Poll PROVE FALSE
    OBVIOUS
  <2>1. PICK f \in Entered(0, "owner", call.len) : frames' = <<f>>
    BY DEF Poll
  <2>2. call.len \in 0..Longest /\ "owner" \in Sources
    BY <1>0, Constants DEF OwnerTypes, Sources
  <2>3. f \in Frames /\ f.at <= p
    BY <1>0, <2>1, <2>2, EnteredIs
  <2>4. Top' = f
    BY <2>1 DEF Top
  <2> QED
    BY <1>0, <1>1, <2>3, <2>4
<1>6. CASE frames # <<>> /\ UNCHANGED call /\ GoesOn
  <2>1. PICK step \in Steps, seen \in Rates \cup {0} : Goto(step, seen)
    BY <1>6 DEF GoesOn
  <2> DEFINE f == [Top EXCEPT !.step = step, !.seen = seen]
  <2>2. f \in Frames /\ f.at = Top.at
    BY <1>2, <1>6 DEF Frames
  <2>3. frames' = Append(Callers, f)
    BY <2>1 DEF Goto
  <2> HIDE DEF f
  <2>4. Top' = f
    BY <1>0, <1>6, <2>2, <2>3, Replaces
  <2> QED
    BY <1>6, <2>2, <2>4
<1>7. CASE frames # <<>> /\ UNCHANGED call /\ TailCall
  <2>1. PICK f \in Entered(Top.at, Top.src, Top.len) : frames' = Append(Callers, f)
    BY <1>7 DEF TailCall
  <2>2. f \in Frames /\ (Top.at < p => f.at <= p)
    BY <1>0, <1>1, <1>2, <1>7, <2>1, EnteredIs
  <2>3. Top' = f
    BY <1>0, <1>7, <2>1, <2>2, Replaces
  <2>4. Top.at \in Nat /\ f.at \in Nat
    BY <1>1, <1>2, <1>7, <2>2
  <2> QED
    BY <1>0, <1>7, <2>2, <2>3, <2>4
<1>8. CASE frames # <<>> /\ UNCHANGED call /\ CallsDown
  <2>1. PICK n \in 0..Longest : Call(Asker(Top), n)
    BY <1>8 DEF CallsDown
  <2>2. PICK f \in Entered(Top.at, Asker(Top), n) : frames' = Append(frames, f)
    BY <2>1 DEF Call
  <2>3. Asker(Top) \in Sources
    BY <1>1, <1>2, <1>8 DEF Asker, Sources
  <2>4. f \in Frames /\ (Top.at < p => f.at <= p)
    BY <1>0, <1>1, <1>2, <1>8, <2>2, <2>3, EnteredIs
  <2>5. Top' = f
    BY <1>0, <2>2, <2>4, Pushes
  <2>6. Top.at \in Nat /\ f.at \in Nat
    BY <1>1, <1>2, <1>8, <2>4
  <2> QED
    BY <1>0, <1>8, <2>4, <2>5, <2>6
<1>9. CASE frames # <<>> /\ UNCHANGED call /\ ComesBack
  <2> DEFINE n == Len(frames)
  <2>1. frames' = Callers
    BY <1>9 DEF ComesBack, Return
  <2>2. Top' = frames[n - 1] /\ n - 1 \in 1..n /\ n \in Nat
    BY <1>0, <1>9, <2>1, Pops
  <2>3. n \in DOMAIN frames /\ Top = frames[n] /\ DOMAIN frames = 1..n
    BY <1>0, <1>9, TopIs, CallsAre
  <2>4. n - 1 \in 1..(n - 1) /\ n - 1 \in DOMAIN frames
    BY <2>2, <2>3
  <2>5. frames[n - 1].at < frames[n].at
    BY <2>3, <2>4 DEF Chain
  <2>6. frames[n - 1].at \in Nat /\ frames[n].at \in Nat
    BY <1>0, <2>3, <2>4, CallsAre
  <2>7. p < frames[n].at
    BY <1>0, <2>2, <2>5, <2>6
  <2> QED
    BY <1>9, <2>3, <2>7
<1> QED
  BY <1>3, <1>4, <1>5, <1>6, <1>7, <1>8, <1>9, Shapes

-----------------------------------------------------------------------------
(* Bytes keep their distance.                                               *)

\* The slicer is about to flush: it calls no more in this poll.
Flushing == layer.flushing /\ Running("SlicedWriter", "slice")

\* A timer that is armed runs out no sooner than the distance is over; a call
\* that is past the delay finds it over, unless it is on its way back.
Distant ==
  /\ spacing.low <= knob.delay
  /\ layer.timer.armed =>
       Has("DelayedWriter") /\ spacing.low <= layer.timer.left + spacing.since
  /\ \A d \in DOMAIN stack :
       stack[d] = "DelayedWriter" /\ frames # <<>> /\ d < Top.at =>
         /\ ~layer.timer.armed
         /\ answer = None /\ ~Flushing => spacing.low <= spacing.since

\* Who looks at the clock.
LEMMA ClockSteps ==
  ASSUME LayerTypes, EnvTypes, [Next]_vars
  PROVE \/ UNCHANGED <<layer.timer, spacing, knob.delay>>
        \/ SetDelay \/ Tick \/ DelayArms \/ DelayOver
        \/ \E n \in 0..Longest : SinkTakes(n)
<1>1. CASE Environment /\ ~SetDelay /\ ~Tick
  BY <1>1 DEF Environment, SetSize, SetRate, SetCorrupt, Set, Inject, PeerReads, Flush, Offer,
              Shutdown, Abandon, env, history, LayerTypes, EnvTypes, Knobs
<1>2. CASE Poll \/ OwnerReady \/ OwnerPending \/ OwnerFails \/ SinkWaits \/ SinkShuts \/ SinkFails
  BY <1>2 DEF Poll, OwnerReady, OwnerPending, OwnerFails, SinkWaits, SinkShuts, SinkFails,
              Keeping, env, history
<1>3. CASE Adapter /\ ~DelayArms /\ ~DelayOver
  <2>1. spacing' = spacing /\ knob' = knob
    BY <1>3 DEF Adapter, PassUp, Fuse, InjectorDrains, InjectorReceives, InjectorPasses,
         InjectorResumes, CorrupterDrains, CorrupterHits, CorrupterMisses, CorrupterResumes,
         SliceOff, SliceOn, SliceWrites, SliceResumes, SliceFlushed, SliceFlushWaits,
         SliceFlushFails, ThrottleOff, ThrottleOn, Acquire, Grant, ThrottleResumes, DelayOff,
         DelayWaits, Keeping, env, history
  <2>2. layer'.timer = layer.timer
    <3>1. CASE InjectorReceives \/ InjectorResumes \/ CorrupterHits \/ CorrupterResumes
      BY <3>1 DEF InjectorReceives, InjectorResumes, CorrupterHits, CorrupterResumes, LayerTypes
    <3>2. CASE SliceResumes \/ SliceFlushed \/ Grant \/ ThrottleResumes
      BY <3>2 DEF SliceResumes, SliceFlushed, Grant, ThrottleResumes, LayerTypes
    <3>3. CASE layer' = layer
      BY <3>3
    <3> QED
      BY <1>3, <3>1, <3>2, <3>3 DEF Adapter, PassUp, Fuse, InjectorDrains, InjectorPasses,
         CorrupterDrains, CorrupterMisses, SliceOff, SliceOn, SliceWrites, SliceFlushWaits,
         SliceFlushFails, ThrottleOff, ThrottleOn, Acquire, DelayOff, DelayWaits
  <2> QED
    BY <2>1, <2>2
<1>4. CASE UNCHANGED vars
  BY <1>4 DEF vars, env, history
<1> QED
  BY <1>1, <1>2, <1>3, <1>4 DEF Next, TaskStep, Sink

\* An answer is taken by the owner, or by an adapter that called.
LEMMA AnswerTaken ==
  ASSUME [Next]_vars, answer # None, answer' = None, frames' # <<>>
  PROVE SliceResumes \/ InjectorResumes \/ CorrupterResumes
<1>1. CASE Environment
  BY <1>1 DEF Environment, SetSize, SetRate, SetDelay, SetCorrupt, Set, Inject, Tick, PeerReads,
              Flush, Offer, Shutdown, Abandon, control
<1>2. CASE Poll \/ OwnerReady \/ OwnerPending \/ OwnerFails
  BY <1>2 DEF Poll, Quiet, OwnerReady, OwnerPending, OwnerFails
<1>3. ~Sink
  BY DEF Sink, SinkTakes, SinkWaits, SinkShuts, SinkFails, AtSink
<1>4. CASE Adapter
  BY <1>4 DEF Adapter, PassUp, Fuse, InjectorDrains, InjectorReceives, InjectorPasses,
         CorrupterDrains, CorrupterHits, CorrupterMisses,
         SliceOff, SliceOn, SliceWrites, SliceFlushed, SliceFlushWaits,
         SliceFlushFails, ThrottleOff, ThrottleOn, Acquire, Grant, ThrottleResumes, DelayOff,
         DelayArms, DelayWaits, DelayOver, Running, Return
<1>5. CASE UNCHANGED vars
  BY <1>5 DEF vars, control
<1> QED
  BY <1>1, <1>2, <1>3, <1>4, <1>5 DEF Next, TaskStep

\* What the delay may do when it is its turn.
LEMMA AtDelay ==
  ASSUME EnvTypes, At("DelayedWriter"), [Next]_vars
  PROVE \/ UNCHANGED <<frames, answer>>
        \/ PassUp \/ DelayOff \/ DelayArms \/ DelayWaits \/ DelayOver
<1>1. Top.at \in DOMAIN stack /\ stack[Top.at] = "DelayedWriter" /\ frames # <<>>
  BY DEF At
<1>2. CASE Environment
  BY <1>1, <1>2 DEF Environment, SetSize, SetRate, SetDelay, SetCorrupt, Set, Inject, Tick,
                    PeerReads, Flush, Offer, Shutdown, Abandon, control
<1>3. CASE Poll \/ OwnerReady \/ OwnerPending \/ OwnerFails
  BY <1>1, <1>3 DEF Poll, Quiet, OwnerReady, OwnerPending, OwnerFails
<1>4. ~Sink
  <2>1. Top.at # Len(stack) + 1
    BY <1>1 DEF EnvTypes
  <2> QED
    BY <2>1 DEF Sink, SinkTakes, SinkWaits, SinkShuts, SinkFails, AtSink
<1>5. CASE Adapter
  BY <1>1, <1>5 DEF Adapter, Fuse, InjectorDrains, InjectorReceives, InjectorPasses,
         InjectorResumes, CorrupterDrains, CorrupterHits, CorrupterMisses, CorrupterResumes,
         SliceOff, SliceOn, SliceWrites, SliceResumes, SliceFlushed, SliceFlushWaits,
         SliceFlushFails, ThrottleOff, ThrottleOn, Acquire, Grant, ThrottleResumes,
         Running, Resumed, At
<1>6. CASE UNCHANGED vars
  BY <1>6 DEF vars, control
<1> QED
  BY <1>2, <1>3, <1>4, <1>5, <1>6 DEF Next, TaskStep

\* A flush that is due ends with an answer.
LEMMA FlushEnds ==
  ASSUME LayerTypes, [Next]_vars, layer.flushing, UNCHANGED answer, answer = None
  PROVE layer'.flushing
<1>1. CASE Environment
  BY <1>1 DEF Environment, SetSize, SetRate, SetDelay, SetCorrupt, Set, Inject, Tick,
              PeerReads, Flush, Offer, Shutdown, Abandon, LayerTypes
<1>2. CASE Poll \/ OwnerReady \/ OwnerPending \/ OwnerFails \/ Sink
  BY <1>2 DEF Poll, OwnerReady, OwnerPending, OwnerFails, Sink, SinkTakes, SinkWaits,
              SinkShuts, SinkFails
<1>3. CASE Adapter
  <2>1. ~SliceFlushed
    BY DEF SliceFlushed, Return, Ready, None
  <2> QED
    BY <1>3, <2>1 DEF Adapter, PassUp, Fuse, InjectorDrains, InjectorReceives, InjectorPasses,
         InjectorResumes, CorrupterDrains, CorrupterHits, CorrupterMisses, CorrupterResumes,
         SliceOff, SliceOn, SliceWrites, SliceResumes, SliceFlushWaits,
         SliceFlushFails, ThrottleOff, ThrottleOn, Acquire, Grant, ThrottleResumes, DelayOff,
         DelayArms, DelayWaits, DelayOver, LayerTypes
<1>4. CASE UNCHANGED vars
  BY <1>4 DEF vars
<1> QED
  BY <1>1, <1>2, <1>3, <1>4 DEF Next, TaskStep

\* Before the first byte.
LEMMA DistantInit == Init => Distant
<1> SUFFICES ASSUME Init PROVE Distant
  OBVIOUS
<1>1. /\ spacing = [since |-> 0, low |-> knob.delay] /\ frames = <<>>
      /\ layer.timer = [armed |-> FALSE, left |-> 0]
  BY DEF Init, Fresh, IdleTimer
<1>2. knob.delay \in Nat
  BY SoundInit, Constants DEF Sound, TypeOK, EnvTypes, Knobs
<1> QED
  BY <1>1, <1>2 DEF Distant

\* The numbers.
LEMMA ClockIs ==
  ASSUME TypeOK
  PROVE /\ spacing.since \in Nat /\ spacing.since <= TopDelay /\ spacing.low \in Nat
        /\ spacing.low <= TopDelay /\ TopDelay \in Nat
        /\ knob.delay \in Delays /\ knob.delay \in Nat /\ knob \in Knobs
        /\ layer.timer \in Timers(Delays)
        /\ layer.timer.armed \in BOOLEAN /\ layer.timer.left \in Nat
        /\ spacing \in [since : 0..TopDelay, low : Delays]
<1>1. /\ spacing \in [since : 0..TopDelay, low : Delays] /\ knob \in Knobs
      /\ layer.timer \in Timers(Delays) /\ Delays \in SUBSET Nat
  BY LayerIs, Constants DEF TypeOK, HistoryTypes, EnvTypes
<1>2. layer.timer.armed \in BOOLEAN /\ \E d \in Delays : layer.timer.left \in 0..d
  BY <1>1 DEF Timers
<1>3. layer.timer.left \in Nat
  BY <1>1, <1>2
<1> QED
  BY <1>1, <1>2, <1>3, Tops DEF Knobs

\* The delay is a stop for every operation.
LEMMA DelayStops ==
  ASSUME TypeOK, NEW d \in DOMAIN stack, stack[d] = "DelayedWriter"
  PROVE d \in Stops(stack, call.op)
BY WhoActs, StopsAct DEF TypeOK, OwnerTypes

\* A call past the delay has either been there before, with its distance kept,
\* or is let go now.
LEMMA PastTheDelay ==
  ASSUME Sound, Distant, [Next]_vars, Beyond("DelayedWriter"),
         NEW d \in DOMAIN stack, stack[d] = "DelayedWriter", frames' # <<>>, d < Top'.at
  PROVE \/ /\ frames # <<>> /\ d < Top.at /\ ~layer.timer.armed
           /\ answer' = None /\ ~Flushing' => spacing.low <= spacing.since
        \/ DelayOff \/ DelayOver
<1>0. TypeOK /\ EnvTypes /\ LayerTypes /\ ControlTypes /\ Chosen /\ Chain /\ Fits
  BY DEF Sound, TypeOK
<1>1. /\ frames # <<>>
      /\ d < Top.at \/ (Top.at = d /\ (TailCall \/ CallsDown))
  BY <1>0, DelayStops, Descents
<1>2. CASE Top.at = d
  <2>1. At("DelayedWriter")
    BY <1>1, <1>2 DEF At
  <2>2. ~(Top'.at = Top.at)
    BY <1>2, <1>0 DEF EnvTypes
  <2>3. ~UNCHANGED <<frames, answer>>
    BY <2>2 DEF Top
  <2>4. ~(frames' = Callers)
    <3> SUFFICES ASSUME frames' = Callers PROVE FALSE
      OBVIOUS
    <3> DEFINE n == Len(frames)
    <3>1. n - 1 \in DOMAIN frames /\ n \in DOMAIN frames /\ Top' = frames[n - 1] /\ Top = frames[n]
          /\ n - 1 \in 1..(n - 1)
      BY <1>0, <1>1, TopIs, CallsAre, Pops
    <3>2. frames[n - 1].at < frames[n].at /\ frames[n - 1].at \in Nat /\ frames[n].at \in Nat
      BY <1>0, <3>1, CallsAre DEF Chain
    <3> QED
      BY <1>2, <3>1, <3>2
  <2>5. ~PassUp /\ ~DelayArms /\ ~DelayWaits
    BY <2>4 DEF PassUp, DelayArms, DelayWaits, Return
  <2> QED
    BY <1>0, <2>1, <2>3, <2>5, AtDelay
<1>3. CASE d < Top.at
  <2>1. /\ ~layer.timer.armed
        /\ answer = None /\ ~Flushing => spacing.low <= spacing.since
    BY <1>1, <1>3 DEF Distant
  <2>2. ASSUME answer' = None, ~Flushing', answer # None PROVE FALSE
    <3>1. SliceResumes \/ InjectorResumes \/ CorrupterResumes
      BY <2>2, AnswerTaken
    <3>2. CASE SliceResumes
      <4>1. At("SlicedWriter") /\ frames # <<>> /\ Top \in Frames /\ layer.flushing \in BOOLEAN
        BY <1>0, <3>2, TopIs, LayerIs DEF SliceResumes, Resumed, At
      <4>2. layer' = [layer EXCEPT !.flushing = TRUE, !.owed = answer.n] /\ Goto("slice", 0)
            /\ stack' = stack
        BY <3>2 DEF SliceResumes, Keeping, env
      <4> DEFINE f == [Top EXCEPT !.step = "slice", !.seen = 0]
      <4>3. f \in Frames /\ f.at = Top.at /\ f.step = "slice"
        BY <4>1 DEF Frames, Steps
      <4>4. frames' = Append(Callers, f)
        BY <4>2 DEF Goto
      <4> HIDE DEF f
      <4>5. Top' = f /\ frames' # <<>>
        BY <1>0, <4>1, <4>3, <4>4, Replaces
      <4>6. layer'.flushing
        BY <1>0, <4>2 DEF LayerTypes
      <4>7. At("SlicedWriter")'
        BY <4>1, <4>2, <4>3, <4>5 DEF At
      <4>8. Flushing'
        BY <2>2, <4>3, <4>5, <4>6, <4>7 DEF Flushing, Running
      <4> QED
        BY <2>2, <4>8
    <3>3. CASE InjectorResumes \/ CorrupterResumes
      <4>1. Top.at \in DOMAIN stack /\ stack[Top.at] \in Payers
        BY <3>3 DEF InjectorResumes, CorrupterResumes, Resumed, At, Payers
      <4>2. d <= Top.at
        BY <1>0, <1>3, <4>1 DEF EnvTypes
      <4> QED
        BY <1>0, <4>1, <4>2, PayersAbove
    <3> QED
      BY <3>1, <3>2, <3>3
  <2>3. ASSUME answer' = None, ~Flushing', answer = None, Flushing PROVE FALSE
    <3>1. At("SlicedWriter") /\ Top.step = "slice" /\ layer.flushing /\ stack' = stack
      BY <1>0, <2>3, Shapes DEF Flushing, Running
    <3>2. ~PassUp /\ ~SliceOff /\ ~SliceOn /\ ~SliceWrites /\ ~SliceResumes /\ ~SliceFlushed
          /\ ~SliceFlushWaits /\ ~SliceFlushFails
      BY <2>3, <3>1 DEF PassUp, SliceOff, SliceOn, SliceWrites, SliceResumes, SliceFlushed,
           SliceFlushWaits, SliceFlushFails, Running, Resumed, Return, None, Ready, Pending, Failed
    <3>3. UNCHANGED <<frames, answer>>
      BY <1>0, <3>1, <3>2, AtSlicer
    <3>4. layer'.flushing
      BY <1>0, <2>3, <3>1, <3>3, FlushEnds
    <3> QED
      BY <2>3, <3>1, <3>3, <3>4 DEF Flushing, Running, At, Top
  <2> QED
    BY <1>1, <1>3, <2>1, <2>2, <2>3
<1> QED
  BY <1>1, <1>2, <1>3

\* Every step keeps the distance.
LEMMA DistantNext ==
  ASSUME Beyond("DelayedWriter"), Sound, Sound', Distant, [Next]_vars
  PROVE Distant'
<1>0. /\ TypeOK /\ EnvTypes /\ LayerTypes /\ ControlTypes /\ Chosen /\ Fits /\ TypeOK'
      /\ stack' = stack
  <2>1. stack' = stack
    BY Shapes DEF Sound
  <2> QED
    BY <2>1 DEF Sound, TypeOK
<1>1. /\ spacing.since \in Nat /\ spacing.since <= TopDelay /\ spacing.low \in Nat
      /\ spacing.low <= TopDelay /\ TopDelay \in Nat
      /\ knob.delay \in Nat /\ knob \in Knobs /\ knob.delay \in Delays
      /\ layer.timer \in Timers(Delays) /\ layer.timer.armed \in BOOLEAN /\ layer.timer.left \in Nat
      /\ spacing \in [since : 0..TopDelay, low : Delays]
  BY <1>0, ClockIs
<1>2. /\ spacing.low <= knob.delay
      /\ layer.timer.armed =>
           Has("DelayedWriter") /\ spacing.low <= layer.timer.left + spacing.since
  BY DEF Distant
<1>3. Has("DelayedWriter")' <=> Has("DelayedWriter")
  BY <1>0 DEF Has, Member
\* Whatever lets time pass, or lowers what is asked for, keeps what is past the delay.
<1>a. ASSUME NEW d \in DOMAIN stack', stack'[d] = "DelayedWriter", frames' # <<>>, d < Top'.at,
             ~layer.timer.armed => ~layer'.timer.armed, ~DelayOff, ~DelayOver,
             spacing.low <= spacing.since => spacing'.low <= spacing'.since
      PROVE ~layer'.timer.armed /\ (answer' = None /\ ~Flushing' => spacing'.low <= spacing'.since)
  BY <1>0, <1>a, PastTheDelay
<1>4. CASE UNCHANGED <<layer.timer, spacing, knob.delay>> /\ ~DelayOver
  <2>1. ASSUME NEW d \in DOMAIN stack', stack'[d] = "DelayedWriter", frames' # <<>>, d < Top'.at
        PROVE ~layer'.timer.armed /\ (answer' = None /\ ~Flushing' => spacing'.low <= spacing'.since)
    <3>1. CASE ~DelayOff
      BY <1>4, <1>a, <2>1, <3>1
    <3>2. CASE DelayOff
      <4>1. ~layer.timer.armed /\ knob.delay = 0
        BY <3>2 DEF DelayOff, BeforeDelay
      <4>2. spacing.low <= spacing.since
        BY <1>1, <1>2, <4>1
      <4> QED
        BY <1>4, <4>1, <4>2
    <3> QED
      BY <3>1, <3>2
  <2> QED
    BY <1>2, <1>3, <1>4, <2>1 DEF Distant
<1>5. CASE SetDelay
  <2>1. PICK e \in Delays : /\ Set("delay", e)
                            /\ spacing' = [spacing EXCEPT !.low = Least(spacing.low, e)]
    BY <1>5 DEF SetDelay
  <2>2. /\ knob'.delay = e /\ e \in Nat /\ UNCHANGED <<layer, frames, answer, stack>>
    BY <1>1, <2>1, Constants DEF Set, Knobs, control
  <2>3. spacing'.low = Least(spacing.low, e) /\ spacing'.since = spacing.since
    BY <1>1, <2>1
  <2>4. Least(spacing.low, e) <= e /\ Least(spacing.low, e) <= spacing.low
        /\ Least(spacing.low, e) \in Nat
    BY <1>1, <2>2, LeastOf
  <2>5. spacing'.low <= knob'.delay /\ spacing'.low <= spacing.low /\ spacing'.low \in Nat
    BY <2>2, <2>3, <2>4
  <2>6. layer'.timer.armed => spacing'.low <= layer'.timer.left + spacing'.since
    BY <1>1, <1>2, <2>2, <2>3, <2>5
  <2>7. spacing.low <= spacing.since => spacing'.low <= spacing'.since
    BY <1>1, <2>3, <2>5
  <2>8. ~DelayOff /\ ~DelayOver
    BY <1>1, <2>1, <2>2 DEF DelayOff, DelayOver, Set, Keeping, env
  <2>9. ASSUME NEW d \in DOMAIN stack', stack'[d] = "DelayedWriter", frames' # <<>>, d < Top'.at
        PROVE ~layer'.timer.armed /\ (answer' = None /\ ~Flushing' => spacing'.low <= spacing'.since)
    BY <1>a, <2>2, <2>7, <2>8, <2>9
  <2> QED
    BY <1>2, <1>3, <2>2, <2>5, <2>6, <2>9 DEF Distant
<1>6. CASE Tick
  <2>1. /\ layer'.timer = Closer(layer.timer) /\ UNCHANGED <<knob, frames, answer>>
    BY <1>0, <1>6 DEF Tick, LayerTypes, env, control
  <2>2. /\ layer'.timer.armed = layer.timer.armed
        /\ layer'.timer.left = IF layer.timer.left = 0 THEN 0 ELSE layer.timer.left - 1
    BY <1>1, <2>1 DEF Closer, Timers
  <2>3. CASE ~Has("DelayedWriter")
    <3>1. spacing' = spacing /\ ~layer.timer.armed
      BY <1>2, <1>6, <2>3 DEF Tick
    <3>2. \A d \in DOMAIN stack' : stack'[d] # "DelayedWriter"
      BY <1>0, <2>3 DEF Has, Member
    <3> QED
      BY <1>2, <2>1, <2>2, <3>1, <3>2 DEF Distant
  <2>4. CASE Has("DelayedWriter")
    <3>1. spacing'.low = spacing.low /\ spacing'.since = Least(TopDelay, spacing.since + 1)
      BY <1>1, <1>6, <2>4 DEF Tick
    <3>2. /\ spacing'.since \in Nat /\ spacing.since <= spacing'.since
          /\ spacing'.since = TopDelay \/ spacing'.since = spacing.since + 1
      BY <1>1, <3>1 DEF Least
    <3>3. layer'.timer.armed => spacing'.low <= layer'.timer.left + spacing'.since
      BY <1>1, <1>2, <2>2, <3>1, <3>2
    <3>4. spacing.low <= spacing.since => spacing'.low <= spacing'.since
      BY <1>1, <3>1, <3>2
    <3>5. ASSUME NEW d \in DOMAIN stack', stack'[d] = "DelayedWriter", frames' # <<>>, d < Top'.at
          PROVE ~layer'.timer.armed
                /\ (answer' = None /\ ~Flushing' => spacing'.low <= spacing'.since)
      <4>1. frames # <<>> /\ d < Top.at /\ d \in DOMAIN stack /\ stack[d] = "DelayedWriter"
        BY <1>0, <2>1, <3>5 DEF Top
      <4>2. Flushing' <=> Flushing
        BY <1>0, <1>6, <2>1 DEF Flushing, Running, At, Top, Tick, LayerTypes
      <4> QED
        BY <2>1, <2>2, <3>4, <4>1, <4>2 DEF Distant
    <3> QED
      BY <1>2, <1>3, <2>1, <2>2, <2>4, <3>1, <3>3, <3>5 DEF Distant
  <2> QED
    BY <2>3, <2>4
<1>7. CASE DelayArms
  <2>1. /\ At("DelayedWriter") /\ frames' = Callers /\ spacing' = spacing /\ knob' = knob
        /\ layer' = [layer EXCEPT !.timer = Armed(knob.delay)] /\ frames # <<>>
    BY <1>7 DEF DelayArms, Running, At, Return, Keeping, env, history
  <2>2. layer'.timer.armed /\ layer'.timer.left = knob.delay /\ Has("DelayedWriter")
    BY <1>0, <2>1 DEF LayerTypes, Armed, At, Has, Member
  <2>3. spacing'.low <= layer'.timer.left + spacing'.since
    BY <1>1, <1>2, <2>1, <2>2
  <2>4. ASSUME NEW d \in DOMAIN stack', stack'[d] = "DelayedWriter", frames' # <<>>, d < Top'.at
        PROVE FALSE
    <3> DEFINE n == Len(frames)
    <3>1. Top.at = d
      BY <1>0, <2>1, <2>4, Alone DEF At
    <3>2. n - 1 \in DOMAIN frames /\ n \in DOMAIN frames /\ Top' = frames[n - 1] /\ Top = frames[n]
          /\ n - 1 \in 1..(n - 1)
      BY <1>0, <2>1, <2>4, TopIs, CallsAre, Pops
    <3>3. frames[n - 1].at < frames[n].at /\ frames[n - 1].at \in Nat /\ frames[n].at \in Nat
      BY <1>0, <3>2, CallsAre DEF Sound, Chain
    <3> QED
      BY <2>4, <3>1, <3>2, <3>3
  <2> QED
    BY <1>2, <1>3, <2>1, <2>2, <2>3, <2>4 DEF Distant
<1>8. CASE DelayOver
  <2>1. /\ layer.timer.armed /\ layer.timer.left = 0 /\ spacing' = spacing /\ knob' = knob
        /\ layer' = [layer EXCEPT !.timer = IdleTimer]
    BY <1>8 DEF DelayOver, AfterDelay, Keeping, env, history
  <2>2. ~layer'.timer.armed
    BY <1>0, <2>1 DEF LayerTypes, IdleTimer
  <2>3. spacing'.low <= spacing'.since
    BY <1>1, <1>2, <2>1
  <2> QED
    BY <1>2, <2>1, <2>2, <2>3 DEF Distant
<1>9. ASSUME NEW n \in 0..Longest, SinkTakes(n) PROVE Distant'
  <2>1. /\ spacing' = [since |-> 0, low |-> knob.delay] /\ knob' = knob /\ layer' = layer
        /\ frames # <<>> /\ Top.at = Len(stack) + 1 /\ answer' = Ready(n)
    BY <1>9 DEF SinkTakes, AtSink, Return, env
  <2>2. answer' # None
    BY <2>1 DEF Ready, None
  <2>3. ASSUME NEW d \in DOMAIN stack, stack[d] = "DelayedWriter" PROVE ~layer.timer.armed
    <3>1. d < Top.at
      BY <1>0, <2>1 DEF EnvTypes
    <3> QED
      BY <2>1, <2>3, <3>1 DEF Distant
  <2>4. ~layer.timer.armed
    BY <1>2, <2>3 DEF Has, Member
  <2>5. spacing'.low <= knob'.delay
    BY <1>1, <2>1
  <2> QED
    BY <2>1, <2>2, <2>4, <2>5 DEF Distant
<1> QED
  BY <1>0, <1>4, <1>5, <1>6, <1>7, <1>8, <1>9, ClockSteps

\* Bytes reach the sink at least as far apart as the lowest delay that was set in
\* between, and a shutdown keeps the distance: a poll does not get past
\* poll_with_write_delay before its timer, armed for the delay of the moment, is
\* over.
THEOREM WritesAreSpacedOut ==
  ASSUME Unmixed, Beyond("DelayedWriter")
  PROVE Spec => SpacedOut
<1>1. ASSUME Sound, Distant, Has("DelayedWriter"), AtSink
      PROVE spacing.low <= spacing.since
  <2>1. PICK d \in DOMAIN stack : stack[d] = "DelayedWriter"
    BY <1>1 DEF Has, Member
  <2>2. EnvTypes
    BY <1>1 DEF Sound, TypeOK
  <2>3. frames # <<>> /\ d < Top.at /\ answer = None
    BY <1>1, <2>2 DEF AtSink, EnvTypes
  <2>4. ~Flushing
    <3>1. Top.at \notin DOMAIN stack
      BY <1>1, <2>2 DEF AtSink, EnvTypes
    <3> QED
      BY <3>1 DEF Flushing, Running, At
  <2> QED
    BY <1>1, <2>1, <2>3, <2>4 DEF Distant
<1>2. ASSUME Sound, Distant
      PROVE [Has("DelayedWriter") /\ AtSink /\ answer'.kind = "ready"
               => spacing.since >= spacing.low]_vars
  <2>1. spacing.since \in Nat /\ spacing.low \in Nat
    BY <1>2, ClockIs DEF Sound
  <2> QED
    BY <1>1, <1>2, <2>1
<1>3. Sound /\ Sound' /\ Distant /\ [Next]_vars => Distant'
  BY DistantNext
<1> QED
  BY <1>2, <1>3, DistantInit, StackIsSound, PTL DEF Spec, SpacedOut

-----------------------------------------------------------------------------
(* The bucket, once it has paid for what is on its way.                     *)

\* What is left of a budget.
Rest(budget, n) == IF budget > n THEN budget - n ELSE 0

\* A bucket that has paid, field by field.
LEMMA SpentIs ==
  ASSUME NEW bucket \in Buckets(Rates), NEW n \in Nat
  PROVE /\ Spent(bucket, n) \in Buckets(Rates)
        /\ Spent(bucket, n).budget = Rest(bucket.budget, n)
        /\ Spent(bucket, n).age = bucket.age /\ Spent(bucket, n).nap = bucket.nap
        /\ Claim(Spent(bucket, n), TopRate)
             = Second * Rest(bucket.budget, n) + TopRate * bucket.age
        /\ Rest(bucket.budget, n) \in Nat
<1>1. bucket.budget \in Nat
  BY BucketFields, Constants
<1>2. Spent(bucket, n) \in Buckets(Rates)
  BY BucketsStay, Constants
<1>3. /\ Spent(bucket, n).budget = Rest(bucket.budget, n)
      /\ Spent(bucket, n).age = bucket.age /\ Spent(bucket, n).nap = bucket.nap
  BY BucketFields, Constants DEF Spent, Rest
<1> QED
  BY <1>1, <1>2, <1>3 DEF Claim, Rest

\* The more is on its way, the less remains to be claimed.
LEMMA LessClaims ==
  ASSUME NEW bucket \in Buckets(Rates), NEW m \in Nat, NEW n \in Nat, m <= n
  PROVE Claim(Spent(bucket, n), TopRate) <= Claim(Spent(bucket, m), TopRate)
<1> DEFINE b == bucket.budget
           g == TopRate * bucket.age
<1>1. b \in Nat /\ g \in Nat /\ Second \in Nat
  BY BucketFields, Constants, Tops, BucketAssumption
<1>2. Rest(b, n) <= Rest(b, m) /\ Rest(b, n) \in Nat /\ Rest(b, m) \in Nat
  <2> HIDE DEF b
  <2> QED
    BY <1>1 DEF Rest
<1>3. Second * Rest(b, n) <= Second * Rest(b, m)
      /\ Second * Rest(b, n) \in Nat /\ Second * Rest(b, m) \in Nat
  <2> HIDE DEF b
  <2> QED
    BY <1>1, <1>2
<1>4. Second * Rest(b, n) + g <= Second * Rest(b, m) + g
  <2> HIDE DEF b, g
  <2> QED
    BY <1>1, <1>3
<1> QED
  BY <1>4, SpentIs

\* Nothing is on its way.
LEMMA NothingSpent ==
  ASSUME NEW bucket \in Buckets(Rates)
  PROVE Claim(Spent(bucket, 0), TopRate) = Claim(bucket, TopRate)
<1>1. bucket.budget \in Nat
  BY BucketFields, Constants
<1>2. Rest(bucket.budget, 0) = bucket.budget
  BY <1>1 DEF Rest
<1> QED
  BY <1>2, SpentIs DEF Claim

\* A refill before the payment does not raise what remains to be claimed.
LEMMA RefilledBeforeSpent ==
  ASSUME NEW bucket \in Buckets(Rates), NEW rate \in Rates, NEW n \in Nat
  PROVE Claim(Spent(Refilled(bucket, rate), n), TopRate) <= Claim(Spent(bucket, n), TopRate)
<1> DEFINE a == Added(bucket, rate)
           b == bucket.budget
           g == bucket.age
<1>1. b \in Nat /\ g \in Nat /\ Second \in Nat \ {0} /\ rate \in Nat /\ TopRate \in Nat /\ rate <= TopRate
  BY BucketFields, BucketAssumption, Constants, Tops
<1>2. a \in Nat /\ Second * a <= g * rate
  BY AddedBound, Constants, <1>1
<1>3. g * rate <= TopRate * g /\ g * rate \in Nat /\ TopRate * g \in Nat
  <2> HIDE DEF g
  <2> QED
    BY <1>1
<1>4. CASE Refilled(bucket, rate) = bucket
  <2>1. Claim(Spent(bucket, n), TopRate) \in Nat
    BY SpentIs, ClaimIsNat, Constants, Tops
  <2> QED
    BY <1>4, <2>1
<1>5. CASE Refilled(bucket, rate) = [budget |-> Least(b + a, rate), age |-> 0, nap |-> bucket.nap]
  <2> DEFINE c == Least(b + a, rate)
             r == Refilled(bucket, rate)
  <2>1. c \in Nat /\ c <= b + a
    <3> HIDE DEF a, b
    <3> QED
      BY <1>1, <1>2 DEF Least
  <2>2. r.budget = c /\ r.age = 0 /\ r \in Buckets(Rates)
    BY <1>5, BucketsStay, Constants
  <2> HIDE DEF r
  <2>3. Claim(Spent(r, n), TopRate) = Second * Rest(c, n)
    <3>1. Claim(Spent(r, n), TopRate) = Second * Rest(r.budget, n) + TopRate * r.age
      BY <2>2, SpentIs
    <3>2. Second * Rest(c, n) \in Nat
      <4> HIDE DEF c
      <4> QED
        BY <1>1, <2>1 DEF Rest
    <3> HIDE DEF c
    <3> QED
      BY <1>1, <2>2, <3>1, <3>2
  <2>4. Rest(c, n) <= Rest(b, n) + a /\ Rest(c, n) \in Nat /\ Rest(b, n) \in Nat
    <3> HIDE DEF a, b, c
    <3> QED
      BY <1>1, <1>2, <2>1 DEF Rest
  <2>5. Second * Rest(c, n) <= Second * Rest(b, n) + Second * a
        /\ Second * Rest(c, n) \in Nat /\ Second * Rest(b, n) \in Nat /\ Second * a \in Nat
    <3> DEFINE x == Rest(c, n)
               y == Rest(b, n)
    <3>1. x <= y + a /\ x \in Nat /\ y \in Nat
      BY <2>4
    <3> HIDE DEF x, y, a
    <3>2. Second * x <= Second * (y + a)
      BY <1>1, <1>2, <3>1
    <3>3. Second * x <= Second * y + Second * a
          /\ Second * x \in Nat /\ Second * y \in Nat /\ Second * a \in Nat
      BY <1>1, <1>2, <3>1, <3>2
    <3> QED
      BY <3>3 DEF x, y
  <2>6. Claim(Spent(bucket, n), TopRate) = Second * Rest(b, n) + TopRate * g
    BY SpentIs
  <2> HIDE DEF a, b, c, g
  <2>7. Second * Rest(c, n) <= Second * Rest(b, n) + TopRate * g
    BY <1>2, <1>3, <2>5
  <2> QED
    BY <2>3, <2>6, <2>7 DEF r
<1> QED
  BY <1>4, <1>5, RefilledIs, Constants

\* A bucket that ages and one that pays come to the same.
LEMMA OlderBeforeSpent ==
  ASSUME NEW bucket \in Buckets(Rates), NEW n \in Nat
  PROVE Claim(Spent(Older(bucket), n), TopRate) = Claim(Older(Spent(bucket, n)), TopRate)
<1>1. /\ Older(bucket) \in Buckets(Rates) /\ Spent(bucket, n) \in Buckets(Rates)
      /\ Older(Spent(bucket, n)) \in Buckets(Rates)
  BY BucketsStay, Constants
<1>2. \A bk \in Buckets(Rates) :
        Older(bk).budget = bk.budget /\ Older(bk).age = Least(Second, bk.age + 1)
  BY BucketFields, Constants DEF Older
<1>3. /\ Older(Spent(bucket, n)).budget = Rest(bucket.budget, n)
      /\ Older(Spent(bucket, n)).age = Least(Second, bucket.age + 1)
  BY <1>1, <1>2, SpentIs
<1>4. /\ Spent(Older(bucket), n).budget = Rest(bucket.budget, n)
      /\ Spent(Older(bucket), n).age = Least(Second, bucket.age + 1)
  BY <1>1, <1>2, SpentIs
<1> QED
  BY <1>3, <1>4 DEF Claim

\* A nap costs nothing.
LEMMA NappingBeforeSpent ==
  ASSUME NEW bucket \in Buckets(Rates), NEW rate \in Nat \ {0}, NEW n \in Nat
  PROVE Claim(Spent(Napping(bucket, rate), n), TopRate) = Claim(Spent(bucket, n), TopRate)
<1>1. Napping(bucket, rate) \in Buckets(Rates)
  BY BucketsStay, Constants
<1>2. Napping(bucket, rate).budget = bucket.budget /\ Napping(bucket, rate).age = bucket.age
  BY BucketFields, Constants DEF Napping
<1>3. /\ Claim(Spent(Napping(bucket, rate), n), TopRate)
           = Second * Rest(Napping(bucket, rate).budget, n) + TopRate * Napping(bucket, rate).age
      /\ Claim(Spent(bucket, n), TopRate)
           = Second * Rest(bucket.budget, n) + TopRate * bucket.age
  BY <1>1, SpentIs
<1> QED
  BY <1>2, <1>3

-----------------------------------------------------------------------------
(* The throttle knows of every call below it.                               *)

\* A call below the throttle was granted: the throttle waits for its answer, and
\* has the budget for it.
Granted ==
  call.op # "shutdown" =>
    \A t \in DOMAIN stack : \A i \in DOMAIN frames :
      stack[t] = "ThrottledWriter" /\ t < frames[i].at =>
        /\ \E j \in 1..(i - 1) : frames[j].at = t
        /\ frames[i].len <= layer.bucket.budget

\* Only the throttle changes the bucket's budget.
LEMMA BudgetSteps ==
  ASSUME LayerTypes, [Next]_vars
  PROVE layer'.bucket.budget = layer.bucket.budget \/ Grant \/ ThrottleResumes
<1>1. CASE Environment /\ ~Tick
  BY <1>1 DEF Environment, SetSize, SetRate, SetDelay, SetCorrupt, Set, Inject,
              PeerReads, Flush, Offer, Shutdown, Abandon, LayerTypes
<1>2. CASE Tick
  <2>1. layer.bucket \in Buckets(Rates)
    BY LayerIs
  <2>2. Older(layer.bucket).budget = layer.bucket.budget
    BY <2>1, BucketFields, Constants DEF Older
  <2>3. layer'.bucket \in {layer.bucket, Older(layer.bucket)}
    BY <1>2 DEF Tick, LayerTypes
  <2> QED
    BY <2>2, <2>3
<1>3. CASE Poll \/ OwnerReady \/ OwnerPending \/ OwnerFails \/ Sink
  BY <1>3 DEF Poll, OwnerReady, OwnerPending, OwnerFails, Sink, SinkTakes, SinkWaits,
              SinkShuts, SinkFails
<1>4. CASE Adapter /\ ~Grant /\ ~ThrottleResumes
  BY <1>4 DEF Adapter, PassUp, Fuse, InjectorDrains, InjectorReceives, InjectorPasses,
         InjectorResumes, CorrupterDrains, CorrupterHits, CorrupterMisses, CorrupterResumes,
         SliceOff, SliceOn, SliceWrites, SliceResumes, SliceFlushed, SliceFlushWaits,
         SliceFlushFails, ThrottleOff, ThrottleOn, Acquire, DelayOff,
         DelayArms, DelayWaits, DelayOver, LayerTypes
<1>5. CASE UNCHANGED vars
  BY <1>5 DEF vars
<1> QED
  BY <1>1, <1>2, <1>3, <1>4, <1>5 DEF Next, TaskStep

\* A slicer hands down no more than it was given.
LEMMA SliceIsSmaller ==
  ASSUME TypeOK, Chain, Fits, At("SlicedWriter"), CallsDown, UNCHANGED call, [Next]_vars
  PROVE \E n \in 0..Longest : n <= Top.len /\ Call(Top.src, n)
<1>0. EnvTypes /\ ControlTypes /\ frames # <<>> /\ Top \in Frames /\ knob.size \in Nat
      /\ Longest \in Nat
  BY TopIs, Constants DEF TypeOK, At, EnvTypes, Knobs
<1>1. PICK m \in 0..Longest : Call(Asker(Top), m)
  BY DEF CallsDown
<1>2. PICK f \in Entered(Top.at, Asker(Top), m) : frames' = Append(frames, f)
  BY <1>1 DEF Call
<1>3. f \in Frames
  <2>1. Asker(Top) \in Sources /\ Top.at \in Nat
    BY <1>0 DEF Frames, Asker, Sources, EnvTypes
  <2> QED
    BY <1>0, <1>2, <2>1, EnteredIs
<1>4. Len(frames') = Len(frames) + 1 /\ Len(frames) \in Nat
  BY <1>0, <1>2, <1>3, Pushes
<1>5. ~UNCHANGED frames
  BY <1>4
<1>6. frames' # Callers /\ \A f2 : frames' # Append(Callers, f2)
  <2>1. Len(Callers) = Len(frames) - 1 /\ Callers \in Seq(Frames)
    BY <1>0, CallersAre
  <2>2. \A f2 : Len(Append(Callers, f2)) = Len(frames)
    <3> DEFINE cs == Callers
               z == Len(frames)
    <3>1. cs \in Seq(Frames) /\ Len(cs) = z - 1 /\ z \in Nat
      BY <1>4, <2>1
    <3> HIDE DEF cs, z
    <3>2. \A f2 : Len(Append(cs, f2)) = z
      BY <3>1
    <3> QED
      BY <3>2 DEF cs, z
  <2> QED
    BY <1>4, <2>1, <2>2
<1>7. SliceWrites
  <2>1. ~TailCall /\ (\A a, b : ~Goto(a, b)) /\ (\A a : ~Return(a))
    BY <1>6 DEF TailCall, Goto, Return
  <2> QED
    BY <1>0, <1>5, <2>1, AtSlicer DEF PassUp, SliceOff, SliceOn, SliceResumes, SliceFlushed,
       SliceFlushWaits, SliceFlushFails
<1>8. Call(Top.src, Least(Top.len, knob.size))
  <2>1. \A a : ~Return(a)
    BY <1>6 DEF Return
  <2> QED
    BY <1>7, <2>1 DEF SliceWrites
<1>9. Least(Top.len, knob.size) \in 0..Longest /\ Least(Top.len, knob.size) <= Top.len
  <2>1. Top.len \in 0..Longest
    BY <1>0 DEF Frames
  <2> QED
    BY <1>0, <2>1 DEF Least
<1> QED
  BY <1>8, <1>9

\* Every call below the throttle goes through it, as long as there is a limit.
LEMMA GrantedNext ==
  ASSUME Sound, Granted, Beyond("ThrottledWriter"), knob.rate # 0, [Next]_vars
  PROVE Granted'
<1> DEFINE n == Len(frames)
<1>0. /\ TypeOK /\ EnvTypes /\ LayerTypes /\ ControlTypes /\ OwnerTypes /\ Chosen /\ Chain /\ Fits
      /\ stack' = stack
  <2>1. stack' = stack
    BY Shapes DEF Sound
  <2> QED
    BY <2>1 DEF Sound, TypeOK
<1> SUFFICES ASSUME call'.op # "shutdown", NEW t \in DOMAIN stack, NEW i \in DOMAIN frames',
                    stack[t] = "ThrottledWriter", t < frames'[i].at
             PROVE /\ \E j \in 1..(i - 1) : frames'[j].at = t
                   /\ frames'[i].len <= layer'.bucket.budget
  BY <1>0 DEF Granted
<1>1. /\ DOMAIN frames = 1..n /\ n \in Nat
      /\ \A j \in DOMAIN frames : frames[j] \in Frames /\ frames[j].at \in Nat \ {0}
      /\ t \in Nat \ {0}
  BY <1>0, CallsAre DEF EnvTypes
<1>2. ASSUME frames # <<>>
      PROVE Top \in Frames /\ n \in DOMAIN frames /\ Top = frames[n] /\ Top.at \in Nat
  BY <1>0, <1>1, <1>2, TopIs
<1>3. \A f \in Frames : f.at \in Nat
  BY <1>0 DEF Frames, EnvTypes
<1>4. ASSUME UNCHANGED call PROVE t \in Stops(stack, call.op)
  <2>1. call.op \in {"write", "vectored"}
    BY <1>0, <1>4 DEF OwnerTypes
  <2> QED
    BY <1>0, <2>1, StopsAct, WhoActs
\* A call that was there, in front of the same callers, with the same budget.
<1>a. ASSUME UNCHANGED call, NEW h \in DOMAIN frames, t < frames[h].at, h <= i,
             \A j \in 1..(h - 1) : frames'[j] = frames[j], i \in Nat,
             layer'.bucket.budget = layer.bucket.budget, frames'[i].len <= frames[h].len,
             frames'[i].len \in Nat
      PROVE /\ \E j \in 1..(i - 1) : frames'[j].at = t
            /\ frames'[i].len <= layer'.bucket.budget
  <2>1. PICK j \in 1..(h - 1) : frames[j].at = t
    BY <1>a DEF Granted
  <2>2. frames[h].len <= layer.bucket.budget
    BY <1>a DEF Granted
  <2>3. j \in 1..(i - 1) /\ frames'[j].at = t
    BY <1>1, <1>a, <2>1
  <2>4. frames[h].len \in Nat /\ layer.bucket.budget \in Nat
    BY <1>0, <1>1, LayerIs, Constants DEF Frames
  <2> QED
    BY <1>a, <2>2, <2>3, <2>4
<1>5. CASE At("ThrottledWriter")
  <2>1. Top.at = t /\ frames # <<>>
    <3>1. Top.at \in DOMAIN stack /\ stack[Top.at] = "ThrottledWriter" /\ frames # <<>>
      BY <1>5 DEF At
    <3> QED
      BY <1>0, <3>1, Alone
  <2>2. \A j \in DOMAIN frames : frames[j].at <= t
    <3> SUFFICES ASSUME NEW j \in DOMAIN frames PROVE frames[j].at <= t
      OBVIOUS
    <3>1. CASE j = n
      BY <1>1, <1>2, <2>1, <3>1
    <3>2. CASE j # n
      <4>1. j \in 1..(n - 1) /\ n \in DOMAIN frames
        BY <1>1, <1>2, <2>1, <3>2
      <4>2. frames[j].at < frames[n].at
        BY <1>0, <4>1 DEF Chain
      <4>3. frames[j].at \in Nat /\ frames[n].at = t
        BY <1>1, <1>2, <2>1
      <4> QED
        BY <1>1, <4>2, <4>3
    <3> QED
      BY <3>1, <3>2
  <2>3. ASSUME NEW j \in DOMAIN frames, frames'[i].at = frames[j].at PROVE FALSE
    <3>1. frames[j].at \in Nat /\ frames[j].at <= t
      BY <1>1, <2>2
    <3> QED
      BY <1>1, <2>3, <3>1
  <2>4. ~UNCHANGED <<frames, answer>>
    BY <2>3
  <2>5. ASSUME frames' = Callers PROVE FALSE
    <3>1. /\ frames' \in Seq(Frames) /\ Len(frames') = n - 1
          /\ \A j \in 1..(n - 1) : frames'[j] = frames[j]
      BY <1>0, <2>1, <2>5, Pops
    <3>2. i \in 1..(n - 1) /\ i \in DOMAIN frames
      BY <1>1, <3>1
    <3> QED
      BY <2>3, <3>1, <3>2
  <2>6. ASSUME NEW step \in Steps, NEW seen \in Rates \cup {0}, Goto(step, seen) PROVE FALSE
    <3> DEFINE f == [Top EXCEPT !.step = step, !.seen = seen]
    <3>1. f \in Frames /\ f.at = Top.at
      BY <1>2, <2>1 DEF Frames
    <3>2. frames' = Append(Callers, f)
      BY <2>6 DEF Goto
    <3> HIDE DEF f
    <3>3. /\ frames' \in Seq(Frames) /\ Len(frames') = n /\ frames'[n] = f
          /\ \A j \in 1..(n - 1) : frames'[j] = frames[j]
      BY <1>0, <2>1, <3>1, <3>2, Replaces
    <3>4. i \in 1..n /\ (i = n \/ i \in 1..(n - 1))
      BY <1>1, <3>3
    <3> QED
      BY <1>1, <1>2, <2>1, <2>3, <3>1, <3>3, <3>4
  <2>7. ~PassUp /\ ~ThrottleResumes /\ ~ThrottleOff
    BY <2>5 DEF PassUp, ThrottleResumes, ThrottleOff, Return
  <2>8. ~ThrottleOn
    <3>1. "acquire" \in Steps /\ 0 \in Rates \cup {0}
      BY DEF Steps
    <3> QED
      BY <2>6, <3>1 DEF ThrottleOn
  <2>9. ~Acquire
    <3> SUFFICES ASSUME Acquire PROVE FALSE
      OBVIOUS
    <3>1. layer.bucket.nap \in Nat /\ Top.len \in Nat /\ knob.rate \in Rates
      BY <1>0, <1>2, <2>1, LayerIs, Constants DEF Frames, EnvTypes, Knobs
    <3>2. CASE layer.bucket.nap > 0
      BY <2>5, <3>2 DEF Acquire, Return
    <3>3. CASE layer.bucket.nap = 0 /\ Top.len = 0
      BY <2>5, <3>3 DEF Acquire, Return
    <3>4. CASE layer.bucket.nap = 0 /\ Top.len > 0
      <4>1. Goto("refill", knob.rate)
        BY <3>4 DEF Acquire
      <4> QED
        BY <2>6, <3>1, <4>1 DEF Steps
    <3> QED
      BY <3>1, <3>2, <3>3, <3>4
  <2>10. Grant
    BY <1>0, <1>5, <2>4, <2>7, <2>8, <2>9, AtThrottle
  <2> DEFINE bucket == Refilled(layer.bucket, knob.rate)
             grant == Least(Top.len, bucket.budget)
  <2>11. bucket \in Buckets(Rates) /\ bucket.budget \in Nat
    <3>1. bucket \in Buckets(Rates)
      BY <1>0, LayerIs, BucketsStay, Constants DEF EnvTypes, Knobs
    <3> HIDE DEF bucket
    <3> QED
      BY <3>1, BucketFields, Constants
  <2>12. layer' = [layer EXCEPT !.bucket = bucket] /\ Call(Top.src, grant)
    BY <2>5, <2>10 DEF Grant, Return
  <2> HIDE DEF bucket
  <2>13. grant \in 0..Longest /\ grant <= bucket.budget
    <3>1. Top.len \in 0..Longest /\ Longest \in Nat
      BY <1>2, <2>1, Constants DEF Frames
    <3> QED
      BY <2>11, <3>1 DEF Least
  <2> HIDE DEF grant
  <2>14. PICK f \in Entered(Top.at, Top.src, grant) : frames' = Append(frames, f)
    BY <2>12 DEF Call
  <2>15. f \in Frames /\ f.len = grant
    <3>1. Top.at \in Nat /\ Top.src \in Sources
      BY <1>2, <2>1 DEF Frames
    <3> QED
      BY <1>0, <2>13, <2>14, <3>1, EnteredIs
  <2>16. /\ frames' \in Seq(Frames) /\ Len(frames') = n + 1 /\ frames'[n + 1] = f
         /\ \A j \in 1..n : frames'[j] = frames[j]
    BY <1>0, <2>14, <2>15, Pushes
  <2>17. i = n + 1
    <3>1. i \notin 1..n
      BY <1>1, <2>3, <2>16
    <3> QED
      BY <1>1, <2>16, <3>1
  <2>18. n \in 1..(i - 1) /\ frames'[n].at = t
    BY <1>1, <1>2, <2>1, <2>16, <2>17
  <2>19. layer'.bucket = bucket
    BY <1>0, <2>12 DEF LayerTypes
  <2> QED
    BY <2>13, <2>15, <2>16, <2>17, <2>18, <2>19
<1>6. CASE ~At("ThrottledWriter")
  <2>1. layer'.bucket.budget = layer.bucket.budget
    <3>1. ~Grant /\ ~ThrottleResumes
      BY <1>6 DEF Grant, ThrottleResumes, Running, Resumed
    <3> QED
      BY <1>0, <3>1, BudgetSteps
  <2>2. ASSUME frames # <<>> PROVE Top.at # t
    BY <1>6, <2>2 DEF At
  <2>a. ASSUME UNCHANGED call, i \in DOMAIN frames, frames'[i] = frames[i],
               \A j \in 1..(i - 1) : frames'[j] = frames[j]
        PROVE /\ \E j \in 1..(i - 1) : frames'[j].at = t
              /\ frames'[i].len <= layer'.bucket.budget
    <3>1. frames[i].len \in Nat /\ i \in Nat
      BY <1>1, <2>a, Constants DEF Frames
    <3> QED
      BY <1>a, <2>1, <2>a, <3>1
  <2>3. CASE Stays
    BY <1>1, <2>3, <2>a DEF Stays
  <2>4. CASE OwnersTurn
    BY <2>4 DEF OwnersTurn
  <2>5. CASE Poll
    <3>1. PICK f \in Entered(0, "owner", call.len) : frames' = <<f>>
      BY <2>5 DEF Poll
    <3>2. call.len \in 0..Longest /\ "owner" \in Sources /\ call' = call
      BY <1>0, <2>5, Constants DEF OwnerTypes, Sources, Poll, owner
    <3>3. f.at <= t /\ f \in Frames
      BY <1>0, <1>1, <1>4, <3>1, <3>2, EnteredIs
    <3>4. frames'[i] = f
      BY <3>1
    <3> QED
      BY <1>1, <1>3, <3>3, <3>4
  <2>6. CASE frames # <<>> /\ UNCHANGED call /\ GoesOn
    <3>1. PICK step \in Steps, seen \in Rates \cup {0} : Goto(step, seen)
      BY <2>6 DEF GoesOn
    <3> DEFINE f == [Top EXCEPT !.step = step, !.seen = seen]
    <3>2. f \in Frames /\ f.at = Top.at /\ f.len = Top.len
      BY <1>2, <2>6 DEF Frames
    <3>3. frames' = Append(Callers, f)
      BY <3>1 DEF Goto
    <3> HIDE DEF f
    <3>4. /\ frames' \in Seq(Frames) /\ Len(frames') = n /\ frames'[n] = f
          /\ \A j \in 1..(n - 1) : frames'[j] = frames[j]
      BY <1>0, <2>6, <3>2, <3>3, Replaces
    <3>5. i \in DOMAIN frames /\ (i = n \/ i \in 1..(n - 1)) /\ i \in Nat
          /\ \A j \in 1..(i - 1) : frames'[j] = frames[j]
      BY <1>1, <3>4
    <3>6. t < frames[i].at /\ frames'[i].len = frames[i].len /\ frames[i].len \in Nat
      <4>1. frames[i].len \in Nat
        BY <1>1, <3>5, Constants DEF Frames
      <4> QED
        BY <1>2, <2>6, <3>2, <3>4, <3>5, <4>1
    <3> QED
      BY <1>a, <2>1, <2>6, <3>5, <3>6
  <2>7. CASE frames # <<>> /\ UNCHANGED call /\ TailCall
    <3>1. PICK f \in Entered(Top.at, Top.src, Top.len) : frames' = Append(Callers, f)
      BY <2>7 DEF TailCall
    <3>2. Top.at \in Nat /\ Top.src \in Sources /\ Top.len \in 0..Longest
      BY <1>2, <2>7 DEF Frames
    <3>3. f \in Frames /\ f.len = Top.len /\ (Top.at < t => f.at <= t)
      BY <1>0, <1>4, <2>7, <3>1, <3>2, EnteredIs
    <3>4. /\ frames' \in Seq(Frames) /\ Len(frames') = n /\ frames'[n] = f
          /\ \A j \in 1..(n - 1) : frames'[j] = frames[j]
      BY <1>0, <2>7, <3>1, <3>3, Replaces
    <3>5. i \in DOMAIN frames /\ (i = n \/ i \in 1..(n - 1)) /\ i \in Nat
          /\ \A j \in 1..(i - 1) : frames'[j] = frames[j]
      BY <1>1, <3>4
    <3>6. CASE i = n
      <4>1. ~(Top.at < t)
        BY <1>1, <1>3, <3>3, <3>4, <3>6
      <4>2. t < frames[i].at
        BY <1>1, <1>2, <2>2, <2>7, <3>2, <3>6, <4>1
      <4>3. frames'[i].len = frames[i].len /\ frames[i].len \in Nat
        BY <1>2, <2>7, <3>2, <3>3, <3>4, <3>6, Constants
      <4> QED
        BY <1>a, <2>1, <2>7, <3>5, <4>2, <4>3
    <3>7. CASE i \in 1..(n - 1)
      BY <2>7, <2>a, <3>4, <3>5, <3>7
    <3> QED
      BY <3>5, <3>6, <3>7
  <2>8. CASE frames # <<>> /\ UNCHANGED call /\ CallsDown
    <3>1. PICK m \in 0..Longest : Call(Asker(Top), m)
      BY <2>8 DEF CallsDown
    <3>2. PICK f \in Entered(Top.at, Asker(Top), m) : frames' = Append(frames, f)
      BY <3>1 DEF Call
    <3>3. Top.at \in Nat /\ Asker(Top) \in Sources
      BY <1>2, <2>8 DEF Frames, Asker, Sources
    <3>4. f \in Frames /\ (Top.at < t => f.at <= t)
      BY <1>0, <1>4, <2>8, <3>2, <3>3, EnteredIs
    <3>5. /\ frames' \in Seq(Frames) /\ Len(frames') = n + 1 /\ frames'[n + 1] = f
          /\ \A j \in 1..n : frames'[j] = frames[j]
      BY <1>0, <3>2, <3>4, Pushes
    <3>6. i \in Nat /\ (i = n + 1 \/ (i \in 1..n /\ \A j \in 1..(i - 1) : frames'[j] = frames[j]))
      BY <1>1, <3>5
    <3>7. CASE i = n + 1
      <4>1. ~(Top.at < t)
        BY <1>1, <1>3, <3>4, <3>5, <3>7
      <4>2. t < Top.at
        BY <1>1, <2>2, <2>8, <3>3, <4>1
      <4>3. At("SlicedWriter")
        <5>1. Top.at \in DOMAIN stack /\ stack[Top.at] \in Calling
          BY <2>8 DEF CallsDown
        <5>2. t <= Top.at
          BY <1>1, <3>3, <4>2
        <5>3. stack[Top.at] \notin Payers
          BY <1>0, <5>1, <5>2, PayersAbove
        <5>4. stack[Top.at] # "ThrottledWriter"
          BY <1>6, <2>8, <5>1 DEF At
        <5> QED
          BY <2>8, <5>1, <5>3, <5>4 DEF At, Calling, Payers
      <4>4. PICK k \in 0..Longest : k <= Top.len /\ Call(Top.src, k)
        BY <1>0, <2>8, <4>3, SliceIsSmaller
      <4>5. PICK g \in Entered(Top.at, Top.src, k) : frames' = Append(frames, g)
        BY <4>4 DEF Call
      <4>6. g \in Frames /\ g.len = k
        <5>1. Top.src \in Sources
          BY <1>2, <2>8 DEF Frames
        <5> QED
          BY <1>0, <3>3, <4>4, <4>5, <5>1, EnteredIs
      <4>7. frames'[n + 1] = g
        BY <1>0, <4>5, <4>6, Pushes
      <4>8. /\ frames'[i].len <= frames[n].len /\ frames'[i].len \in Nat /\ t < frames[n].at
            /\ n \in DOMAIN frames /\ n <= i /\ \A j \in 1..(n - 1) : frames'[j] = frames[j]
        <5>1. k \in Nat /\ n \in DOMAIN frames /\ Top = frames[n] /\ n <= n + 1
          BY <1>1, <1>2, <2>8, <4>4, Constants
        <5>2. \A j \in 1..(n - 1) : frames'[j] = frames[j]
          BY <1>1, <3>5
        <5> QED
          BY <3>7, <4>2, <4>4, <4>6, <4>7, <5>1, <5>2
      <4> QED
        BY <1>a, <2>1, <2>8, <3>6, <4>8
    <3>8. CASE i \in 1..n /\ \A j \in 1..(i - 1) : frames'[j] = frames[j]
      BY <1>1, <2>8, <2>a, <3>5, <3>8
    <3> QED
      BY <3>6, <3>7, <3>8
  <2>9. CASE frames # <<>> /\ UNCHANGED call /\ ComesBack
    <3>1. frames' = Callers
      BY <2>9 DEF ComesBack, Return
    <3>2. /\ frames' \in Seq(Frames) /\ Len(frames') = n - 1
          /\ \A j \in 1..(n - 1) : frames'[j] = frames[j]
      BY <1>0, <2>9, <3>1, Pops
    <3>3. i \in DOMAIN frames /\ i \in 1..(n - 1) /\ \A j \in 1..(i - 1) : frames'[j] = frames[j]
      BY <1>1, <3>2
    <3> QED
      BY <2>9, <2>a, <3>2, <3>3
  <2> QED
    BY <1>0, <2>3, <2>4, <2>5, <2>6, <2>7, <2>8, <2>9, Shapes
<1> QED
  BY <1>5, <1>6

-----------------------------------------------------------------------------
(* The meter covers what the bucket can still claim.                        *)

\* The throttle has called and does not have its answer yet.
ThrottleAwaits ==
  \E i \in DOMAIN frames :
    /\ frames[i].at \in DOMAIN stack /\ stack[frames[i].at] = "ThrottledWriter"
    /\ i < Len(frames) \/ answer # None

SlicesAreMetered ==
  \E t, p \in DOMAIN stack : stack[t] = "ThrottledWriter" /\ stack[p] = "SlicedWriter" /\ t < p

\* Bytes that have reached the sink, but the throttle has not paid for them yet.
Unpaid ==
  IF answer.kind = "ready" THEN IF ThrottleAwaits THEN answer.n ELSE 0
  ELSE IF layer.flushing /\ SlicesAreMetered THEN layer.owed ELSE 0

Covering == Claim(Spent(layer.bucket, Unpaid), TopRate) <= meter.level

Metering ==
  /\ meter.level >= 0
  /\ meter.valid => Has("ThrottledWriter")
  /\ meter.valid /\ ~Broken => knob.rate # 0 /\ Granted /\ Covering

\* A number of bytes.
LEMMA UnpaidIs ==
  ASSUME LayerTypes, ControlTypes
  PROVE Unpaid \in Nat
<1>1. answer.n \in 0..Longest /\ layer.owed \in 0..Longest /\ Longest \in Nat
  BY AnswerIs, LayerIs, Constants
<1> QED
  BY <1>1 DEF Unpaid

\* A full meter covers a full bucket.
LEMMA MeteringInit == Init => Metering
<1> SUFFICES ASSUME Init PROVE Metering
  OBVIOUS
<1>0. Sound
  BY SoundInit
<1>1. /\ knob.rate \in Rates /\ knob.rate \in Nat /\ knob.rate <= TopRate /\ TopRate \in Nat
      /\ LayerTypes
  BY <1>0, Constants, Tops DEF Sound, TypeOK, EnvTypes, Knobs
<1>2. layer.bucket = Full(knob.rate) /\ frames = <<>> /\ answer = None /\ ~layer.flushing
  BY DEF Init, Fresh
<1>3. /\ meter.level = MeterFull(TopRate)
      /\ meter.valid => Has("ThrottledWriter") /\ knob.rate # 0
  <2>1. meter = [level |-> MeterFull(TopRate),
                 valid |-> Has("ThrottledWriter") /\ knob.rate # 0]
    BY DEF Init
  <2>2. meter.level = MeterFull(TopRate) /\ meter.valid = (Has("ThrottledWriter") /\ knob.rate # 0)
    BY <2>1
  <2> QED
    BY <2>2
<1>4. MeterFull(TopRate) >= 0
  BY <1>1, BucketAssumption DEF MeterFull
<1>5. Granted
  BY <1>2 DEF Granted
<1>6. Unpaid = 0
  BY <1>2 DEF Unpaid, None
<1>7. layer.bucket \in Buckets(Rates)
  BY <1>1, LayerIs
<1>8. Covering
  BY <1>1, <1>2, <1>3, <1>6, <1>7, FullClaims, NothingSpent DEF Covering
<1> QED
  BY <1>3, <1>4, <1>5, <1>8 DEF Metering

\* What changes the meter, the bucket or the limit.
LEMMA MeterSteps ==
  ASSUME LayerTypes, EnvTypes, [Next]_vars
  PROVE \/ UNCHANGED <<meter, layer.bucket, knob.rate>>
        \/ SetRate \/ Tick \/ Grant \/ ThrottleResumes
        \/ \E n \in 0..Longest : SinkTakes(n)
<1>1. CASE Environment /\ ~SetRate /\ ~Tick
  BY <1>1 DEF Environment, SetSize, SetDelay, SetCorrupt, Set, Inject, PeerReads, Flush, Offer,
              Shutdown, Abandon, env, history, LayerTypes, EnvTypes, Knobs
<1>2. CASE Poll \/ OwnerReady \/ OwnerPending \/ OwnerFails \/ SinkWaits \/ SinkShuts \/ SinkFails
  BY <1>2 DEF Poll, OwnerReady, OwnerPending, OwnerFails, SinkWaits, SinkShuts, SinkFails,
              Keeping, env, history
<1>3. CASE Adapter /\ ~Grant /\ ~ThrottleResumes
  <2>1. meter' = meter /\ knob' = knob
    BY <1>3 DEF Adapter, PassUp, Fuse, InjectorDrains, InjectorReceives, InjectorPasses,
         InjectorResumes, CorrupterDrains, CorrupterHits, CorrupterMisses, CorrupterResumes,
         SliceOff, SliceOn, SliceWrites, SliceResumes, SliceFlushed, SliceFlushWaits,
         SliceFlushFails, ThrottleOff, ThrottleOn, Acquire, DelayOff, DelayArms,
         DelayWaits, DelayOver, Keeping, env, history
  <2>2. layer'.bucket = layer.bucket
    <3>1. CASE InjectorReceives \/ InjectorResumes \/ CorrupterHits \/ CorrupterResumes
      BY <3>1 DEF InjectorReceives, InjectorResumes, CorrupterHits, CorrupterResumes, LayerTypes
    <3>2. CASE SliceResumes \/ SliceFlushed \/ DelayArms \/ DelayOver
      BY <3>2 DEF SliceResumes, SliceFlushed, DelayArms, DelayOver, LayerTypes
    <3>3. CASE layer' = layer
      BY <3>3
    <3> QED
      BY <1>3, <3>1, <3>2, <3>3 DEF Adapter, PassUp, Fuse, InjectorDrains, InjectorPasses,
         CorrupterDrains, CorrupterMisses, SliceOff, SliceOn, SliceWrites, SliceFlushWaits,
         SliceFlushFails, ThrottleOff, ThrottleOn, Acquire, DelayOff, DelayWaits
  <2> QED
    BY <2>1, <2>2
<1>4. CASE UNCHANGED vars
  BY <1>4 DEF vars, env, history
<1> QED
  BY <1>1, <1>2, <1>3, <1>4 DEF Next, TaskStep, Sink

\* An answer that is there means that no flush is due.
LEMMA AnswersAreFlushed ==
  ASSUME FlushDue, ~Broken, answer.kind = "ready"
  PROVE ~layer.flushing
BY DEF FlushDue, Running, Carried, None, Pending

\* Nothing is unpaid while the throttle's own bytes are not on their way: an
\* adapter above the throttle takes an answer.
LEMMA PaidAbove ==
  ASSUME EnvTypes, ControlTypes, Chosen, Chain, Beyond("ThrottledWriter"), frames # <<>>,
         Top.at \in DOMAIN stack, stack[Top.at] \in Payers
  PROVE ~ThrottleAwaits
<1> SUFFICES ASSUME NEW i \in DOMAIN frames, frames[i].at \in DOMAIN stack,
                    stack[frames[i].at] = "ThrottledWriter"
             PROVE FALSE
  BY DEF ThrottleAwaits
<1> DEFINE n == Len(frames)
<1>1. n \in DOMAIN frames /\ Top = frames[n] /\ DOMAIN frames = 1..n /\ n \in Nat
  BY TopIs, CallsAre
<1>2. i # n
  BY <1>1 DEF Payers
<1>3. i \in 1..(n - 1)
  BY <1>1, <1>2
<1>4. frames[i].at < frames[n].at
  BY <1>1, <1>3 DEF Chain
<1>5. frames[i].at \in Nat /\ Top.at \in Nat /\ frames[i].at <= Top.at
  BY <1>1, <1>4, CallsAre
<1> QED
  BY <1>5, PayersAbove

\* A slicer that takes an answer passes the debt on to itself, and back.
LEMMA SlicerTakesOver ==
  ASSUME Sound, At("SlicedWriter"), ThrottleAwaits
  PROVE SlicesAreMetered
<1> DEFINE n == Len(frames)
<1>0. EnvTypes /\ ControlTypes /\ Chain /\ frames # <<>> /\ Top.at \in DOMAIN stack
      /\ stack[Top.at] = "SlicedWriter"
  BY DEF Sound, TypeOK, At
<1>1. n \in DOMAIN frames /\ Top = frames[n] /\ DOMAIN frames = 1..n /\ n \in Nat
  BY <1>0, TopIs, CallsAre
<1>2. PICK i \in DOMAIN frames : frames[i].at \in DOMAIN stack /\ stack[frames[i].at] = "ThrottledWriter"
  BY DEF ThrottleAwaits
<1>3. i \in 1..(n - 1)
  BY <1>0, <1>1, <1>2
<1>4. frames[i].at < Top.at
  BY <1>0, <1>1, <1>3 DEF Chain
<1> QED
  BY <1>0, <1>2, <1>4 DEF SlicesAreMetered

\* Below the throttle an answer goes to the throttle.
LEMMA ThrottleIsAbove ==
  ASSUME Sound, Granted, call.op # "shutdown", frames # <<>>,
         NEW t \in DOMAIN stack, stack[t] = "ThrottledWriter", t < Top.at,
         NEW result, Return(result), result # None, stack' = stack
  PROVE ThrottleAwaits'
<1> DEFINE n == Len(frames)
<1>0. EnvTypes /\ ControlTypes
  BY DEF Sound, TypeOK
<1>1. n \in DOMAIN frames /\ Top = frames[n] /\ DOMAIN frames = 1..n /\ n \in Nat
  BY <1>0, TopIs, CallsAre
<1>2. PICK j \in 1..(n - 1) : frames[j].at = t
  BY <1>1 DEF Granted
<1>3. /\ frames' \in Seq(Frames) /\ Len(frames') = n - 1
      /\ \A k \in 1..(n - 1) : frames'[k] = frames[k]
  BY <1>0, Pops DEF Return
<1>4. j \in DOMAIN frames' /\ frames'[j].at = t
  BY <1>1, <1>2, <1>3
<1> QED
  BY <1>4 DEF ThrottleAwaits, Return

\* Where bucket and meter stay, no debt is forgotten.
LEMMA UnpaidKept ==
  ASSUME Beyond("ThrottledWriter"), Sound, Sound', Granted, ~Broken', [Next]_vars,
         ~ThrottleResumes
  PROVE Unpaid <= Unpaid'
<1>0. /\ TypeOK /\ EnvTypes /\ LayerTypes /\ ControlTypes /\ Chosen /\ Chain /\ Fits /\ OwnerTypes
      /\ stack' = stack /\ FlushDue /\ Owning
  <2>1. stack' = stack
    BY Shapes DEF Sound
  <2> QED
    BY <2>1 DEF Sound, TypeOK
<1>1. Unpaid \in Nat /\ Unpaid' \in Nat
  <2>1. LayerTypes' /\ ControlTypes'
    BY DEF Sound, TypeOK
  <2>2. answer'.n \in 0..Longest /\ layer'.owed \in 0..Longest /\ Longest \in Nat
    <3>1. (LayerTypes /\ ControlTypes => answer.n \in Nat /\ layer.owed \in Nat)
      BY AnswerIs, LayerIs, Constants
    <3>2. (LayerTypes /\ ControlTypes => answer.n \in 0..Longest /\ layer.owed \in 0..Longest)'
      BY <2>1, Constants DEF LayerTypes, ControlTypes, Answers, None, Pending, Failed, Ready
    <3> QED
      BY <2>1, <3>2, Constants
  <2>3. Unpaid' \in Nat
    BY <2>2 DEF Unpaid
  <2> QED
    BY <1>0, <2>3, UnpaidIs
<1>2. ~Broken
  BY <1>0, BrokenStays
<1>3. SlicesAreMetered' <=> SlicesAreMetered
  BY <1>0 DEF SlicesAreMetered
<1>4. answer.kind = "ready" => ~layer.flushing
  BY <1>0, <1>2, AnswersAreFlushed
<1>5. answer'.kind = "ready" => ~layer'.flushing
  BY DEF Sound, FlushDue, Running, Carried, None, Pending
<1>6. ASSUME Unpaid = 0 PROVE Unpaid <= Unpaid'
  BY <1>1, <1>6
<1>7. ASSUME Unpaid' = Unpaid PROVE Unpaid <= Unpaid'
  BY <1>1, <1>7
<1>8. ASSUME UNCHANGED <<frames, answer, layer.flushing, layer.owed>> PROVE Unpaid <= Unpaid'
  <2>1. ThrottleAwaits' <=> ThrottleAwaits
    BY <1>0, <1>8 DEF ThrottleAwaits
  <2> QED
    BY <1>3, <1>7, <1>8, <2>1 DEF Unpaid
<1>9. ASSUME DataStays,
             \/ UNCHANGED <<frames, answer>>
             \/ answer.kind # "ready" /\ answer' \in {None, Pending, Failed}
             \/ answer = None /\ answer' = Ready(0)
      PROVE Unpaid <= Unpaid'
  <2>1. UNCHANGED <<layer.flushing, layer.owed>>
    BY <1>9 DEF DataStays
  <2>2. CASE UNCHANGED <<frames, answer>>
    BY <1>8, <2>1, <2>2
  <2>3. CASE answer.kind # "ready" /\ answer' \in {None, Pending, Failed}
    <3>1. answer'.kind # "ready"
      BY <2>3 DEF None, Pending, Failed
    <3> QED
      BY <1>3, <1>7, <2>1, <2>3, <3>1 DEF Unpaid
  <2>4. CASE answer = None /\ answer' = Ready(0)
    <3>1. ~layer.flushing
      BY <1>5, <2>1, <2>4 DEF Ready
    <3>2. Unpaid = 0
      BY <2>4, <3>1 DEF Unpaid, None
    <3> QED
      BY <1>6, <3>2
  <2> QED
    BY <1>9, <2>2, <2>3, <2>4
<1>10. CASE Offer("write") \/ Offer("vectored") \/ Shutdown \/ Abandon
  BY <1>8, <1>10 DEF Offer, Shutdown, Abandon, control
<1>11. CASE InjectorReceives \/ CorrupterHits
  <2>1. UNCHANGED <<layer.flushing, layer.owed>>
    BY <1>0, <1>11 DEF InjectorReceives, CorrupterHits, LayerTypes
  <2> QED
    BY <1>8, <1>11, <2>1 DEF InjectorReceives, CorrupterHits, Keeping, control
<1>12. CASE OwnerReady \/ OwnerFails
  <2>1. frames = <<>>
    BY <1>12 DEF OwnerReady, OwnerFails
  <2>2. ~ThrottleAwaits
    BY <2>1 DEF ThrottleAwaits
  <2>3. answer.kind = "ready"
    BY <1>2, <1>0, <1>12, AnswerIs DEF OwnerReady, OwnerFails, Broken
  <2> QED
    BY <1>6, <2>2, <2>3 DEF Unpaid
<1>13. CASE InjectorResumes \/ CorrupterResumes
  <2>1. frames # <<>> /\ Top.at \in DOMAIN stack /\ stack[Top.at] \in Payers /\ answer.kind = "ready"
    BY <1>13 DEF InjectorResumes, CorrupterResumes, Resumed, At, Payers
  <2>2. ~ThrottleAwaits
    BY <1>0, <2>1, PaidAbove
  <2> QED
    BY <1>6, <2>1, <2>2 DEF Unpaid
<1>14. CASE SliceResumes
  <2>1. /\ At("SlicedWriter") /\ answer.kind = "ready" /\ answer' = None
        /\ layer' = [layer EXCEPT !.flushing = TRUE, !.owed = answer.n]
    BY <1>14 DEF SliceResumes, Resumed, Goto
  <2>2. layer'.flushing /\ layer'.owed = answer.n
    BY <1>0, <2>1 DEF LayerTypes
  <2>3. CASE ThrottleAwaits
    <3>1. SlicesAreMetered
      BY <2>1, <2>3, SlicerTakesOver
    <3> QED
      BY <1>3, <1>7, <2>1, <2>2, <2>3, <3>1 DEF Unpaid, None
  <2>4. CASE ~ThrottleAwaits
    BY <1>6, <2>1, <2>4 DEF Unpaid
  <2> QED
    BY <2>3, <2>4
<1>15. CASE SliceFlushed
  <2>1. /\ At("SlicedWriter") /\ answer = None /\ frames # <<>> /\ Return(Ready(layer.owed))
        /\ Top.at \in DOMAIN stack /\ stack[Top.at] = "SlicedWriter"
    BY <1>15 DEF SliceFlushed, Running, At
  <2>2. CASE SlicesAreMetered
    <3>1. PICK t \in DOMAIN stack : stack[t] = "ThrottledWriter" /\ t < Top.at
      <4>1. PICK t, p \in DOMAIN stack :
              stack[t] = "ThrottledWriter" /\ stack[p] = "SlicedWriter" /\ t < p
        BY <2>2 DEF SlicesAreMetered
      <4>2. p = Top.at
        BY <1>0, <2>1, <4>1, Alone
      <4> QED
        BY <4>1, <4>2
    <3>2. call.op # "shutdown"
      <4>1. Top.at \in Stops(stack, call.op)
        BY <1>0, <2>1, TopIs DEF Chain
      <4>2. call.op \in {"write", "vectored"}
        BY <1>0, <2>1, <4>1, StopsAct, WhoActs
      <4> QED
        BY <4>2
    <3>3. Ready(layer.owed) # None
      BY DEF Ready, None
    <3>4. ThrottleAwaits'
      BY <1>0, <2>1, <3>1, <3>2, <3>3, ThrottleIsAbove
    <3>5. answer' = Ready(layer.owed)
      BY <2>1 DEF Return
    <3>6. Unpaid' = layer.owed
      BY <3>4, <3>5 DEF Unpaid, Ready
    <3>7. Unpaid \in {0, layer.owed}
      BY <2>1 DEF Unpaid, None
    <3> QED
      BY <1>6, <1>7, <3>6, <3>7
  <2>3. CASE ~SlicesAreMetered
    BY <1>6, <2>1, <2>3 DEF Unpaid, None
  <2> QED
    BY <2>2, <2>3
<1>16. ASSUME NEW n \in 0..Longest, SinkTakes(n) PROVE Unpaid <= Unpaid'
  <2>1. answer = None /\ layer' = layer /\ answer' = Ready(n)
    BY <1>16 DEF SinkTakes, AtSink, Return
  <2>2. ~layer.flushing
    BY <1>5, <2>1 DEF Ready
  <2> QED
    BY <1>6, <2>1, <2>2 DEF Unpaid, None
<1> QED
  BY <1>0, <1>9, <1>10, <1>11, <1>12, <1>13, <1>14, <1>15, <1>16, DataSteps

\* Every step keeps the meter ahead of the bucket.
LEMMA MeteringNext ==
  ASSUME Unmixed, Beyond("ThrottledWriter"), Sound, Sound', Metering, [Next]_vars
  PROVE Metering'
<1>0. /\ TypeOK /\ EnvTypes /\ LayerTypes /\ ControlTypes /\ OwnerTypes /\ Chosen /\ Chain /\ Fits
      /\ Owning /\ FlushDue /\ Balanced /\ FlushDue' /\ LayerTypes' /\ stack' = stack
  <2>1. stack' = stack
    BY Shapes DEF Sound
  <2> QED
    BY <2>1 DEF Sound, TypeOK
<1>1. /\ layer.bucket \in Buckets(Rates) /\ knob \in Knobs /\ knob.rate \in Rates
      /\ TopRate \in Nat /\ Rates \in SUBSET Nat /\ Second \in Nat \ {0}
      /\ meter \in [level : Int, valid : BOOLEAN] /\ meter.level \in Int /\ meter.valid \in BOOLEAN
      /\ layer'.bucket \in Buckets(Rates)
  <2>1. layer'.bucket \in Buckets(Rates)
    BY <1>0 DEF LayerTypes
  <2> QED
    BY <1>0, <2>1, LayerIs, Constants, Tops, BucketAssumption
       DEF TypeOK, EnvTypes, Knobs, HistoryTypes
<1>2. /\ meter.level >= 0 /\ (meter.valid => Has("ThrottledWriter"))
      /\ meter.valid /\ ~Broken => knob.rate # 0 /\ Granted /\ Covering
  BY DEF Metering
<1>3. Has("ThrottledWriter")' <=> Has("ThrottledWriter")
  BY <1>0 DEF Has, Member
<1>4. ~Broken' => ~Broken
  BY <1>0, BrokenStays
<1>5. Unpaid \in Nat /\ Unpaid' \in Nat
  <2>1. LayerTypes' /\ ControlTypes'
    BY DEF Sound, TypeOK
  <2>2. answer'.n \in 0..Longest /\ layer'.owed \in 0..Longest
    BY <2>1, Constants DEF LayerTypes, ControlTypes, Answers, None, Pending, Failed, Ready
  <2>3. Unpaid' \in Nat
    BY <2>2, Constants DEF Unpaid
  <2> QED
    BY <1>0, <2>3, UnpaidIs
<1>6. Granted' \/ ~(meter.valid /\ ~Broken')
  BY <1>2, <1>4, GrantedNext
<1>7. /\ Claim(Spent(layer.bucket, Unpaid), TopRate) \in Nat
      /\ Claim(Spent(layer'.bucket, Unpaid'), TopRate) \in Nat
      /\ Claim(Spent(layer.bucket, Unpaid'), TopRate) \in Nat
      /\ Claim(Spent(layer'.bucket, Unpaid), TopRate) \in Nat
  BY <1>1, <1>5, SpentIs, ClaimIsNat
\* The meter stays and the bucket claims no more than before.
<1>a. ASSUME UNCHANGED <<meter, knob.rate>>, meter.valid /\ ~Broken' =>
               Claim(Spent(layer'.bucket, Unpaid'), TopRate)
                 <= Claim(Spent(layer.bucket, Unpaid), TopRate)
      PROVE Metering'
  <2>1. meter.valid /\ ~Broken' => Claim(Spent(layer'.bucket, Unpaid'), TopRate) <= meter'.level
    BY <1>1, <1>2, <1>4, <1>7, <1>a DEF Covering
  <2>2. meter.valid /\ ~Broken' => Covering'
    BY <1>a, <2>1 DEF Covering
  <2> QED
    BY <1>2, <1>3, <1>4, <1>6, <1>a, <2>2 DEF Metering
<1>b. ASSUME meter.valid, ~Broken', ~ThrottleResumes
      PROVE Claim(Spent(layer.bucket, Unpaid'), TopRate) <= Claim(Spent(layer.bucket, Unpaid), TopRate)
  <2>1. Unpaid <= Unpaid'
    BY <1>2, <1>4, <1>b, UnpaidKept
  <2> QED
    BY <1>1, <1>5, <2>1, LessClaims
<1>8. CASE UNCHANGED <<meter, layer.bucket, knob.rate>> /\ ~ThrottleResumes
  BY <1>a, <1>b, <1>8
<1>9. CASE SetRate
  <2>1. PICK r \in Rates : /\ Set("rate", r)
                           /\ meter' = IF r = 0 THEN [level |-> 0, valid |-> FALSE] ELSE meter
    BY <1>9 DEF SetRate
  <2>2. knob'.rate = r /\ layer' = layer
    BY <1>1, <2>1 DEF Set, Knobs
  <2>3. CASE r = 0
    BY <2>1, <2>3 DEF Metering
  <2>4. CASE r # 0
    <3>1. ~ThrottleResumes
      <4>1. knob' # knob
        BY <1>1, <2>1, <2>2 DEF Set
      <4> QED
        BY <4>1 DEF ThrottleResumes, Keeping, env
    <3>2. meter' = meter
      BY <2>1, <2>4
    <3>3. meter.valid /\ ~Broken' => Claim(Spent(layer'.bucket, Unpaid'), TopRate) <= meter'.level
      BY <1>1, <1>2, <1>4, <1>7, <1>b, <2>2, <3>1, <3>2 DEF Covering
    <3> QED
      BY <1>2, <1>3, <1>4, <1>6, <2>2, <2>4, <3>2, <3>3 DEF Metering, Covering
  <2> QED
    BY <2>3, <2>4
<1>10. CASE Tick
  <2>1. /\ knob' = knob /\ UNCHANGED <<frames, answer, call>>
        /\ meter' = IF meter.valid THEN [meter EXCEPT !.level = Metered(meter.level, TopRate)] ELSE meter
    BY <1>10 DEF Tick, env, control, owner
  <2>2. CASE ~meter.valid
    BY <1>2, <2>1, <2>2 DEF Metering
  <2>3. CASE meter.valid
    <3>1. meter'.level = Metered(meter.level, TopRate) /\ meter'.valid = meter.valid
      BY <1>1, <2>1, <2>3
    <3>2. layer'.bucket = Older(layer.bucket) /\ UNCHANGED <<layer.flushing, layer.owed>>
      BY <1>0, <1>2, <1>10, <2>3 DEF Tick, LayerTypes
    <3>3. Unpaid' = Unpaid
      <4>1. (ThrottleAwaits' <=> ThrottleAwaits) /\ (SlicesAreMetered' <=> SlicesAreMetered)
        BY <1>0, <2>1 DEF ThrottleAwaits, SlicesAreMetered
      <4> QED
        BY <2>1, <3>2, <4>1 DEF Unpaid
    <3>4. Broken' <=> Broken
      BY <2>1 DEF Broken
    <3>5. Metered(meter.level, TopRate) \in Int /\ Metered(meter.level, TopRate) >= 0
      <4>1. 2 * Second * TopRate \in Nat
        BY <1>1
      <4> QED
        BY <1>1, <1>2, <4>1 DEF Metered, MeterCap, Least
    <3>6. ASSUME ~Broken
          PROVE Claim(Spent(layer'.bucket, Unpaid'), TopRate) <= Metered(meter.level, TopRate)
      <4> DEFINE paid == Spent(layer.bucket, Unpaid)
      <4>1. /\ paid \in Buckets(Rates) /\ paid.budget \in Nat
            /\ Claim(paid, TopRate) <= meter.level
        BY <1>1, <1>2, <1>5, <2>3, <3>6, SpentIs DEF Covering
      <4>2. paid.budget <= TopRate
        <5>1. PICK r \in Rates : paid.budget <= r
          BY <1>1, <4>1, BucketFields
        <5> HIDE DEF paid
        <5> QED
          BY <1>1, <4>1, <5>1, Tops
      <4> HIDE DEF paid
      <4>3. Claim(Older(paid), TopRate) <= Metered(meter.level, TopRate)
        BY <1>1, <4>1, <4>2, OlderClaims
      <4>4. Claim(Spent(Older(layer.bucket), Unpaid), TopRate) = Claim(Older(paid), TopRate)
        BY <1>1, <1>5, OlderBeforeSpent DEF paid
      <4> QED
        BY <3>2, <3>3, <4>3, <4>4
    <3>7. ~Broken' => Covering'
      BY <3>1, <3>4, <3>6 DEF Covering
    <3> QED
      BY <1>2, <1>3, <1>4, <1>6, <2>1, <2>3, <3>1, <3>5, <3>7 DEF Metering
  <2> QED
    BY <2>2, <2>3
<1>11. CASE Grant
  <2> DEFINE bucket == Refilled(layer.bucket, knob.rate)
             grant == Least(Top.len, bucket.budget)
  <2>1. meter' = meter /\ knob' = knob /\ answer = None /\ frames # <<>>
    BY <1>11 DEF Grant, Keeping, env, history, Running, At
  <2>2. ~ThrottleResumes
    BY <2>1 DEF ThrottleResumes, Resumed, None
  <2>3. bucket \in Buckets(Rates)
    BY <1>1, BucketsStay
  <2>4. Claim(Spent(bucket, Unpaid'), TopRate) <= Claim(Spent(layer.bucket, Unpaid'), TopRate)
        /\ Claim(Spent(bucket, Unpaid'), TopRate) \in Nat
    BY <1>1, <1>5, <2>3, RefilledBeforeSpent, SpentIs, ClaimIsNat
  <2>5. layer' = [layer EXCEPT !.bucket = bucket] \/ layer' = [layer EXCEPT !.bucket = Napping(bucket, Top.seen)]
    BY <1>11 DEF Grant
  <2>6. Top.seen \in Nat \ {0}
    <3>1. Top \in Frames /\ Len(frames) \in DOMAIN frames /\ Top = frames[Len(frames)]
      BY <1>0, <2>1, TopIs
    <3>2. Top.step = "refill"
      BY <1>11 DEF Grant, Running
    <3>3. Top.seen # 0
      BY <1>0, <3>1, <3>2 DEF Chain
    <3>4. Top.seen \in Rates \cup {0}
      BY <3>1 DEF Frames
    <3> QED
      BY <1>1, <3>3, <3>4
  <2> HIDE DEF bucket
  <2>7. Claim(Spent(layer'.bucket, Unpaid'), TopRate) = Claim(Spent(bucket, Unpaid'), TopRate)
    <3>1. CASE layer' = [layer EXCEPT !.bucket = bucket]
      BY <1>0, <3>1 DEF LayerTypes
    <3>2. CASE layer' = [layer EXCEPT !.bucket = Napping(bucket, Top.seen)]
      <4>1. layer'.bucket = Napping(bucket, Top.seen)
        BY <1>0, <3>2 DEF LayerTypes
      <4> QED
        BY <1>5, <2>3, <2>6, <4>1, NappingBeforeSpent
    <3> QED
      BY <2>5, <3>1, <3>2
  <2>8. meter.valid /\ ~Broken' =>
          Claim(Spent(layer'.bucket, Unpaid'), TopRate) <= Claim(Spent(layer.bucket, Unpaid), TopRate)
    BY <1>7, <1>b, <2>2, <2>4, <2>7
  <2> QED
    BY <1>a, <2>1, <2>8
<1>12. CASE ThrottleResumes
  <2>1. /\ At("ThrottledWriter") /\ answer.kind = "ready" /\ Return(answer)
        /\ layer' = [layer EXCEPT !.bucket = Spent(layer.bucket, answer.n)]
        /\ meter' = meter /\ knob' = knob
        /\ frames # <<>> /\ Top.at \in DOMAIN stack /\ stack[Top.at] = "ThrottledWriter"
    BY <1>12 DEF ThrottleResumes, Resumed, Keeping, env, history, At
  <2>2. layer'.bucket = Spent(layer.bucket, answer.n)
    BY <1>0, <2>1 DEF LayerTypes
  <2>3. Unpaid = answer.n
    <3>1. Len(frames) \in DOMAIN frames /\ Top = frames[Len(frames)] /\ answer # None
      BY <1>0, <2>1, TopIs DEF None
    <3>2. ThrottleAwaits
      BY <2>1, <3>1 DEF ThrottleAwaits
    <3> QED
      BY <2>1, <3>2 DEF Unpaid
  <2>4. Unpaid' = 0
    <3>1. answer'.kind = "ready"
      BY <2>1 DEF Return
    <3>2. ~ThrottleAwaits'
      <4> SUFFICES ASSUME NEW i \in DOMAIN frames', frames'[i].at \in DOMAIN stack,
                          stack[frames'[i].at] = "ThrottledWriter"
                   PROVE FALSE
        BY <1>0 DEF ThrottleAwaits
      <4> DEFINE n == Len(frames)
      <4>1. /\ frames' \in Seq(Frames) /\ Len(frames') = n - 1
            /\ \A j \in 1..(n - 1) : frames'[j] = frames[j]
        BY <1>0, <2>1, Pops DEF Return
      <4>2. n \in DOMAIN frames /\ Top = frames[n] /\ DOMAIN frames = 1..n /\ n \in Nat
        BY <1>0, <2>1, TopIs, CallsAre
      <4>3. i \in 1..(n - 1) /\ i \in DOMAIN frames
        BY <4>1, <4>2
      <4>4. frames[i].at < frames[n].at
        BY <1>0, <4>2, <4>3 DEF Chain
      <4>5. frames[i].at = Top.at
        BY <1>0, <2>1, <4>1, <4>3, Alone
      <4>6. frames[i].at \in Nat
        BY <1>0, <4>3, CallsAre
      <4> QED
        BY <4>2, <4>4, <4>5, <4>6
    <3> QED
      BY <3>1, <3>2 DEF Unpaid
  <2>5. Claim(Spent(layer'.bucket, Unpaid'), TopRate) = Claim(Spent(layer.bucket, Unpaid), TopRate)
    BY <1>1, <2>2, <2>3, <2>4, NothingSpent
  <2> QED
    BY <1>7, <1>a, <2>1, <2>5
<1>13. ASSUME NEW n \in 0..Longest, SinkTakes(n) PROVE Metering'
  <2>1. /\ frames # <<>> /\ Top.at = Len(stack) + 1 /\ answer = None /\ call.op # "shutdown"
        /\ n <= Top.len /\ Return(Ready(n)) /\ layer' = layer /\ knob' = knob
        /\ meter' = IF meter.valid THEN [meter EXCEPT !.level = meter.level - Second * n] ELSE meter
    BY <1>13 DEF SinkTakes, AtSink, env
  <2>2. ~Broken /\ n \in Nat
    BY <1>0, <1>13, Takes
  <2>3. CASE ~meter.valid
    BY <1>2, <2>1, <2>3 DEF Metering
  <2>4. CASE meter.valid
    <3>1. meter'.level = meter.level - Second * n /\ meter'.valid = meter.valid
      <4>1. Second * n \in Int
        BY <1>1, <2>2
      <4> QED
        BY <1>1, <2>1, <2>4
    <3>2. Unpaid = 0
      <4>1. answer' = Ready(n)
        BY <2>1 DEF Return
      <4>2. ~Broken'
        BY <1>0, <2>1, <4>1, Underway, <1>13 DEF SinkTakes, owner, Broken, Ready, Failed, None
      <4>3. ~layer'.flushing
        BY <1>0, <4>1, <4>2 DEF FlushDue, Running, Carried, Ready, None, Pending
      <4> QED
        BY <2>1, <4>3 DEF Unpaid, None
    <3>3. PICK t \in DOMAIN stack : stack[t] = "ThrottledWriter"
      BY <1>2, <2>4 DEF Has, Member
    <3>4. t < Top.at
      BY <1>0, <2>1, <3>3 DEF EnvTypes
    <3>5. Granted /\ Covering
      BY <1>2, <2>2, <2>4
    <3>6. ThrottleAwaits'
      <4>1. Ready(n) # None
        BY DEF Ready, None
      <4> QED
        BY <1>0, <2>1, <3>3, <3>4, <3>5, <4>1, ThrottleIsAbove
    <3>7. Unpaid' = n
      BY <2>1, <3>6 DEF Unpaid, Return, Ready
    <3>8. n <= layer.bucket.budget
      <4>1. Len(frames) \in DOMAIN frames /\ Top = frames[Len(frames)] /\ Top \in Frames
        BY <1>0, <2>1, TopIs
      <4>2. Top.len <= layer.bucket.budget
        BY <2>1, <3>3, <3>4, <3>5, <4>1 DEF Granted
      <4>3. Top.len \in Nat /\ layer.bucket.budget \in Nat
        BY <1>1, <4>1, BucketFields, Constants DEF Frames
      <4> QED
        BY <2>1, <2>2, <4>2, <4>3
    <3>9. Claim(Spent(layer.bucket, n), TopRate) = Claim(layer.bucket, TopRate) - Second * n
      BY <1>1, <2>2, <3>8, SpentClaims
    <3>10. Claim(layer.bucket, TopRate) <= meter.level
      BY <1>1, <3>2, <3>5, NothingSpent DEF Covering
    <3>11. Claim(Spent(layer'.bucket, Unpaid'), TopRate) <= meter'.level /\ meter'.level >= 0
      <4>1. /\ Claim(Spent(layer.bucket, n), TopRate) \in Nat /\ Claim(layer.bucket, TopRate) \in Nat
            /\ Second * n \in Nat
        <5>1. layer.bucket \in Buckets(Rates) /\ Rates \in SUBSET Nat /\ TopRate \in Nat
          BY <1>1, Constants
        <5>2. Spent(layer.bucket, n) \in Buckets(Rates)
          BY <2>2, <5>1, SpentIs
        <5>3. Second * n \in Nat
          BY <1>1, <2>2
        <5> QED
          BY <5>1, <5>2, <5>3, ClaimIsNat
      <4>2. Claim(Spent(layer.bucket, n), TopRate) <= meter'.level /\ meter'.level >= 0
        BY <1>1, <3>1, <3>9, <3>10, <4>1
      <4> QED
        BY <2>1, <3>7, <4>2
    <3> QED
      BY <1>2, <1>3, <1>6, <2>1, <2>2, <2>4, <3>1, <3>11 DEF Metering, Covering
  <2> QED
    BY <2>3, <2>4
<1> QED
  BY <1>0, <1>8, <1>9, <1>10, <1>11, <1>12, <1>13, MeterSteps

\* No window of time lets more through than two seconds' worth at the highest
\* rate and the window's worth on top: what ThrottledWriter::poll_write hands
\* down is in its bucket, and only what the wrapped writer took is consumed.
THEOREM WritesAreMetered ==
  ASSUME Unmixed, Beyond("ThrottledWriter")
  PROVE Spec => []RateMetered
<1>1. Metering => RateMetered
  BY DEF Metering, RateMetered
<1>2. Sound /\ Sound' /\ Metering /\ [Next]_vars => Metering'
  BY MeteringNext
<1> QED
  BY <1>1, <1>2, MeteringInit, StackIsSound, PTL DEF Spec

================================================================================
