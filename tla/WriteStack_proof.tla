---------------------------- MODULE WriteStack_proof ----------------------------
(***************************************************************************)
(* Proofs about WriteStack for stacks of any adapters, knobs with any      *)
(* values and buffers and payloads of any size.                            *)
(***************************************************************************)
EXTENDS WriteStack, LeakyBucket_proof, SequenceTheorems

-----------------------------------------------------------------------------
(* What the operators return.                                               *)

\* The bounds have a highest value.
LEMMA Tops ==
  /\ TopRate \in Rates /\ TopRate \in Nat /\ \A r \in Rates : r <= TopRate
  /\ TopDelay \in Delays /\ TopDelay \in Nat /\ \A d \in Delays : d <= TopDelay
BY WriteStackAssumption DEF TopRate, TopDelay

\* The constants, one by one.
LEMMA Constants ==
  /\ MaxBuf \in Nat \ {0} /\ MaxPayload \in Nat \ {0} /\ Total \in Nat
  /\ Rates \in SUBSET Nat /\ Delays \in SUBSET Nat /\ Sizes \in SUBSET Nat
  /\ Longest \in Nat /\ MaxBuf <= Longest /\ MaxPayload <= Longest
<1>1. /\ MaxBuf \in Nat \ {0} /\ MaxPayload \in Nat \ {0} /\ Total \in Nat
      /\ Rates \in SUBSET Nat /\ Delays \in SUBSET Nat /\ Sizes \in SUBSET Nat
  BY WriteStackAssumption
<1> QED
  BY <1>1 DEF Longest

\* The smaller of two numbers.
LEMMA LeastOf ==
  ASSUME NEW a \in Int, NEW b \in Int
  PROVE /\ Least(a, b) \in {a, b} /\ Least(a, b) <= a /\ Least(a, b) <= b
BY DEF Least

\* Two sequences, one after the other.
LEMMA Joined ==
  ASSUME NEW S, NEW s \in Seq(S), NEW t \in Seq(S)
  PROVE /\ s \o t \in Seq(S) /\ Len(s \o t) = Len(s) + Len(t)
        /\ \A i \in 1..Len(s) : (s \o t)[i] = s[i]
        /\ \A x \in 1..Len(t) : (s \o t)[Len(s) + x] = t[x]
<1> DEFINE m == Len(s)
           n == Len(t)
           st == s \o t
<1>1. m \in Nat /\ n \in Nat
  BY LenProperties
<1>2. /\ st \in Seq(S) /\ Len(st) = m + n
      /\ \A i \in 1..(m + n) : st[i] = IF i <= m THEN s[i] ELSE t[i - m]
  BY ConcatProperties
<1> HIDE DEF m, n, st
<1>3. ASSUME NEW i \in 1..m PROVE st[i] = s[i]
  <2>1. i \in 1..(m + n) /\ i <= m
    BY <1>1
  <2> QED
    BY <1>2, <2>1
<1>4. ASSUME NEW x \in 1..n PROVE st[m + x] = t[x]
  <2>1. m + x \in 1..(m + n) /\ ~(m + x <= m) /\ m + x - m = x
    BY <1>1
  <2> DEFINE i == m + x
  <2> HIDE DEF i
  <2>2. st[i] = t[i - m]
    <3>1. i \in 1..(m + n) /\ ~(i <= m)
      BY <2>1 DEF i
    <3> QED
      BY <1>2, <3>1
  <2>3. i - m = x
    BY <1>1 DEF i
  <2> QED
    BY <2>2, <2>3 DEF i
<1> QED
  BY <1>2, <1>3, <1>4 DEF m, n, st

\* The bytes on offer.
LEMMA BytesAre ==
  ASSUME NEW from \in Nat \ {0}, NEW n \in Nat
  PROVE /\ Bytes(from, n) \in Seq(Nat) /\ Len(Bytes(from, n)) = n
        /\ \A x \in 1..n : Bytes(from, n)[x] = from + x - 1
BY DEF Bytes

\* Timers stay timers.
LEMMA TimersStay ==
  /\ IdleTimer \in Timers(Delays)
  /\ \A d \in Delays : Armed(d) \in Timers(Delays)
  /\ \A timer \in Timers(Delays) : Closer(timer) \in Timers(Delays)
<1>1. IdleTimer \in Timers(Delays)
  BY Tops DEF IdleTimer, Timers
<1>2. ASSUME NEW d \in Delays PROVE Armed(d) \in Timers(Delays)
  BY Constants DEF Armed, Timers
<1>3. ASSUME NEW timer \in Timers(Delays) PROVE Closer(timer) \in Timers(Delays)
  <2>1. PICK d \in Delays : timer.left \in 0..d
    BY DEF Timers
  <2>2. (IF timer.left = 0 THEN 0 ELSE timer.left - 1) \in 0..d
    BY <2>1, Constants
  <2> QED
    BY <2>2 DEF Closer, Timers
<1> QED
  BY <1>1, <1>2, <1>3

\* What a call enters is a stop below, and nothing that acts on the operation
\* lies in between.
LEMMA EnteredIs ==
  ASSUME EnvTypes, NEW i \in Nat, NEW src \in Sources, NEW n \in 0..Longest,
         NEW frame \in Entered(i, src, n)
  PROVE /\ frame \in Frames
        /\ frame.src = src /\ frame.len = n /\ frame.step = "enter" /\ frame.seen = 0
        /\ frame.at \in Stops(stack, call.op) /\ i < frame.at
        /\ \A k \in Stops(stack, call.op) : i < k => frame.at <= k
<1>1. PICK j \in Below(stack, call.op, i) :
        frame = [at |-> j, src |-> src, len |-> n, step |-> "enter", seen |-> 0]
  BY DEF Entered
<1>2. /\ j \in Stops(stack, call.op) /\ i < j
      /\ \A k \in Stops(stack, call.op) : i < k => j <= k
  BY DEF Below
<1>3. j \in 1..(Len(stack) + 1)
  BY <1>2 DEF Stops, EnvTypes
<1> QED
  BY <1>1, <1>2, <1>3 DEF Frames, Steps

-----------------------------------------------------------------------------
(* How the calls under way change.                                          *)

\* The calls but the innermost.
LEMMA CallersAre ==
  ASSUME ControlTypes, frames # <<>>
  PROVE /\ Len(frames) \in Nat \ {0} /\ Callers \in Seq(Frames)
        /\ Len(Callers) = Len(frames) - 1
        /\ \A i \in 1..(Len(frames) - 1) : Callers[i] = frames[i]
<1> DEFINE m == Len(frames) - 1
<1>1. frames \in Seq(Frames) /\ Len(frames) \in Nat \ {0} /\ m \in Nat
  BY EmptySeq DEF ControlTypes
<1>2. 1 \in Int /\ m \in Int /\ \A i \in 1..m : frames[i] \in Frames
  BY <1>1
<1> HIDE DEF m
<1>3. /\ SubSeq(frames, 1, m) \in Seq(Frames)
      /\ Len(SubSeq(frames, 1, m)) = IF 1 <= m THEN m - 1 + 1 ELSE 0
      /\ \A i \in 1..(m - 1 + 1) : SubSeq(frames, 1, m)[i] = frames[1 + i - 1]
  BY <1>2, SubSeqProperties
<1>4. m - 1 + 1 = m /\ \A i \in 1..m : 1 + i - 1 = i
  BY <1>1
<1>5. Len(SubSeq(frames, 1, m)) = m
  BY <1>1, <1>3
<1> QED
  BY <1>1, <1>3, <1>4, <1>5 DEF Callers, m

\* A call replaces the innermost one ...
LEMMA Replaces ==
  ASSUME ControlTypes, frames # <<>>, NEW f \in Frames, frames' = Append(Callers, f)
  PROVE /\ frames' \in Seq(Frames) /\ Len(frames') = Len(frames) /\ frames' # <<>>
        /\ Len(frames) \in Nat \ {0} /\ Top' = f /\ frames'[Len(frames)] = f
        /\ \A i \in 1..(Len(frames) - 1) : frames'[i] = frames[i]
<1> DEFINE n == Len(frames)
<1>1. n \in Nat \ {0}
  BY CallersAre
<1>2. Callers \in Seq(Frames) /\ Len(Callers) = n - 1 /\ \A i \in 1..(n - 1) : Callers[i] = frames[i]
  BY CallersAre
<1> HIDE DEF Callers
<1>3. /\ frames' \in Seq(Frames) /\ Len(frames') = n /\ frames'[n] = f
      /\ \A i \in 1..(n - 1) : frames'[i] = Callers[i]
  BY <1>1, <1>2
<1> QED
  BY <1>1, <1>2, <1>3 DEF Top

\* ... is made by it ...
LEMMA Pushes ==
  ASSUME ControlTypes, NEW f \in Frames, frames' = Append(frames, f)
  PROVE /\ frames' \in Seq(Frames) /\ Len(frames') = Len(frames) + 1 /\ frames' # <<>>
        /\ Len(frames) \in Nat /\ Top' = f /\ frames'[Len(frames) + 1] = f
        /\ \A i \in 1..Len(frames) : frames'[i] = frames[i]
BY DEF ControlTypes, Top

\* ... or comes back.
LEMMA Pops ==
  ASSUME ControlTypes, frames # <<>>, frames' = Callers
  PROVE /\ frames' \in Seq(Frames) /\ Len(frames') = Len(frames) - 1
        /\ Len(frames) \in Nat \ {0}
        /\ \A i \in 1..(Len(frames) - 1) : frames'[i] = frames[i]
        /\ frames' = <<>> <=> Len(frames) = 1
        /\ frames' # <<>> => Top' = frames[Len(frames) - 1] /\ Len(frames) - 1 \in 1..Len(frames)
<1> DEFINE n == Len(frames)
<1>1. n \in Nat \ {0}
  BY CallersAre
<1>2. frames' \in Seq(Frames) /\ Len(frames') = n - 1 /\ \A i \in 1..(n - 1) : frames'[i] = frames[i]
  BY CallersAre
<1>3. frames' = <<>> <=> n = 1
  BY <1>1, <1>2, EmptySeq
<1> QED
  BY <1>1, <1>2, <1>3 DEF Top

\* The innermost call.
LEMMA TopIs ==
  ASSUME ControlTypes, frames # <<>>
  PROVE Top \in Frames /\ Len(frames) \in DOMAIN frames /\ Top = frames[Len(frames)]
BY DEF ControlTypes, Top

-----------------------------------------------------------------------------
(* The calls under way, as a chain.                                         *)

\* The adapters that look at what the wrapped writer answers.
Calling == {"WriteInjector", "Corrupter", "SlicedWriter", "ThrottledWriter"}

\* Whose bytes a call hands down: an injector and a corrupter call with their own.
Asker(f) == IF stack[f.at] \in {"WriteInjector", "Corrupter"} THEN stack[f.at] ELSE f.src

\* How many bytes there are from a source.
Limit(src) ==
  IF src = "owner" THEN call.len
  ELSE IF src = "WriteInjector" THEN layer.injecting ELSE layer.garbage

\* Calls go down; each serves the bytes of the one above it; only adapters that
\* take several steps are called back.
Chain ==
  /\ \A i \in DOMAIN frames : frames[i].at \in Stops(stack, call.op)
  /\ \A i \in DOMAIN frames : \A j \in 1..(i - 1) : frames[j].at < frames[i].at
  /\ \A i \in DOMAIN frames :
       frames[i].src # "owner" =>
         \E j \in 1..(i - 1) : frames[j].at \in DOMAIN stack /\ stack[frames[j].at] = frames[i].src
  /\ \A i \in 1..(Len(frames) - 1) : frames[i + 1].src = Asker(frames[i])
  /\ \A i \in DOMAIN frames :
       i < Len(frames) \/ answer # None =>
         frames[i].at \in DOMAIN stack /\ stack[frames[i].at] \in Calling
  /\ \A i \in DOMAIN frames : frames[i].step = "refill" => frames[i].seen # 0
  /\ frames # <<>> => frames[1].len = call.len

Fits == \A i \in DOMAIN frames : frames[i].len <= Limit(frames[i].src)

Chosen == \E s \in Setups : stack = s.stack

\* A poll serves a pending operation; a write that is pending has a buffer.
Owning ==
  /\ frames # <<>> \/ answer # None => call.state = "pending"
  /\ call.state = "pending" /\ call.op # "shutdown" => call.len > 0
  /\ call.state \in {"idle", "closed"} \/ call.op = "shutdown" => call.len = 0
  /\ told.bytes < call.next /\ call.next + call.len <= Total + 1

\* How a step changes the calls under way.
Stays == UNCHANGED <<frames, answer, call>>
OwnersTurn == frames = <<>> /\ frames' = <<>> /\ (answer' = answer \/ answer' = None)
GoesOn ==
  \E step \in Steps, seen \in Rates \cup {0} :
    (step = "refill" => seen # 0) /\ Goto(step, seen)
CallsDown ==
  /\ Top.at \in DOMAIN stack /\ stack[Top.at] \in Calling
  /\ UNCHANGED <<layer.injecting, layer.garbage>>
  /\ \E n \in 0..Longest : n <= Limit(Asker(Top)) /\ Call(Asker(Top), n)
ComesBack == \E result \in Answers \ {None} : Return(result)

\* An adapter is in a stack once.
LEMMA Alone ==
  ASSUME Chosen, NEW i \in DOMAIN stack, NEW j \in DOMAIN stack, stack[i] = stack[j]
  PROVE i = j
BY WriteStackAssumption DEF Chosen

\* What the adapters at a position ask for.
LEMMA AskerAt ==
  /\ \A k \in {"WriteInjector", "Corrupter"} : At(k) => Asker(Top) = k
  /\ \A k \in {"SlicedWriter", "ThrottledWriter"} : At(k) => Asker(Top) = Top.src
BY DEF At, Asker

\* The layer, field by field.
LEMMA LayerIs ==
  ASSUME LayerTypes
  PROVE /\ layer.injecting \in 0..MaxPayload /\ layer.garbage \in 0..MaxPayload
        /\ layer.owed \in 0..Longest /\ layer.bucket \in Buckets(Rates)
        /\ layer.timer \in Timers(Delays) /\ layer.queue \in Seq(0..MaxPayload)
        /\ layer.flushing \in BOOLEAN /\ layer.bucket.budget \in Nat /\ layer.bucket.nap \in Nat
<1>1. /\ layer.injecting \in 0..MaxPayload /\ layer.garbage \in 0..MaxPayload
      /\ layer.owed \in 0..Longest /\ layer.bucket \in Buckets(Rates)
      /\ layer.timer \in Timers(Delays) /\ layer.queue \in Seq(0..MaxPayload)
      /\ layer.flushing \in BOOLEAN
  BY DEF LayerTypes
<1>2. layer.bucket.budget \in Nat /\ layer.bucket.nap \in 0..NapCap /\ NapCap \in Nat
  BY <1>1, BucketFields, Constants, BucketAssumption
<1> QED
  BY <1>1, <1>2

\* The answer, field by field.
LEMMA AnswerIs ==
  ASSUME ControlTypes
  PROVE /\ answer.kind \in {"none", "pending", "failed", "ready"}
        /\ answer.n \in 0..Longest
        /\ answer = None <=> answer.kind = "none"
        /\ answer = Failed <=> answer.kind = "failed"
        /\ answer.kind = "ready" => answer = Ready(answer.n)
        /\ None \in Answers /\ Pending \in Answers \ {None} /\ Failed \in Answers \ {None}
        /\ \A n \in 0..Longest : Ready(n) \in Answers \ {None}
<1>1. answer \in Answers /\ 0 \in 0..Longest
  BY Constants DEF ControlTypes
<1>2. /\ None \in Answers /\ Pending \in Answers \ {None} /\ Failed \in Answers \ {None}
      /\ \A n \in 0..Longest : Ready(n) \in Answers \ {None}
  BY DEF Answers, None, Pending, Failed, Ready
<1>3. CASE answer \in {None, Pending, Failed}
  BY <1>1, <1>2, <1>3 DEF None, Pending, Failed
<1>4. CASE \E n \in 0..Longest : answer = Ready(n)
  BY <1>2, <1>4 DEF None, Pending, Failed, Ready
<1> QED
  BY <1>1, <1>3, <1>4 DEF Answers

\* What a step does to the calls under way.
LEMMA Shapes ==
  ASSUME TypeOK, Fits, [Next]_vars
  PROVE /\ stack' = stack
        /\ \/ Stays
           \/ OwnersTurn
           \/ Poll
           \/ frames # <<>> /\ UNCHANGED call /\ (GoesOn \/ TailCall \/ CallsDown \/ ComesBack)
<1>0. EnvTypes /\ LayerTypes /\ ControlTypes /\ knob \in Knobs
  BY DEF TypeOK, EnvTypes
<1>a. /\ Pending \in Answers \ {None} /\ Failed \in Answers \ {None}
      /\ \A n \in 0..Longest : Ready(n) \in Answers \ {None}
      /\ answer.kind # "none" => answer \in Answers \ {None}
  BY <1>0, AnswerIs DEF ControlTypes
<1>b. 0 \in 0..Longest /\ 0 \in Rates \cup {0} /\ knob.rate \in Rates \cup {0} /\ Longest \in Nat
  BY <1>0, Constants DEF Knobs
<1>c. Steps = {"enter", "slice", "acquire", "refill", "drain"}
  BY DEF Steps
<1>d. /\ layer.injecting \in 0..Longest /\ layer.garbage \in 0..Longest
      /\ layer.owed \in 0..Longest /\ layer.bucket.nap \in Nat
  BY <1>0, LayerIs, Constants
<1>e. ASSUME frames # <<>> PROVE Top.len \in 0..Longest /\ Top.len <= Limit(Top.src)
  BY <1>0, <1>e, TopIs DEF Frames, Fits
<1>1. CASE UNCHANGED vars
  BY <1>1 DEF vars, env, control, owner, Stays
<1>2. CASE Environment
  <2>1. CASE SetSize \/ SetRate \/ SetDelay \/ SetCorrupt
    BY <2>1 DEF SetSize, SetRate, SetDelay, SetCorrupt, Set, Stays, control, owner
  <2>2. CASE Inject \/ Tick \/ PeerReads \/ Flush
    BY <2>2 DEF Inject, Tick, PeerReads, Flush, Stays, env, control, owner
  <2>3. CASE Offer("write") \/ Offer("vectored") \/ Shutdown \/ Abandon
    BY <2>3 DEF Offer, Shutdown, Abandon, Quiet, OwnersTurn, env, control
  <2> QED
    BY <1>2, <2>1, <2>2, <2>3 DEF Environment
<1>3. CASE Poll
  BY <1>3 DEF Poll, env
<1>4. CASE OwnerReady \/ OwnerPending \/ OwnerFails
  BY <1>4 DEF OwnerReady, OwnerPending, OwnerFails, OwnersTurn, env
<1>5. CASE PassUp \/ Fuse
  BY <1>5, <1>a DEF PassUp, Fuse, Running, At, Keeping, env, owner, ComesBack
<1>6. CASE InjectorReceives \/ CorrupterHits
  BY <1>6 DEF InjectorReceives, CorrupterHits, Keeping, env, owner, control, Stays
<1>7. CASE InjectorPasses \/ CorrupterMisses \/ SliceOff \/ ThrottleOff \/ DelayOff \/ DelayOver
  BY <1>7 DEF InjectorPasses, CorrupterMisses, SliceOff, ThrottleOff, DelayOff, DelayOver,
              Keeping, env, owner, Running, At
<1>8. CASE SliceOn \/ ThrottleOn \/ SliceResumes
  BY <1>8, <1>b, <1>c DEF SliceOn, ThrottleOn, SliceResumes, Keeping, env, owner, Running,
                          Resumed, At, GoesOn
<1>9. CASE SliceFlushed \/ SliceFlushWaits \/ SliceFlushFails \/ DelayArms \/ DelayWaits
           \/ ThrottleResumes
  BY <1>9, <1>a, <1>d DEF SliceFlushed, SliceFlushWaits, SliceFlushFails, DelayArms, DelayWaits,
                          ThrottleResumes, Keeping, env, owner, Running, Resumed, At, ComesBack
<1>10. CASE InjectorDrains
  <2>1. Asker(Top) = "WriteInjector" /\ Limit("WriteInjector") = layer.injecting
    BY <1>10, AskerAt DEF InjectorDrains, Running, Limit
  <2> QED
    BY <1>10, <1>d, <2>1 DEF InjectorDrains, Running, At, Keeping, env, owner, CallsDown, Calling
<1>11. CASE CorrupterDrains
  <2>1. Asker(Top) = "Corrupter" /\ Limit("Corrupter") = layer.garbage
    BY <1>11, AskerAt DEF CorrupterDrains, Running, Limit
  <2> QED
    BY <1>11, <1>d, <2>1 DEF CorrupterDrains, Running, At, Keeping, env, owner, CallsDown, Calling
<1>12. CASE InjectorResumes \/ CorrupterResumes
  BY <1>12, <1>a, <1>b, <1>c DEF InjectorResumes, CorrupterResumes, Resumed, At, Keeping, env,
                                 owner, GoesOn, ComesBack
<1>13. CASE SliceWrites
  <2>1. frames # <<>> /\ Asker(Top) = Top.src
    BY <1>13, AskerAt DEF SliceWrites, Running, At
  <2> DEFINE chunk == Least(Top.len, knob.size)
  <2>2. chunk \in 0..Longest /\ chunk <= Top.len /\ Top.len \in 0..Longest
    <3>1. knob.size \in Nat
      BY <1>0, Constants DEF Knobs
    <3> QED
      BY <1>b, <1>e, <2>1, <3>1, LeastOf
  <2>3. chunk <= Limit(Asker(Top))
    <3>1. Limit(Top.src) \in Int
      BY <1>0, <1>d, Constants DEF Limit, TypeOK, OwnerTypes
    <3> HIDE DEF chunk
    <3> QED
      BY <1>e, <2>1, <2>2, <3>1
  <2>4. Return(Ready(0)) \/ Call(Top.src, chunk)
    BY <1>13 DEF SliceWrites
  <2> HIDE DEF chunk
  <2> QED
    BY <1>13, <1>a, <1>b, <2>1, <2>2, <2>3, <2>4
       DEF SliceWrites, Running, At, Keeping, env, owner, CallsDown, ComesBack, Calling
<1>14. CASE Acquire
  <2>1. frames # <<>> /\ Asker(Top) = Top.src /\ At("ThrottledWriter")
    BY <1>14, AskerAt DEF Acquire, Running, At
  <2>2. \/ Return(Pending) \/ Return(Ready(0)) \/ Call(Top.src, Top.len)
        \/ knob.rate # 0 /\ Goto("refill", knob.rate)
    <3>1. Top.len \in Nat
      BY <1>b, <1>e, <2>1
    <3>2. CASE layer.bucket.nap > 0
      BY <1>14, <1>d, <3>2 DEF Acquire
    <3>3. CASE layer.bucket.nap = 0
      BY <1>14, <3>1, <3>3 DEF Acquire
    <3> QED
      BY <1>d, <3>2, <3>3
  <2> QED
    BY <1>14, <1>a, <1>b, <1>c, <1>e, <2>1, <2>2
       DEF Acquire, At, Keeping, env, owner, CallsDown, ComesBack, GoesOn, Calling
<1>15. CASE Grant
  <2>1. frames # <<>> /\ Asker(Top) = Top.src /\ At("ThrottledWriter")
    BY <1>15, AskerAt DEF Grant, Running, At
  <2> DEFINE bucket == Refilled(layer.bucket, knob.rate)
             grant == Least(Top.len, bucket.budget)
  <2>2. bucket.budget \in Nat
    <3>1. bucket \in Buckets(Rates)
      BY <1>0, LayerIs, BucketsStay, Constants DEF Knobs
    <3> QED
      BY <3>1, BucketFields, Constants
  <2> HIDE DEF bucket
  <2>3. grant \in 0..Longest /\ grant <= Top.len
    BY <1>b, <1>e, <2>1, <2>2, LeastOf
  <2>4. grant <= Limit(Asker(Top))
    <3>1. Limit(Top.src) \in Int
      BY <1>0, <1>d, Constants DEF Limit, TypeOK, OwnerTypes
    <3> HIDE DEF grant
    <3> QED
      BY <1>b, <1>e, <2>1, <2>3, <3>1
  <2>5. Return(Pending) \/ Call(Top.src, grant)
    BY <1>15 DEF Grant, bucket
  <2> HIDE DEF grant
  <2>6. UNCHANGED <<layer.injecting, layer.garbage>>
    BY <1>0, <1>15 DEF Grant, LayerTypes
  <2> QED
    BY <1>15, <1>a, <2>1, <2>3, <2>4, <2>5, <2>6
       DEF Grant, At, Keeping, env, owner, CallsDown, ComesBack, Calling
<1>16. CASE Sink
  BY <1>16, <1>a, <1>b DEF Sink, SinkTakes, SinkWaits, SinkShuts, SinkFails, AtSink, Keeping, env,
                     owner, ComesBack
<1> QED
  BY <1>1, <1>2, <1>3, <1>4, <1>5, <1>6, <1>7, <1>8, <1>9, <1>10, <1>11, <1>12, <1>13, <1>14,
     <1>15, <1>16 DEF Next, TaskStep, Adapter

\* At an injector or corrupter no call under way serves its bytes.
LEMMA OwnBytesOver ==
  ASSUME EnvTypes, ControlTypes, Chosen, Chain, NEW k \in {"WriteInjector", "Corrupter"}, At(k)
  PROVE \A i \in DOMAIN frames : frames[i].src # k
<1> SUFFICES ASSUME NEW i \in DOMAIN frames, frames[i].src = k PROVE FALSE
  OBVIOUS
<1>1. PICK j \in 1..(i - 1) : frames[j].at \in DOMAIN stack /\ stack[frames[j].at] = k
  BY DEF Chain
<1>2. /\ Len(frames) \in DOMAIN frames /\ Top = frames[Len(frames)]
      /\ Top.at \in DOMAIN stack /\ stack[Top.at] = k
      /\ DOMAIN frames = 1..Len(frames) /\ Len(frames) \in Nat
  BY TopIs DEF At, ControlTypes
<1>3. Top.at = frames[j].at
  BY <1>1, <1>2, Alone
<1>4. j \in 1..(Len(frames) - 1)
  BY <1>1, <1>2
<1>5. frames[j].at < frames[Len(frames)].at
  BY <1>2, <1>4 DEF Chain
<1>6. frames[j].at \in Nat
  BY <1>1 DEF EnvTypes
<1>7. frames[j].at < Top.at
  BY <1>2, <1>5
<1> QED
  BY <1>3, <1>6, <1>7

\* No source runs short while a call serves it.
LEMMA LimitsKept ==
  ASSUME TypeOK, Chosen, Chain, [Next]_vars, frames # <<>>
  PROVE \A src \in Sources :
          (\E i \in DOMAIN frames : frames[i].src = src) => Limit(src) <= Limit(src)'
<1>0. EnvTypes /\ LayerTypes /\ ControlTypes
  BY DEF TypeOK
<1>a. /\ layer.injecting \in Nat /\ layer.garbage \in Nat /\ call.len \in Nat
      /\ layer.queue \in Seq(0..MaxPayload) /\ MaxPayload \in Nat
  <2>1. call.len \in 0..MaxBuf
    BY DEF TypeOK, OwnerTypes
  <2> QED
    BY <1>0, <2>1, LayerIs, Constants
<1>b. Sources = {"owner", "WriteInjector", "Corrupter"}
  BY DEF Sources
<1>c. ASSUME UNCHANGED <<call, layer.injecting, layer.garbage>>
      PROVE \A src \in Sources : Limit(src) <= Limit(src)'
  BY <1>a, <1>b, <1>c DEF Limit
<1>1. CASE InjectorReceives
  <2>1. /\ layer.injecting = 0 /\ layer'.injecting = Head(layer.queue)
        /\ UNCHANGED <<call, layer.garbage>>
    BY <1>0, <1>1 DEF InjectorReceives, Keeping, owner, LayerTypes
  <2>2. Head(layer.queue) \in Nat
    BY <1>1, <1>a DEF InjectorReceives
  <2> QED
    BY <1>a, <1>b, <2>1, <2>2 DEF Limit
<1>2. CASE CorrupterHits
  <2>1. PICK n \in Garbage : layer' = [layer EXCEPT !.garbage = n]
    BY <1>2 DEF CorrupterHits
  <2>2. /\ layer.garbage = 0 /\ layer'.garbage = n /\ n \in Nat
        /\ UNCHANGED <<call, layer.injecting>>
    BY <1>0, <1>2, <2>1, Constants DEF CorrupterHits, owner, LayerTypes, Garbage
  <2> QED
    BY <1>a, <1>b, <2>2 DEF Limit
<1>3. CASE InjectorResumes
  <2>1. UNCHANGED <<call, layer.garbage>> /\ At("WriteInjector")
    BY <1>0, <1>3 DEF InjectorResumes, Resumed, Keeping, owner, LayerTypes
  <2>2. \A i \in DOMAIN frames : frames[i].src # "WriteInjector"
    BY <1>0, <2>1, OwnBytesOver
  <2> QED
    BY <1>a, <1>b, <2>1, <2>2 DEF Limit
<1>4. CASE CorrupterResumes
  <2>1. UNCHANGED <<call, layer.injecting>> /\ At("Corrupter")
    BY <1>0, <1>4 DEF CorrupterResumes, Resumed, Keeping, owner, LayerTypes
  <2>2. \A i \in DOMAIN frames : frames[i].src # "Corrupter"
    BY <1>0, <2>1, OwnBytesOver
  <2> QED
    BY <1>a, <1>b, <2>1, <2>2 DEF Limit
<1>5. CASE ~(InjectorReceives \/ CorrupterHits \/ InjectorResumes \/ CorrupterResumes)
  <2>1. UNCHANGED <<call, layer.injecting, layer.garbage>>
    <3>1. CASE UNCHANGED vars
      BY <3>1 DEF vars, owner
    <3>2. CASE Environment
      BY <1>0, <3>2 DEF Environment, SetSize, SetRate, SetDelay, SetCorrupt, Set, Inject, Tick,
                        PeerReads, Flush, Offer, Shutdown, Abandon, Quiet, owner, LayerTypes
    <3>3. CASE Poll \/ OwnerReady \/ OwnerPending \/ OwnerFails
      BY <3>3 DEF Poll, OwnerReady, OwnerPending, OwnerFails, Quiet
    <3>4. CASE Adapter
      BY <1>0, <1>5, <3>4
         DEF Adapter, PassUp, Fuse, InjectorDrains, InjectorPasses, CorrupterDrains,
             CorrupterMisses, SliceOff, SliceOn, SliceWrites, SliceResumes, SliceFlushed,
             SliceFlushWaits, SliceFlushFails, ThrottleOff, ThrottleOn, Acquire, Grant,
             ThrottleResumes, DelayOff, DelayArms, DelayWaits, DelayOver, Keeping, owner,
             LayerTypes
    <3>5. CASE Sink
      BY <3>5 DEF Sink, SinkTakes, SinkWaits, SinkShuts, SinkFails, Keeping, owner
    <3> QED
      BY <3>1, <3>2, <3>3, <3>4, <3>5 DEF Next, TaskStep
  <2> QED
    BY <1>c, <2>1
<1> QED
  BY <1>1, <1>2, <1>3, <1>4, <1>5

\* What the adapters keep has its type.
LEMMA LayerNext ==
  ASSUME TypeOK, Chain, [Next]_vars
  PROVE LayerTypes'
<1>0. EnvTypes /\ LayerTypes /\ ControlTypes /\ knob \in Knobs
  BY DEF TypeOK, EnvTypes
<1>a. /\ layer.injecting \in 0..MaxPayload /\ layer.garbage \in 0..MaxPayload
      /\ layer.queue \in Seq(0..MaxPayload) /\ layer.bucket \in Buckets(Rates)
      /\ layer.timer \in Timers(Delays) /\ answer.n \in 0..Longest /\ MaxPayload \in Nat
      /\ 0 \in 0..Longest /\ Longest \in Nat /\ knob.rate \in Rates /\ knob.delay \in Delays
  <2>1. knob.rate \in Rates /\ knob.delay \in Delays
    BY <1>0 DEF Knobs
  <2>2. MaxPayload \in Nat /\ Longest \in Nat
    BY Constants
  <2>3. answer.n \in 0..Longest
    BY <1>0, AnswerIs
  <2>4. 0 \in 0..Longest
    BY <2>2
  <2>5. /\ layer.injecting \in 0..MaxPayload /\ layer.garbage \in 0..MaxPayload
        /\ layer.queue \in Seq(0..MaxPayload) /\ layer.bucket \in Buckets(Rates)
        /\ layer.timer \in Timers(Delays)
    BY <1>0, LayerIs
  <2> QED
    BY <2>1, <2>2, <2>3, <2>4, <2>5
<1> USE DEF LayerTypes
<1>1. CASE UNCHANGED layer
  BY <1>0, <1>1
<1>2. CASE Inject
  <2>1. PICK n \in 0..MaxPayload : layer' = [layer EXCEPT !.queue = Append(layer.queue, n)]
    BY <1>2 DEF Inject
  <2>2. Append(layer.queue, n) \in Seq(0..MaxPayload)
    BY <1>a
  <2> QED
    BY <1>0, <2>1, <2>2
<1>3. CASE Tick
  <2> DEFINE bucket == IF Has("ThrottledWriter") THEN Older(layer.bucket) ELSE layer.bucket
             timer == Closer(layer.timer)
  <2>1. layer' = [layer EXCEPT !.bucket = bucket, !.timer = timer]
    BY <1>3 DEF Tick
  <2>2. bucket \in Buckets(Rates) /\ timer \in Timers(Delays)
    BY <1>a, BucketsStay, TimersStay, Constants
  <2> HIDE DEF bucket, timer
  <2> QED
    BY <1>0, <2>1, <2>2
<1>4. CASE InjectorReceives
  <2>1. /\ Head(layer.queue) \in 0..MaxPayload /\ Tail(layer.queue) \in Seq(0..MaxPayload)
    BY <1>4, <1>a, HeadTailProperties DEF InjectorReceives
  <2>2. layer' = [layer EXCEPT !.injecting = Head(layer.queue), !.queue = Tail(layer.queue)]
    BY <1>4 DEF InjectorReceives
  <2> QED
    BY <1>0, <2>1, <2>2
<1>5. CASE InjectorResumes
  <2>1. answer.n \in 1..layer.injecting => layer.injecting - answer.n \in 0..MaxPayload
    BY <1>a
  <2> QED
    BY <1>0, <1>5, <2>1 DEF InjectorResumes
<1>6. CASE CorrupterHits
  <2>1. Garbage \subseteq 0..MaxPayload
    BY <1>a DEF Garbage
  <2> QED
    BY <1>0, <1>6, <2>1 DEF CorrupterHits
<1>7. CASE CorrupterResumes
  <2>1. answer.n \in 1..layer.garbage => layer.garbage - answer.n \in 0..MaxPayload
    BY <1>a
  <2> QED
    BY <1>0, <1>7, <2>1 DEF CorrupterResumes
<1>8. CASE SliceResumes
  BY <1>0, <1>a, <1>8 DEF SliceResumes
<1>9. CASE SliceFlushed
  BY <1>0, <1>a, <1>9 DEF SliceFlushed
<1>10. CASE Grant
  <2> DEFINE bucket == Refilled(layer.bucket, knob.rate)
  <2>1. bucket \in Buckets(Rates)
    BY <1>a, BucketsStay, Constants
  <2>2. Top.seen \in Nat \ {0}
    <3>1. Top.step = "refill" /\ frames # <<>>
      BY <1>10 DEF Grant, Running, At
    <3>2. Top.seen # 0 /\ Top.seen \in Rates \cup {0}
      BY <1>0, <3>1, TopIs DEF Chain, Frames
    <3> QED
      BY <3>2, Constants
  <2> HIDE DEF bucket
  <2>3. Napping(bucket, Top.seen) \in Buckets(Rates)
    BY <2>1, <2>2, BucketsStay, Constants
  <2>4. \/ layer' = [layer EXCEPT !.bucket = bucket]
        \/ layer' = [layer EXCEPT !.bucket = Napping(bucket, Top.seen)]
    BY <1>10 DEF Grant, bucket
  <2> QED
    BY <1>0, <2>1, <2>3, <2>4
<1>11. CASE ThrottleResumes
  <2>1. Spent(layer.bucket, answer.n) \in Buckets(Rates)
    <3>1. answer.n \in Nat
      BY <1>a
    <3> QED
      BY <1>a, <3>1, BucketsStay, Constants
  <2>2. layer' = [layer EXCEPT !.bucket = Spent(layer.bucket, answer.n)]
    BY <1>11 DEF ThrottleResumes
  <2> QED
    BY <1>0, <2>1, <2>2
<1>12. CASE DelayArms \/ DelayOver
  <2>1. Armed(knob.delay) \in Timers(Delays) /\ IdleTimer \in Timers(Delays)
    BY <1>a, TimersStay
  <2> QED
    BY <1>0, <1>12, <2>1 DEF DelayArms, DelayOver
<1> HIDE DEF LayerTypes
<1>13. CASE Environment /\ ~Inject /\ ~Tick
  BY <1>1, <1>13 DEF Environment, SetSize, SetRate, SetDelay, SetCorrupt, Set, PeerReads, Flush,
                     Offer, Shutdown, Abandon
<1>14. CASE Poll \/ OwnerReady \/ OwnerPending \/ OwnerFails \/ Sink
  BY <1>1, <1>14 DEF Poll, OwnerReady, OwnerPending, OwnerFails, Sink, SinkTakes, SinkWaits,
                     SinkShuts, SinkFails
<1>15. CASE PassUp \/ Fuse \/ InjectorDrains \/ InjectorPasses \/ CorrupterDrains
            \/ CorrupterMisses \/ SliceOff \/ SliceOn \/ SliceWrites \/ SliceFlushWaits
            \/ SliceFlushFails \/ ThrottleOff \/ ThrottleOn \/ Acquire \/ DelayOff \/ DelayWaits
  BY <1>1, <1>15
     DEF PassUp, Fuse, InjectorDrains, InjectorPasses, CorrupterDrains, CorrupterMisses, SliceOff,
         SliceOn, SliceWrites, SliceFlushWaits, SliceFlushFails, ThrottleOff, ThrottleOn, Acquire,
         DelayOff, DelayWaits
<1>16. CASE UNCHANGED vars
  BY <1>1, <1>16 DEF vars
<1> QED
  BY <1>2, <1>3, <1>4, <1>5, <1>6, <1>7, <1>8, <1>9, <1>10, <1>11, <1>12, <1>13, <1>14, <1>15,
     <1>16 DEF Next, TaskStep, Adapter

\* How much is on offer, by whom it is from.
LEMMA LimitIs ==
  ASSUME LayerTypes, OwnerTypes
  PROVE /\ \A src \in Sources : Limit(src) \in 0..Longest
        /\ Limit("owner") = call.len
        /\ Limit("WriteInjector") = layer.injecting
        /\ Limit("Corrupter") = layer.garbage
<1>1. call.len \in 0..Longest
  BY Constants DEF OwnerTypes
<1>2. layer.injecting \in 0..Longest /\ layer.garbage \in 0..Longest
  BY LayerIs, Constants
<1> QED
  BY <1>1, <1>2 DEF Limit, Sources

\* The innermost call moves on, or is replaced by one further down.
LEMMA ReplaceChains ==
  ASSUME EnvTypes, ControlTypes, Chain, frames # <<>>, NEW f \in Frames,
         frames' = Append(Callers, f), answer' = None, UNCHANGED <<stack, call>>,
         f.at \in Stops(stack, call.op), Top.at <= f.at,
         f.src = Top.src, f.len = Top.len, f.step = "refill" => f.seen # 0
  PROVE /\ Chain' /\ frames' \in Seq(Frames) /\ Len(frames') = Len(frames)
        /\ \A i \in DOMAIN frames : /\ frames'[i].src = frames[i].src
                                    /\ frames'[i].len = frames[i].len
<1> DEFINE n == Len(frames)
<1>1. /\ frames' \in Seq(Frames) /\ Len(frames') = n /\ frames' # <<>> /\ n \in Nat \ {0}
      /\ frames'[n] = f /\ \A i \in 1..(n - 1) : frames'[i] = frames[i]
  BY Replaces
<1>2. frames \in Seq(Frames) /\ DOMAIN frames = 1..n /\ DOMAIN frames' = 1..n /\ Top = frames[n]
  BY <1>1 DEF ControlTypes, Top
<1>3. /\ \A i \in 1..n : frames'[i].src = frames[i].src /\ frames'[i].len = frames[i].len
      /\ \A i \in 1..n : i < n \/ i = n
  BY <1>1, <1>2
<1>4. \A i \in 1..n : /\ frames[i].at \in Nat /\ frames'[i].at \in Nat
                      /\ frames[i].at <= frames'[i].at
                      /\ i < n => frames'[i].at = frames[i].at
  <2>1. \A g \in Frames : g.at \in Nat
    BY DEF Frames, EnvTypes
  <2> QED
    BY <1>1, <1>2, <1>3, <2>1
<1> HIDE DEF n
<1>c1. \A i \in 1..n : frames'[i].at \in Stops(stack, call.op)
  BY <1>1, <1>2, <1>3 DEF Chain
<1>c2. \A i \in 1..n : \A j \in 1..(i - 1) : frames'[j].at < frames'[i].at
  <2> SUFFICES ASSUME NEW i \in 1..n, NEW j \in 1..(i - 1) PROVE frames'[j].at < frames'[i].at
    OBVIOUS
  <2>1. j \in 1..n /\ j < n
    BY <1>1
  <2>2. frames[j].at < frames[i].at
    BY <1>2 DEF Chain
  <2>3. frames[i].at \in Nat /\ frames'[i].at \in Nat /\ frames[i].at <= frames'[i].at
    BY <1>4
  <2>4. frames[j].at \in Nat /\ frames'[j].at = frames[j].at
    <3>1. j \in 1..(n - 1)
      BY <1>1, <2>1
    <3>2. frames'[j] = frames[j]
      BY <1>1, <3>1
    <3>3. frames[j].at \in Nat
      BY <1>4, <2>1
    <3> QED
      BY <3>2, <3>3
  <2> DEFINE a == frames[j].at
             b == frames[i].at
             c == frames'[i].at
  <2>5. a \in Nat /\ b \in Nat /\ c \in Nat /\ a < b /\ b <= c
    BY <2>2, <2>3, <2>4
  <2> HIDE DEF a, b, c
  <2>6. a < c
    BY <2>5
  <2> QED
    BY <2>4, <2>6 DEF a, c
<1>c3. \A i \in 1..n : frames'[i].src # "owner" =>
         \E j \in 1..(i - 1) : frames'[j].at \in DOMAIN stack /\ stack[frames'[j].at] = frames'[i].src
  <2> SUFFICES ASSUME NEW i \in 1..n, frames'[i].src # "owner"
               PROVE \E j \in 1..(i - 1) : /\ frames'[j].at \in DOMAIN stack
                                           /\ stack[frames'[j].at] = frames'[i].src
    OBVIOUS
  <2>1. PICK j \in 1..(i - 1) : frames[j].at \in DOMAIN stack /\ stack[frames[j].at] = frames[i].src
    BY <1>2, <1>3 DEF Chain
  <2>2. j \in 1..n /\ j < n
    BY <1>1
  <2> QED
    BY <1>3, <1>4, <2>1, <2>2
<1>c4. \A i \in 1..(n - 1) : frames'[i + 1].src = Asker(frames'[i])
  <2> SUFFICES ASSUME NEW i \in 1..(n - 1) PROVE frames'[i + 1].src = Asker(frames'[i])
    OBVIOUS
  <2>1. i + 1 \in 1..n /\ frames'[i] = frames[i] /\ frames[i + 1].src = Asker(frames[i])
    BY <1>1 DEF Chain, n
  <2> QED
    BY <1>3, <2>1
<1>c5. \A i \in 1..n : i < n => frames'[i].at \in DOMAIN stack /\ stack[frames'[i].at] \in Calling
  BY <1>2, <1>4 DEF Chain, n
<1>c6. \A i \in 1..n : frames'[i].step = "refill" => frames'[i].seen # 0
  BY <1>1, <1>2, <1>3 DEF Chain
<1>c7. frames'[1].len = call.len
  BY <1>1, <1>3 DEF Chain
<1>5. Chain'
  <2>1. \A i \in 1..(n - 1) : frames'[i + 1].src = Asker(frames[i])'
    BY <1>c4 DEF Asker
  <2> QED
    BY <1>1, <1>2, <1>c1, <1>c2, <1>c3, <2>1, <1>c5, <1>c6, <1>c7 DEF Chain
<1> QED
  BY <1>1, <1>2, <1>3, <1>5 DEF n

\* The innermost call makes another.
LEMMA PushChains ==
  ASSUME EnvTypes, ControlTypes, Chain, frames # <<>>, NEW f \in Frames,
         frames' = Append(frames, f), answer' = None, UNCHANGED <<stack, call>>,
         Top.at \in DOMAIN stack, stack[Top.at] \in Calling,
         f.at \in Stops(stack, call.op), Top.at < f.at, f.src = Asker(Top), f.step = "enter"
  PROVE Chain'
<1> DEFINE n == Len(frames)
<1>1. /\ frames' \in Seq(Frames) /\ Len(frames') = n + 1 /\ frames' # <<>>
      /\ frames'[n + 1] = f /\ \A i \in 1..n : frames'[i] = frames[i]
  BY Pushes
<1>2. /\ n \in Nat \ {0} /\ frames \in Seq(Frames) /\ DOMAIN frames = 1..n
      /\ DOMAIN frames' = 1..(n + 1) /\ Top = frames[n]
  BY <1>1, EmptySeq DEF ControlTypes, Top
<1>3. \A i \in 1..n : frames[i].at \in Nat
  <2>1. \A g \in Frames : g.at \in Nat
    BY DEF Frames, EnvTypes
  <2> QED
    BY <1>2, <2>1
<1>4. f.at \in Nat /\ n \in 1..n /\ \A i \in 1..(n + 1) : i \in 1..n \/ i = n + 1
  BY <1>2 DEF Frames, EnvTypes
<1> HIDE DEF n
<1>c1. \A i \in 1..(n + 1) : frames'[i].at \in Stops(stack, call.op)
  BY <1>1, <1>2, <1>4 DEF Chain
<1>c2. \A i \in 1..(n + 1) : \A j \in 1..(i - 1) : frames'[j].at < frames'[i].at
  <2> SUFFICES ASSUME NEW i \in 1..(n + 1), NEW j \in 1..(i - 1)
               PROVE frames'[j].at < frames'[i].at
    OBVIOUS
  <2>1. j \in 1..n /\ frames'[j] = frames[j]
    BY <1>1, <1>2
  <2>2. CASE i \in 1..n
    BY <1>1, <1>2, <2>1, <2>2 DEF Chain
  <2>3. CASE i = n + 1
    <3>1. frames[j].at <= frames[n].at
      <4>1. j = n \/ j \in 1..(n - 1)
        BY <1>2, <2>1
      <4>2. CASE j = n
        BY <1>3, <1>4, <4>2
      <4>3. CASE j \in 1..(n - 1)
        <5>1. frames[j].at < frames[n].at
          BY <1>2, <1>4, <4>3 DEF Chain
        <5> QED
          BY <1>3, <1>4, <2>1, <5>1
      <4> QED
        BY <4>1, <4>2, <4>3
    <3> QED
      BY <1>1, <1>2, <1>3, <1>4, <2>1, <2>3, <3>1
  <2> QED
    BY <1>4, <2>2, <2>3
<1>c3. \A i \in 1..(n + 1) : frames'[i].src # "owner" =>
         \E j \in 1..(i - 1) : frames'[j].at \in DOMAIN stack /\ stack[frames'[j].at] = frames'[i].src
  <2> SUFFICES ASSUME NEW i \in 1..(n + 1), frames'[i].src # "owner"
               PROVE \E j \in 1..(i - 1) : /\ frames'[j].at \in DOMAIN stack
                                           /\ stack[frames'[j].at] = frames'[i].src
    OBVIOUS
  <2>1. ASSUME NEW m \in 1..n, frames[m].src # "owner"
        PROVE \E j \in 1..(m - 1) : /\ j \in 1..n /\ frames'[j].at \in DOMAIN stack
                                    /\ stack[frames'[j].at] = frames[m].src
    <3>1. PICK j \in 1..(m - 1) : frames[j].at \in DOMAIN stack /\ stack[frames[j].at] = frames[m].src
      BY <1>2, <2>1 DEF Chain
    <3>2. j \in 1..n
      BY <1>2
    <3> QED
      BY <1>1, <3>1, <3>2
  <2>2. CASE i \in 1..n
    BY <1>1, <2>1, <2>2
  <2>3. CASE i = n + 1
    <3>1. frames'[i].src = Asker(frames[n]) /\ n \in 1..(i - 1)
      BY <1>1, <1>2, <2>3
    <3>2. CASE stack[Top.at] \in {"WriteInjector", "Corrupter"}
      <4>1. Asker(frames[n]) = stack[frames[n].at] /\ frames'[n] = frames[n]
        BY <1>1, <1>2, <1>4, <3>2 DEF Asker
      <4> QED
        BY <1>2, <3>1, <4>1
    <3>3. CASE stack[Top.at] \notin {"WriteInjector", "Corrupter"}
      <4>1. Asker(frames[n]) = frames[n].src
        BY <1>2, <3>3 DEF Asker
      <4>2. PICK j \in 1..(n - 1) : /\ j \in 1..n /\ frames'[j].at \in DOMAIN stack
                                    /\ stack[frames'[j].at] = frames[n].src
        BY <1>4, <2>1, <3>1, <4>1
      <4>3. j \in 1..(i - 1)
        BY <1>2, <2>3
      <4> QED
        BY <3>1, <4>1, <4>2, <4>3
    <3> QED
      BY <3>2, <3>3
  <2> QED
    BY <1>4, <2>2, <2>3
<1>c4. \A i \in 1..n : frames'[i + 1].src = Asker(frames'[i])
  <2> SUFFICES ASSUME NEW i \in 1..n PROVE frames'[i + 1].src = Asker(frames'[i])
    OBVIOUS
  <2>1. CASE i = n
    BY <1>1, <1>2, <2>1
  <2>2. CASE i \in 1..(n - 1)
    <3>1. i + 1 \in 1..n /\ frames[i + 1].src = Asker(frames[i])
      BY <1>2, <2>2 DEF Chain, n
    <3> QED
      BY <1>1, <3>1
  <2> QED
    BY <1>2, <2>1, <2>2
<1>c5. \A i \in 1..n : frames'[i].at \in DOMAIN stack /\ stack[frames'[i].at] \in Calling
  <2> SUFFICES ASSUME NEW i \in 1..n
               PROVE frames'[i].at \in DOMAIN stack /\ stack[frames'[i].at] \in Calling
    OBVIOUS
  <2>1. CASE i = n
    BY <1>1, <1>2, <2>1
  <2>2. CASE i < n
    BY <1>1, <1>2, <2>2 DEF Chain, n
  <2> QED
    BY <1>2, <2>1, <2>2
<1>c6. \A i \in 1..(n + 1) : frames'[i].step = "refill" => frames'[i].seen # 0
  BY <1>1, <1>2, <1>4 DEF Chain
<1>c7. frames'[1].len = call.len
  <2>1. 1 \in 1..n
    BY <1>2
  <2> QED
    BY <1>1, <2>1 DEF Chain
<1>5. \A i \in 1..(n + 1) : i < n + 1 => i \in 1..n
  BY <1>2
<1>6. (n + 1) - 1 = n
  BY <1>2
<1> QED
  BY <1>1, <1>2, <1>5, <1>6, <1>c1, <1>c2, <1>c3, <1>c4, <1>c5, <1>c6, <1>c7 DEF Chain, Asker

\* The innermost call comes back.
LEMMA PopChains ==
  ASSUME EnvTypes, ControlTypes, Chain, frames # <<>>, frames' = Callers,
         UNCHANGED <<stack, call>>
  PROVE Chain'
<1> DEFINE n == Len(frames)
<1>1. /\ frames' \in Seq(Frames) /\ Len(frames') = n - 1 /\ n \in Nat \ {0}
      /\ \A i \in 1..(n - 1) : frames'[i] = frames[i]
      /\ frames' = <<>> <=> n = 1
  BY Pops
<1>2. DOMAIN frames = 1..n /\ DOMAIN frames' = 1..(n - 1)
  BY <1>1 DEF ControlTypes
<1>3. /\ \A i \in 1..(n - 1) : i \in 1..n /\ i < n /\ \A j \in 1..(i - 1) : j \in 1..(n - 1)
      /\ \A i \in 1..((n - 1) - 1) : i \in 1..(n - 1) /\ i + 1 \in 1..(n - 1)
  BY <1>1
<1> HIDE DEF n
<1>c1. \A i \in 1..(n - 1) : frames'[i].at \in Stops(stack, call.op)
  BY <1>1, <1>2, <1>3 DEF Chain
<1>c2. \A i \in 1..(n - 1) : \A j \in 1..(i - 1) : frames'[j].at < frames'[i].at
  BY <1>1, <1>2, <1>3 DEF Chain
<1>c3. \A i \in 1..(n - 1) : frames'[i].src # "owner" =>
         \E j \in 1..(i - 1) : frames'[j].at \in DOMAIN stack /\ stack[frames'[j].at] = frames'[i].src
  BY <1>1, <1>2, <1>3 DEF Chain
<1>c4. \A i \in 1..((n - 1) - 1) : frames'[i + 1].src = Asker(frames'[i])
  BY <1>1, <1>2, <1>3 DEF Chain, n
<1>c5. \A i \in 1..(n - 1) : frames'[i].at \in DOMAIN stack /\ stack[frames'[i].at] \in Calling
  BY <1>1, <1>2, <1>3 DEF Chain, n
<1>c6. \A i \in 1..(n - 1) : frames'[i].step = "refill" => frames'[i].seen # 0
  BY <1>1, <1>2, <1>3 DEF Chain
<1>c7. frames' # <<>> => frames'[1].len = call.len
  <2>1. frames' # <<>> => 1 \in 1..(n - 1)
    BY <1>1
  <2> QED
    BY <1>1, <2>1 DEF Chain
<1> QED
  BY <1>1, <1>2, <1>c1, <1>c2, <1>c3, <1>c4, <1>c5, <1>c6, <1>c7 DEF Chain, Asker

\* The owner's buffer has its type.
LEMMA BufferNext ==
  ASSUME TypeOK, [Next]_vars
  PROVE call'.len \in 0..MaxBuf
<1>0. call.len \in 0..MaxBuf /\ 0 \in 0..MaxBuf /\ MaxBuf \in Nat
  BY Constants DEF TypeOK, OwnerTypes
<1>a. \A l \in 0..MaxBuf : \A o, t, x : /\ [call EXCEPT !.state = t].len = call.len
                                      /\ [call EXCEPT !.op = o, !.state = t, !.len = l].len = l
                                      /\ [call EXCEPT !.state = t, !.len = l, !.next = x].len = l
                                      /\ [call EXCEPT !.op = o, !.state = t].len = call.len
  BY DEF TypeOK, OwnerTypes
<1>1. ASSUME NEW o, Offer(o) PROVE call'.len \in 0..MaxBuf
  <2>1. PICK l \in (call.len + 1)..MaxBuf : call' = [call EXCEPT !.op = o, !.state = "pending", !.len = l]
    BY <1>1 DEF Offer
  <2>2. l \in 0..MaxBuf
    BY <1>0
  <2> QED
    BY <1>a, <2>1, <2>2
<1>2. CASE Shutdown \/ Abandon \/ OwnerReady \/ OwnerFails
  <2>1. CASE Shutdown
    BY <1>0, <1>a, <2>1 DEF Shutdown
  <2>2. CASE Abandon
    <3>1. PICK skipped \in {0, call.len} :
            call' = [call EXCEPT !.state = "idle", !.len = 0, !.next = call.next + skipped]
      BY <2>2 DEF Abandon
    <3> QED
      BY <1>0, <3>1 DEF TypeOK, OwnerTypes
  <2>3. CASE OwnerReady
    BY <1>0, <2>3 DEF OwnerReady, TypeOK, OwnerTypes
  <2>4. CASE OwnerFails
    BY <1>0, <1>a, <2>4 DEF OwnerFails
  <2> QED
    BY <1>2, <2>1, <2>2, <2>3, <2>4
<1>3. CASE UNCHANGED call
  BY <1>0, <1>3
<1>4. CASE Poll \/ OwnerPending
  BY <1>3, <1>4 DEF Poll, OwnerPending, owner
<1>5. CASE Environment /\ ~Offer("write") /\ ~Offer("vectored") /\ ~Shutdown /\ ~Abandon
  BY <1>3, <1>5 DEF Environment, SetSize, SetRate, SetDelay, SetCorrupt, Set, Inject, Tick,
                    PeerReads, Flush, owner
<1>6. CASE UNCHANGED vars
  BY <1>3, <1>6 DEF vars, owner
<1>7. CASE Adapter \/ Sink
  BY <1>7 DEF Adapter, PassUp, Fuse, InjectorDrains, InjectorReceives, InjectorPasses,
         InjectorResumes, CorrupterDrains, CorrupterHits, CorrupterMisses, CorrupterResumes,
         SliceOff, SliceOn, SliceWrites, SliceResumes, SliceFlushed, SliceFlushWaits,
         SliceFlushFails, ThrottleOff, ThrottleOn, Acquire, Grant, ThrottleResumes, DelayOff,
         DelayArms, DelayWaits, DelayOver, Keeping, owner, Sink, SinkTakes, SinkWaits,
         SinkShuts, SinkFails, OwnerTypes, TypeOK
<1> QED
  BY <1>1, <1>2, <1>4, <1>5, <1>6, <1>7 DEF Next, TaskStep, Environment

\* The chain keeps its shape, and nobody is asked for more than there is.
LEMMA ChainNext ==
  ASSUME TypeOK, Chosen, Owning, Chain, Fits, [Next]_vars
  PROVE Chain' /\ Fits' /\ ControlTypes'
<1>0. /\ EnvTypes /\ LayerTypes /\ ControlTypes /\ OwnerTypes
      /\ stack' = stack /\ Frames' = Frames /\ Answers' = Answers
  BY Shapes DEF TypeOK, Frames, Answers
<1>a. /\ DOMAIN frames = 1..Len(frames) /\ Len(frames) \in Nat
      /\ \A i \in DOMAIN frames : frames[i].src \in Sources /\ frames[i].len \in Nat
  <2>1. /\ DOMAIN frames = 1..Len(frames) /\ Len(frames) \in Nat
        /\ \A i \in DOMAIN frames : frames[i] \in Frames
    BY <1>0 DEF ControlTypes
  <2>2. \A f \in Frames : f.src \in Sources /\ f.len \in Nat
    BY <1>0, Constants DEF Frames
  <2> QED
    BY <2>1, <2>2
<1>b. \A src \in Sources : Limit(src) \in Nat /\ Limit(src)' \in Nat
  <2>1. layer'.injecting \in Nat /\ layer'.garbage \in Nat /\ call'.len \in Nat
    BY LayerNext, BufferNext, Constants DEF LayerTypes
  <2>2. \A src \in Sources : Limit(src)' \in Nat
    BY <2>1 DEF Limit
  <2>3. \A src \in Sources : Limit(src) \in Nat
    BY <1>0, LimitIs, Constants
  <2> QED
    BY <2>2, <2>3
<1>c. ASSUME frames # <<>>, NEW i \in DOMAIN frames, NEW src, src = frames[i].src
      PROVE frames[i].len <= Limit(src)'
  <2>1. src \in Sources /\ Limit(src) <= Limit(src)' /\ frames[i].len <= Limit(src)
    BY <1>a, <1>c, LimitsKept DEF Fits
  <2> QED
    BY <1>a, <1>b, <2>1
<1>d. ASSUME Len(frames') = Len(frames), frames' \in Seq(Frames), frames # <<>>,
             \A i \in DOMAIN frames : /\ frames'[i].src = frames[i].src
                                      /\ frames'[i].len = frames[i].len
      PROVE Fits'
  <2> SUFFICES ASSUME NEW i \in DOMAIN frames', NEW src, src = frames'[i].src
               PROVE frames'[i].len <= Limit(src)'
    BY DEF Fits, Limit
  <2>1. i \in DOMAIN frames
    BY <1>a, <1>d
  <2>2. src = frames[i].src /\ frames'[i].len = frames[i].len
    BY <1>d, <2>1
  <2>3. frames[i].len <= Limit(src)'
    BY <1>c, <1>d, <2>1, <2>2
  <2> QED
    BY <2>2, <2>3
<1>1. CASE Stays
  <2>1. Chain' /\ ControlTypes'
    BY <1>0, <1>1 DEF Stays, Chain, ControlTypes, Asker
  <2>2. CASE frames = <<>>
    BY <1>1, <1>a, <2>1, <2>2 DEF Stays, Fits
  <2>3. CASE frames # <<>>
    BY <1>0, <1>1, <1>d, <2>1, <2>3 DEF Stays, ControlTypes
  <2> QED
    BY <2>2, <2>3
<1>2. CASE OwnersTurn
  <2>1. DOMAIN frames' = {} /\ frames' = <<>> /\ frames' \in Seq(Frames)
    BY <1>2 DEF OwnersTurn
  <2>2. answer' \in Answers
    BY <1>0, <1>2, AnswerIs DEF OwnersTurn, ControlTypes
  <2> QED
    BY <1>0, <2>1, <2>2 DEF Chain, Fits, ControlTypes
<1>3. CASE Poll
  <2>1. PICK f \in Entered(0, "owner", call.len) : frames' = <<f>>
    BY <1>3 DEF Poll
  <2>2. call.len \in 0..Longest /\ "owner" \in Sources /\ 0 \in Nat
    BY <1>0, Constants DEF OwnerTypes, Sources
  <2>3. /\ f \in Frames /\ f.src = "owner" /\ f.len = call.len /\ f.step = "enter"
        /\ f.at \in Stops(stack, call.op)
    BY <1>0, <2>1, <2>2, EnteredIs
  <2>4. /\ answer' = None /\ UNCHANGED <<layer, call>> /\ frames' \in Seq(Frames)
        /\ Len(frames') = 1 /\ DOMAIN frames' = {1} /\ frames'[1] = f
    BY <1>3, <2>1, <2>3 DEF Poll, Quiet, owner
  <2>5. ControlTypes'
    BY <1>0, <2>4, AnswerIs DEF ControlTypes
  <2>6. Fits'
    <3>1. call.len \in Nat
      BY <2>2, Constants
    <3> QED
      BY <2>3, <2>4, <3>1 DEF Fits, Limit
  <2>7. Chain'
    BY <1>0, <2>3, <2>4 DEF Chain
  <2> QED
    BY <2>5, <2>6, <2>7
<1>4. CASE frames # <<>> /\ UNCHANGED call /\ GoesOn
  <2>1. PICK step \in Steps, seen \in Rates \cup {0} :
          (step = "refill" => seen # 0) /\ Goto(step, seen)
    BY <1>4 DEF GoesOn
  <2> DEFINE f == [Top EXCEPT !.step = step, !.seen = seen]
  <2>2. Top \in Frames /\ Top.at \in Nat /\ Top.at \in Stops(stack, call.op)
    BY <1>0, <1>4, TopIs DEF Frames, EnvTypes, Chain
  <2>3. /\ f \in Frames /\ f.at = Top.at /\ f.src = Top.src /\ f.len = Top.len
        /\ f.step = step /\ f.seen = seen
    BY <2>2 DEF Frames
  <2>4. frames' = Append(Callers, f) /\ answer' = None
    BY <2>1 DEF Goto
  <2>5. Top.at <= f.at
    BY <2>2, <2>3
  <2> HIDE DEF f
  <2>6. /\ Chain' /\ frames' \in Seq(Frames) /\ Len(frames') = Len(frames)
        /\ \A i \in DOMAIN frames : /\ frames'[i].src = frames[i].src
                                    /\ frames'[i].len = frames[i].len
    BY <1>0, <1>4, <2>1, <2>2, <2>3, <2>4, <2>5, ReplaceChains
  <2> QED
    BY <1>0, <1>4, <1>d, <2>4, <2>6, AnswerIs DEF ControlTypes
<1>5. CASE frames # <<>> /\ UNCHANGED call /\ TailCall
  <2>1. PICK f \in Entered(Top.at, Top.src, Top.len) : frames' = Append(Callers, f)
    BY <1>5 DEF TailCall
  <2>2. /\ Top.at \in Nat /\ Top.src \in Sources /\ Top.len \in 0..Longest
    BY <1>0, <1>5, TopIs DEF Frames, EnvTypes
  <2>3. /\ f \in Frames /\ f.src = Top.src /\ f.len = Top.len /\ f.step = "enter"
        /\ f.at \in Stops(stack, call.op) /\ Top.at < f.at /\ f.at \in Nat
    BY <1>0, <2>1, <2>2, EnteredIs DEF Frames, EnvTypes
  <2>4. answer' = None /\ Top.at <= f.at
    BY <1>5, <2>2, <2>3 DEF TailCall
  <2>5. /\ Chain' /\ frames' \in Seq(Frames) /\ Len(frames') = Len(frames)
        /\ \A i \in DOMAIN frames : /\ frames'[i].src = frames[i].src
                                    /\ frames'[i].len = frames[i].len
    BY <1>0, <1>5, <2>1, <2>3, <2>4, ReplaceChains
  <2> QED
    BY <1>0, <1>5, <1>d, <2>4, <2>5, AnswerIs DEF ControlTypes
<1>6. CASE frames # <<>> /\ UNCHANGED call /\ CallsDown
  <2>1. PICK n \in 0..Longest : n <= Limit(Asker(Top)) /\ Call(Asker(Top), n)
    BY <1>6 DEF CallsDown
  <2>2. PICK f \in Entered(Top.at, Asker(Top), n) : frames' = Append(frames, f)
    BY <2>1 DEF Call
  <2>3. /\ Top.at \in Nat /\ Asker(Top) \in Sources
    BY <1>0, <1>6, TopIs DEF Frames, EnvTypes, Asker, Sources
  <2>4. /\ f \in Frames /\ f.src = Asker(Top) /\ f.len = n /\ f.step = "enter"
        /\ f.at \in Stops(stack, call.op) /\ Top.at < f.at
    BY <1>0, <2>2, <2>3, EnteredIs
  <2>5. answer' = None /\ Top.at \in DOMAIN stack /\ stack[Top.at] \in Calling
    BY <1>6, <2>1 DEF CallsDown, Call
  <2>6. Chain'
    BY <1>0, <1>6, <2>2, <2>4, <2>5, PushChains
  <2>7. /\ frames' \in Seq(Frames) /\ Len(frames') = Len(frames) + 1
        /\ frames'[Len(frames) + 1] = f /\ \A i \in 1..Len(frames) : frames'[i] = frames[i]
    BY <1>0, <2>2, <2>4, Pushes
  <2>8. Fits'
    <3> SUFFICES ASSUME NEW i \in DOMAIN frames', NEW src, src = frames'[i].src
                 PROVE frames'[i].len <= Limit(src)'
      BY DEF Fits, Limit
    <3>1. CASE i \in DOMAIN frames
      <4>1. frames'[i] = frames[i]
        BY <1>a, <2>7, <3>1
      <4> QED
        BY <1>6, <1>c, <3>1, <4>1
    <3>2. CASE i = Len(frames) + 1
      <4>1. frames'[i].len = n /\ src = Asker(Top)
        BY <2>4, <2>7, <3>2
      <4>2. Limit(src)' = Limit(src)
        BY <1>6 DEF CallsDown, Limit
      <4> QED
        BY <2>1, <4>1, <4>2
    <3> QED
      BY <1>a, <2>7, <3>1, <3>2
  <2> QED
    BY <1>0, <2>5, <2>6, <2>7, <2>8, AnswerIs DEF ControlTypes
<1>7. CASE frames # <<>> /\ UNCHANGED call /\ ComesBack
  <2>1. PICK result \in Answers \ {None} : Return(result)
    BY <1>7 DEF ComesBack
  <2>2. frames' = Callers /\ answer' \in Answers
    BY <2>1 DEF Return
  <2>3. Chain'
    BY <1>0, <1>7, <2>2, PopChains
  <2>4. /\ frames' \in Seq(Frames) /\ Len(frames') = Len(frames) - 1
        /\ \A i \in 1..(Len(frames) - 1) : frames'[i] = frames[i]
    BY <1>0, <1>7, <2>2, Pops
  <2>5. Fits'
    <3> SUFFICES ASSUME NEW i \in DOMAIN frames', NEW src, src = frames'[i].src
                 PROVE frames'[i].len <= Limit(src)'
      BY DEF Fits, Limit
    <3>1. i \in 1..(Len(frames) - 1)
      BY <1>7, <2>4, <1>a
    <3>2. i \in DOMAIN frames /\ frames'[i] = frames[i]
      BY <1>a, <2>4, <3>1
    <3> QED
      BY <1>7, <1>c, <3>2
  <2> QED
    BY <1>0, <2>2, <2>3, <2>4, <2>5 DEF ControlTypes
<1> QED
  BY <1>1, <1>2, <1>3, <1>4, <1>5, <1>6, <1>7, Shapes

-----------------------------------------------------------------------------
(* Slices that wait for their flush.                                        *)

\* Where a flush may wait, nothing above the slicer writes bytes of its own: the
\* number the slicer has put aside is the owner's.
Unmixed ==
  \A s \in Setups : s.stack \in Buffered =>
    \A i \in DOMAIN s.stack : s.stack[i] = "SlicedWriter" =>
      /\ Careful
      /\ \A j \in 1..(i - 1) : s.stack[j] \notin {"WriteInjector", "Corrupter"}

\* The stream has failed: nobody looks at what is in flight.
Broken == answer = Failed \/ call.state = "failed"

\* The slicer has seen a size and waits for the sink.
Slicing(i) ==
  /\ frames[i].at \in DOMAIN stack /\ stack[frames[i].at] = "SlicedWriter"
  /\ i < Len(frames) \/ answer # None \/ frames[i].step = "slice"

\* The size it saw is still not 0.
SizeKept ==
  stack \in Buffered /\ (layer.flushing \/ \E i \in DOMAIN frames : Slicing(i))
    => knob.size # 0

\* A flush is due from one poll to another: the owner still has its write
\* pending, and its next poll is on the way to the slicer.
Carried ==
  /\ stack \in Buffered /\ call.state = "pending" /\ call.op # "shutdown"
  /\ answer # None => answer = Pending
  /\ \E i \in DOMAIN stack :
       /\ stack[i] = "SlicedWriter"
       /\ frames # <<>> => Top.at <= i /\ Top.len > 0 /\ (answer # None => Top.at < i)

FlushDue ==
  layer.flushing /\ ~Broken => Running("SlicedWriter", "slice") \/ Carried

\* Who acts on what.
LEMMA WhoActs ==
  /\ ActsOn["WriteInjector"] = {"write"} /\ "write" \in ActsOn["Corrupter"]
  /\ "vectored" \notin ActsOn["Corrupter"] /\ "shutdown" \notin ActsOn["Corrupter"]
  /\ ActsOn["SlicedWriter"] = {"write", "vectored"}
  /\ ActsOn["ThrottledWriter"] = {"write", "vectored"}
  /\ ActsOn["DelayedWriter"] = {"write", "vectored", "shutdown"}
BY DEF ActsOn, WriteInjectorActsOn, CorrupterActsOn, SlicedWriterActsOn, ThrottledWriterActsOn,
       DelayedWriterActsOn

\* What has failed stays so.
LEMMA BrokenStays ==
  ASSUME ControlTypes, OwnerTypes, Owning, Broken, [Next]_vars
  PROVE Broken'
<1>0. /\ answer = Failed \/ (call.state = "failed" /\ answer = None /\ frames = <<>>)
      /\ answer = Failed => call.state = "pending" /\ answer # None /\ answer.kind = "failed"
  <2>1. answer = Failed => answer # None /\ answer.kind = "failed"
    BY DEF None, Failed
  <2>2. call.state = "failed" => answer = None /\ frames = <<>>
    BY DEF Owning
  <2> QED
    BY <2>1, <2>2 DEF Broken, Owning
<1> USE DEF Broken
<1>1. CASE Environment
  <2>1. ~Offer("write") /\ ~Offer("vectored") /\ ~Shutdown /\ ~Abandon
    BY <1>0 DEF Offer, Shutdown, Abandon, Quiet
  <2> QED
    BY <1>1, <2>1 DEF Environment, SetSize, SetRate, SetDelay, SetCorrupt, Set, Inject, Tick,
                      PeerReads, Flush, owner, control
<1>2. CASE Poll \/ OwnerReady \/ OwnerPending \/ OwnerFails \/ Sink
  <2>1. ~Poll /\ ~OwnerReady /\ ~OwnerPending /\ ~Sink
    BY <1>0 DEF Poll, OwnerReady, OwnerPending, Quiet, Sink, SinkTakes, SinkWaits, SinkShuts,
                SinkFails, AtSink, Pending, None
  <2> QED
    BY <1>2, <2>1 DEF OwnerFails, OwnerTypes
<1>3. CASE Adapter
  <2>1. PassUp
    BY <1>0, <1>3 DEF Adapter, Fuse, InjectorDrains, InjectorReceives, InjectorPasses,
         InjectorResumes, CorrupterDrains, CorrupterHits, CorrupterMisses, CorrupterResumes,
         SliceOff, SliceOn, SliceWrites, SliceResumes, SliceFlushed, SliceFlushWaits,
         SliceFlushFails, ThrottleOff, ThrottleOn, Acquire, Grant, ThrottleResumes, DelayOff,
         DelayArms, DelayWaits, DelayOver, Running, Resumed, At
  <2> QED
    BY <1>0, <2>1 DEF PassUp, Return, Keeping, owner
<1>4. CASE UNCHANGED vars
  BY <1>0, <1>4 DEF vars, control, owner
<1> QED
  BY <1>1, <1>2, <1>3, <1>4 DEF Next, TaskStep

\* Only an answer to the slicer makes a flush due.
LEMMA FlushComesDue ==
  ASSUME LayerTypes, [Next]_vars, layer'.flushing
  PROVE layer.flushing \/ SliceResumes
<1>1. CASE Environment
  BY <1>1 DEF Environment, SetSize, SetRate, SetDelay, SetCorrupt, Set, Inject, Tick,
              PeerReads, Flush, Offer, Shutdown, Abandon, LayerTypes
<1>2. CASE Poll \/ OwnerReady \/ OwnerPending \/ OwnerFails \/ Sink
  BY <1>2 DEF Poll, OwnerReady, OwnerPending, OwnerFails, Sink, SinkTakes, SinkWaits,
              SinkShuts, SinkFails
<1>3. CASE Adapter
  BY <1>3 DEF Adapter, PassUp, Fuse, InjectorDrains, InjectorReceives, InjectorPasses,
         InjectorResumes, CorrupterDrains, CorrupterHits, CorrupterMisses, CorrupterResumes,
         SliceOff, SliceOn, SliceWrites, SliceFlushed, SliceFlushWaits,
         SliceFlushFails, ThrottleOff, ThrottleOn, Acquire, Grant, ThrottleResumes, DelayOff,
         DelayArms, DelayWaits, DelayOver, LayerTypes
<1>4. CASE UNCHANGED vars
  BY <1>4 DEF vars
<1> QED
  BY <1>1, <1>2, <1>3, <1>4 DEF Next, TaskStep

\* What the slicer may do when it is its turn.
LEMMA AtSlicer ==
  ASSUME EnvTypes, At("SlicedWriter"), [Next]_vars
  PROVE \/ UNCHANGED <<frames, answer>>
        \/ PassUp \/ SliceOff \/ SliceOn \/ SliceWrites \/ SliceResumes \/ SliceFlushed
        \/ SliceFlushWaits \/ SliceFlushFails
<1>1. Top.at \in DOMAIN stack /\ stack[Top.at] = "SlicedWriter" /\ frames # <<>>
  BY DEF At
<1>2. CASE Environment
  BY <1>1, <1>2 DEF Environment, SetSize, SetRate, SetDelay, SetCorrupt, Set, Inject, Tick,
                    PeerReads, Flush, Offer, Shutdown, Abandon, control
<1>3. CASE Poll \/ OwnerReady \/ OwnerPending \/ OwnerFails
  BY <1>1, <1>3 DEF Poll, Quiet, OwnerReady, OwnerPending, OwnerFails
<1>4. ~Sink
  <2>1. Top.at # Len(stack) + 1
    BY <1>1 DEF EnvTypes
  <2> QED
    BY <2>1 DEF Sink, SinkTakes, SinkWaits, SinkShuts, SinkFails, AtSink
<1>5. CASE Adapter
  BY <1>1, <1>5 DEF Adapter, Fuse, InjectorDrains, InjectorReceives, InjectorPasses,
         InjectorResumes, CorrupterDrains, CorrupterHits, CorrupterMisses, CorrupterResumes,
         ThrottleOff, ThrottleOn, Acquire, Grant, ThrottleResumes, DelayOff,
         DelayArms, DelayWaits, DelayOver, Running, Resumed, At
<1>6. CASE UNCHANGED vars
  BY <1>6 DEF vars, control
<1> QED
  BY <1>2, <1>3, <1>4, <1>5, <1>6 DEF Next, TaskStep

\* A size that was seen stays until the slice is through.
LEMMA SizeKeptNext ==
  ASSUME TypeOK, Chosen, Unmixed, Fits, SizeKept, [Next]_vars
  PROVE SizeKept'
<1>0. EnvTypes /\ LayerTypes /\ ControlTypes /\ stack' = stack /\ Frames' = Frames
  BY Shapes DEF TypeOK, Frames
<1> SUFFICES ASSUME stack \in Buffered, layer'.flushing \/ \E i \in DOMAIN frames' : Slicing(i)'
             PROVE knob'.size # 0
  BY <1>0 DEF SizeKept
<1>a. layer.flushing \/ (\E i \in DOMAIN frames : Slicing(i)) => knob.size # 0
  BY DEF SizeKept
<1>b. ASSUME NEW i \in DOMAIN stack, stack[i] = "SlicedWriter" PROVE Careful
  BY <1>b DEF Chosen, Unmixed
<1>c. DOMAIN frames = 1..Len(frames) /\ Len(frames) \in Nat
  BY <1>0 DEF ControlTypes
<1>1. CASE SetSize
  <2>1. /\ Careful
        /\ \E s \in Sizes : /\ knob' = [knob EXCEPT !["size"] = s]
                            /\ frames # <<>> \/ layer.flushing => s # 0
        /\ UNCHANGED <<layer, frames, answer>>
    BY <1>1, <1>b DEF SetSize, Set, Has, Member, control
  <2>2. frames # <<>> \/ layer.flushing
    BY <1>0, <2>1 DEF ControlTypes
  <2> QED
    BY <1>0, <2>1, <2>2 DEF EnvTypes, Knobs
<1>2. CASE ~SetSize
  <2>1. knob'.size = knob.size
    <3>1. CASE Environment
      BY <1>0, <1>2, <3>1 DEF Environment, SetRate, SetDelay, SetCorrupt, Set, Inject, Tick,
                              PeerReads, Flush, Offer, Shutdown, Abandon, env, EnvTypes, Knobs
    <3>2. CASE Poll \/ OwnerReady \/ OwnerPending \/ OwnerFails \/ Sink
      BY <3>2 DEF Poll, OwnerReady, OwnerPending, OwnerFails, Sink, SinkTakes, SinkWaits,
                  SinkShuts, SinkFails, Keeping, env
    <3>3. CASE Adapter
      BY <3>3 DEF Adapter, PassUp, Fuse, InjectorDrains, InjectorReceives, InjectorPasses,
         InjectorResumes, CorrupterDrains, CorrupterHits, CorrupterMisses, CorrupterResumes,
         SliceOff, SliceOn, SliceWrites, SliceResumes, SliceFlushed, SliceFlushWaits,
         SliceFlushFails, ThrottleOff, ThrottleOn, Acquire, Grant, ThrottleResumes, DelayOff,
         DelayArms, DelayWaits, DelayOver, Keeping, env
    <3>4. CASE UNCHANGED vars
      BY <3>4 DEF vars, env
    <3> QED
      BY <3>1, <3>2, <3>3, <3>4 DEF Next, TaskStep
  <2> SUFFICES knob.size # 0
    BY <2>1
  <2>a. ASSUME frames # <<>>, At("SlicedWriter"), answer # None \/ Top.step = "slice"
        PROVE knob.size # 0
    <3>1. Len(frames) \in DOMAIN frames /\ Slicing(Len(frames))
      BY <1>0, <2>a, TopIs DEF Slicing, At
    <3> QED
      BY <1>a, <3>1
  <2>2. CASE layer'.flushing
    <3>1. layer.flushing \/ SliceResumes
      BY <1>0, <2>2, FlushComesDue
    <3> QED
      BY <1>a, <2>a, <3>1 DEF SliceResumes, Resumed, At, None
  <2>3. ASSUME NEW i \in DOMAIN frames', Slicing(i)' PROVE knob.size # 0
    <3>a. frames'[i].at \in DOMAIN stack /\ stack[frames'[i].at] = "SlicedWriter"
          /\ (i < Len(frames') \/ answer' # None \/ frames'[i].step = "slice")
      BY <1>0, <2>3 DEF Slicing
    <3>b. ASSUME i \in DOMAIN frames, i < Len(frames), frames'[i] = frames[i]
          PROVE knob.size # 0
      BY <1>a, <3>a, <3>b DEF Slicing
    <3>1. CASE UNCHANGED <<frames, answer>>
      BY <1>a, <2>3, <3>1, <1>0 DEF Slicing
    <3>2. CASE OwnersTurn
      BY <3>2 DEF OwnersTurn
    <3>3. CASE Poll
      BY <3>3, <3>a DEF Poll, Quiet, Entered
    <3>4. CASE frames # <<>> /\ TailCall
      <4>1. PICK f \in Entered(Top.at, Top.src, Top.len) : frames' = Append(Callers, f)
        BY <3>4 DEF TailCall
      <4>2. Top.at \in Nat /\ Top.src \in Sources /\ Top.len \in 0..Longest
        BY <1>0, <3>4, TopIs DEF Frames, EnvTypes
      <4>3. f \in Frames /\ f.step = "enter"
        BY <1>0, <4>1, <4>2, EnteredIs
      <4>4. /\ frames' \in Seq(Frames) /\ Len(frames') = Len(frames) /\ frames'[Len(frames)] = f
            /\ \A j \in 1..(Len(frames) - 1) : frames'[j] = frames[j]
        BY <1>0, <3>4, <4>1, <4>3, Replaces
      <4>5. answer' = None
        BY <3>4 DEF TailCall
      <4>6. i \in 1..Len(frames) /\ i # Len(frames)
        BY <3>a, <4>3, <4>4, <4>5, <1>c
      <4> QED
        BY <1>c, <3>b, <4>4, <4>6
    <3>5. CASE frames # <<>> /\ At("SlicedWriter")
      BY <1>0, <1>a, <2>a, <3>1, <3>4, <3>5, AtSlicer
         DEF PassUp, SliceOff, SliceOn, SliceWrites, SliceResumes, SliceFlushed, SliceFlushWaits,
             SliceFlushFails, Running, Resumed, None
    <3>6. CASE frames # <<>> /\ ~At("SlicedWriter") /\ GoesOn
      <4>1. PICK step \in Steps, seen \in Rates \cup {0} : Goto(step, seen)
        BY <3>6 DEF GoesOn
      <4> DEFINE f == [Top EXCEPT !.step = step, !.seen = seen]
      <4>2. f \in Frames /\ f.at = Top.at
        BY <1>0, <3>6, TopIs DEF Frames
      <4>3. frames' = Append(Callers, f) /\ answer' = None
        BY <4>1 DEF Goto
      <4> HIDE DEF f
      <4>4. /\ frames' \in Seq(Frames) /\ Len(frames') = Len(frames) /\ frames'[Len(frames)] = f
            /\ \A j \in 1..(Len(frames) - 1) : frames'[j] = frames[j]
        BY <1>0, <3>6, <4>2, <4>3, Replaces
      <4>5. i \in 1..Len(frames) /\ i # Len(frames)
        BY <3>6, <3>a, <4>2, <4>4, <1>c DEF At
      <4> QED
        BY <1>c, <3>b, <4>4, <4>5
    <3>7. CASE frames # <<>> /\ ~At("SlicedWriter") /\ CallsDown
      <4>1. PICK n \in 0..Longest : Call(Asker(Top), n)
        BY <3>7 DEF CallsDown
      <4>2. PICK f \in Entered(Top.at, Asker(Top), n) : frames' = Append(frames, f)
        BY <4>1 DEF Call
      <4>3. Top.at \in Nat /\ Asker(Top) \in Sources
        BY <1>0, <3>7, TopIs DEF Frames, EnvTypes, Asker, Sources
      <4>4. f \in Frames /\ f.step = "enter"
        BY <1>0, <4>2, <4>3, EnteredIs
      <4>5. /\ frames' \in Seq(Frames) /\ Len(frames') = Len(frames) + 1
            /\ frames'[Len(frames) + 1] = f /\ \A j \in 1..Len(frames) : frames'[j] = frames[j]
        BY <1>0, <4>2, <4>4, Pushes
      <4>6. answer' = None
        BY <4>1 DEF Call
      <4>7. i \in 1..Len(frames)
        BY <3>a, <4>4, <4>5, <4>6, <1>c
      <4>8. i # Len(frames)
        BY <3>7, <3>a, <4>5, <4>7 DEF At, Top
      <4> QED
        BY <1>c, <3>b, <4>5, <4>7, <4>8
    <3>8. CASE frames # <<>> /\ ComesBack
      <4>1. frames' = Callers
        BY <3>8 DEF ComesBack, Return
      <4>2. /\ frames' \in Seq(Frames) /\ Len(frames') = Len(frames) - 1
            /\ \A j \in 1..(Len(frames) - 1) : frames'[j] = frames[j]
        BY <1>0, <3>8, <4>1, Pops
      <4>3. i \in 1..(Len(frames) - 1)
        BY <1>c, <4>2
      <4> QED
        BY <1>c, <3>b, <4>2, <4>3
    <3> QED
      BY <3>1, <3>2, <3>3, <3>4, <3>5, <3>6, <3>7, <3>8, Shapes DEF Stays
  <2> QED
    BY <2>2, <2>3
<1> QED
  BY <1>1, <1>2

\* An adapter that takes one step lets the call through, or ends it.
LEMMA AtOthers ==
  ASSUME EnvTypes, frames # <<>>, answer = None, Top.at \in DOMAIN stack,
         stack[Top.at] \notin Calling, [Next]_vars
  PROVE UNCHANGED <<frames, answer>> \/ TailCall \/ Return(Pending) \/ Return(Failed)
<1>1. CASE Environment
  BY <1>1 DEF Environment, SetSize, SetRate, SetDelay, SetCorrupt, Set, Inject, Tick,
              PeerReads, Flush, Offer, Shutdown, Abandon, control
<1>2. ~(Poll \/ OwnerReady \/ OwnerPending \/ OwnerFails)
  BY DEF Poll, Quiet, OwnerReady, OwnerPending, OwnerFails
<1>3. ~Sink
  <2>1. Top.at # Len(stack) + 1
    BY DEF EnvTypes
  <2> QED
    BY <2>1 DEF Sink, SinkTakes, SinkWaits, SinkShuts, SinkFails, AtSink
<1>4. CASE Adapter
  <2>1. PassUp \/ Fuse \/ DelayOff \/ DelayArms \/ DelayWaits \/ DelayOver
    BY <1>4 DEF Adapter, InjectorDrains, InjectorReceives, InjectorPasses,
         InjectorResumes, CorrupterDrains, CorrupterHits, CorrupterMisses, CorrupterResumes,
         SliceOff, SliceOn, SliceWrites, SliceResumes, SliceFlushed, SliceFlushWaits,
         SliceFlushFails, ThrottleOff, ThrottleOn, Acquire, Grant, ThrottleResumes,
         Running, Resumed, At, Calling
  <2> QED
    BY <2>1 DEF PassUp, Fuse, DelayOff, DelayArms, DelayWaits, DelayOver, None
<1>5. CASE UNCHANGED vars
  BY <1>5 DEF vars, control
<1> QED
  BY <1>1, <1>2, <1>3, <1>4, <1>5 DEF Next, TaskStep

\* The owner keeps a write whose flush is due.
LEMMA WriteKept ==
  ASSUME frames = <<>>, call.state = "pending", answer = None \/ answer = Pending,
         OwnerTypes, Careful, layer.flushing, call.op # "shutdown", [Next]_vars
  PROVE call'.state = "pending" /\ call'.op # "shutdown"
<1>1. CASE UNCHANGED call
  BY <1>1
<1>2. ASSUME NEW op \in {"write", "vectored"}, Offer(op)
      PROVE call'.state = "pending" /\ call'.op # "shutdown"
  <2>1. PICK n \in (call.len + 1)..MaxBuf :
          call' = [call EXCEPT !.op = op, !.state = "pending", !.len = n]
    BY <1>2 DEF Offer
  <2> QED
    BY <2>1 DEF OwnerTypes
<1>3. CASE Environment /\ ~Offer("write") /\ ~Offer("vectored")
  BY <1>1, <1>3 DEF Environment, SetSize, SetRate, SetDelay, SetCorrupt, Set, Inject, Tick,
                    PeerReads, Flush, Shutdown, Abandon, owner
<1>4. CASE Poll \/ OwnerReady \/ OwnerPending \/ OwnerFails
  BY <1>1, <1>4 DEF Poll, OwnerReady, OwnerPending, OwnerFails, owner, None, Pending
<1>5. ~Adapter
  BY DEF Adapter, PassUp, Fuse, InjectorDrains, InjectorReceives, InjectorPasses,
         InjectorResumes, CorrupterDrains, CorrupterHits, CorrupterMisses, CorrupterResumes,
         SliceOff, SliceOn, SliceWrites, SliceResumes, SliceFlushed, SliceFlushWaits,
         SliceFlushFails, ThrottleOff, ThrottleOn, Acquire, Grant, ThrottleResumes, DelayOff,
         DelayArms, DelayWaits, DelayOver, Running, Resumed, At
<1>6. ~Sink
  BY DEF Sink, SinkTakes, SinkWaits, SinkShuts, SinkFails, AtSink
<1>7. CASE UNCHANGED vars
  BY <1>1, <1>7 DEF vars, owner
<1> QED
  BY <1>2, <1>3, <1>4, <1>5, <1>6, <1>7 DEF Next, TaskStep, Environment

\* A stop for an operation, but for the sink, acts on it.
LEMMA StopsAct ==
  ASSUME EnvTypes, NEW i \in DOMAIN stack, NEW op
  PROVE i \in Stops(stack, op) <=> op \in ActsOn[stack[i]]
<1>1. i # Len(stack) + 1
  BY DEF EnvTypes
<1> QED
  BY <1>1 DEF Stops

\* What the throttle may do when it is its turn.
LEMMA AtThrottle ==
  ASSUME EnvTypes, At("ThrottledWriter"), [Next]_vars
  PROVE \/ UNCHANGED <<frames, answer>>
        \/ PassUp \/ ThrottleOff \/ ThrottleOn \/ Acquire \/ Grant \/ ThrottleResumes
<1>1. Top.at \in DOMAIN stack /\ stack[Top.at] = "ThrottledWriter" /\ frames # <<>>
  BY DEF At
<1>2. CASE Environment
  BY <1>1, <1>2 DEF Environment, SetSize, SetRate, SetDelay, SetCorrupt, Set, Inject, Tick,
                    PeerReads, Flush, Offer, Shutdown, Abandon, control
<1>3. CASE Poll \/ OwnerReady \/ OwnerPending \/ OwnerFails
  BY <1>1, <1>3 DEF Poll, Quiet, OwnerReady, OwnerPending, OwnerFails
<1>4. ~Sink
  <2>1. Top.at # Len(stack) + 1
    BY <1>1 DEF EnvTypes
  <2> QED
    BY <2>1 DEF Sink, SinkTakes, SinkWaits, SinkShuts, SinkFails, AtSink
<1>5. CASE Adapter
  BY <1>1, <1>5 DEF Adapter, Fuse, InjectorDrains, InjectorReceives, InjectorPasses,
         InjectorResumes, CorrupterDrains, CorrupterHits, CorrupterMisses, CorrupterResumes,
         SliceOff, SliceOn, SliceWrites, SliceResumes, SliceFlushed, SliceFlushWaits,
         SliceFlushFails, DelayOff, DelayArms, DelayWaits, DelayOver, Running, Resumed, At
<1>6. CASE UNCHANGED vars
  BY <1>6 DEF vars, control
<1> QED
  BY <1>2, <1>3, <1>4, <1>5, <1>6 DEF Next, TaskStep

\* Where the calls under way are.
LEMMA CallsAre ==
  ASSUME EnvTypes, ControlTypes
  PROVE /\ DOMAIN frames = 1..Len(frames) /\ Len(frames) \in Nat
        /\ \A j \in DOMAIN frames : frames[j] \in Frames /\ frames[j].at \in Nat \ {0}
<1>1. \A f \in Frames : f.at \in Nat \ {0}
  BY DEF Frames, EnvTypes
<1>2. /\ DOMAIN frames = 1..Len(frames) /\ Len(frames) \in Nat
      /\ \A j \in DOMAIN frames : frames[j] \in Frames
  BY DEF ControlTypes
<1> QED
  BY <1>1, <1>2

\* Above a slicer whose flush may wait all calls are for the owner's bytes, and
\* only a throttle is called back; it has the owner's whole buffer.
LEMMA AboveSlicer ==
  ASSUME EnvTypes, ControlTypes, Chosen, Unmixed, Chain, stack \in Buffered,
         NEW i \in DOMAIN stack, stack[i] = "SlicedWriter"
  PROVE /\ \A j \in DOMAIN frames : frames[j].at <= i => frames[j].src = "owner"
        /\ \A j \in DOMAIN frames :
             frames[j].at < i /\ (j < Len(frames) \/ answer # None)
               => frames[j].at \in DOMAIN stack /\ stack[frames[j].at] = "ThrottledWriter"
        /\ \A j \in DOMAIN frames :
             /\ frames[j].at < i
             /\ frames[j].at \in DOMAIN stack /\ stack[frames[j].at] = "ThrottledWriter"
             => j = 1 /\ frames[j].len = call.len
<1>0. /\ DOMAIN frames = 1..Len(frames) /\ Len(frames) \in Nat
      /\ \A j \in DOMAIN frames : frames[j] \in Frames /\ frames[j].at \in Nat \ {0}
      /\ i \in Nat \ {0}
  BY CallsAre DEF EnvTypes
<1>1. \A j \in 1..(i - 1) : stack[j] \notin {"WriteInjector", "Corrupter"}
  BY DEF Chosen, Unmixed
<1>2. ASSUME NEW j \in DOMAIN frames, frames[j].at <= i PROVE frames[j].src = "owner"
  <2> SUFFICES ASSUME frames[j].src # "owner" PROVE FALSE
    OBVIOUS
  <2>1. PICK h \in 1..(j - 1) : frames[h].at \in DOMAIN stack /\ stack[frames[h].at] = frames[j].src
    BY <1>2 DEF Chain
  <2>2. frames[h].at < frames[j].at
    BY <2>1 DEF Chain
  <2>3. h \in DOMAIN frames
    BY <1>0, <2>1
  <2>4. frames[h].at \in 1..(i - 1)
    BY <1>0, <1>2, <2>2, <2>3
  <2>5. frames[j].src \in {"WriteInjector", "Corrupter"}
    BY <1>0 DEF Frames, Sources
  <2> QED
    BY <1>1, <2>1, <2>4, <2>5
<1>3. ASSUME NEW j \in DOMAIN frames, frames[j].at < i, j < Len(frames) \/ answer # None
      PROVE frames[j].at \in DOMAIN stack /\ stack[frames[j].at] = "ThrottledWriter"
  <2>1. frames[j].at \in DOMAIN stack /\ stack[frames[j].at] \in Calling
    BY <1>3 DEF Chain
  <2>2. frames[j].at \in 1..(i - 1) /\ frames[j].at # i
    BY <1>0, <1>3
  <2>3. stack[frames[j].at] # "SlicedWriter"
    BY <2>1, <2>2, Alone
  <2> QED
    BY <1>1, <2>1, <2>2, <2>3 DEF Calling
<1>4. ASSUME NEW j \in DOMAIN frames, frames[j].at < i, frames[j].at \in DOMAIN stack,
             stack[frames[j].at] = "ThrottledWriter"
      PROVE j = 1 /\ frames[j].len = call.len
  <2>1. j = 1
    <3> SUFFICES ASSUME j # 1 PROVE FALSE
      OBVIOUS
    <3> DEFINE h == j - 1
    <3>1. h \in DOMAIN frames /\ h < Len(frames) /\ h \in 1..(j - 1)
      BY <1>0
    <3>2. frames[h].at < frames[j].at
      BY <3>1 DEF Chain
    <3> HIDE DEF h
    <3>3. frames[h].at < i /\ frames[h].at # frames[j].at
      BY <1>0, <1>4, <3>1, <3>2
    <3>4. frames[h].at \in DOMAIN stack /\ stack[frames[h].at] = "ThrottledWriter"
      BY <1>3, <3>1, <3>3
    <3> QED
      BY <1>4, <3>3, <3>4, Alone
  <2> QED
    BY <1>0, <2>1 DEF Chain
<1> QED
  BY <1>2, <1>3, <1>4

\* An adapter at the slicer or above answers that a write is pending: the flush
\* is carried to the next poll.
LEMMA CarriedUp ==
  ASSUME EnvTypes, ControlTypes, OwnerTypes, Owning, Chosen, Unmixed, Chain,
         stack \in Buffered, stack' = stack, call' = call,
         call.state = "pending", call.op # "shutdown",
         NEW i \in DOMAIN stack, stack[i] = "SlicedWriter",
         frames # <<>>, Top.at <= i, Return(Pending)
  PROVE Carried'
<1> DEFINE n == Len(frames)
<1>1. /\ n \in Nat \ {0} /\ frames' = <<>> <=> n = 1
      /\ frames' # <<>> => Top' = frames[n - 1] /\ n - 1 \in 1..n
  BY Pops DEF Return
<1>2. DOMAIN frames = 1..n /\ Top = frames[n] /\ n \in DOMAIN frames
  BY TopIs DEF ControlTypes
<1>3. \A j \in DOMAIN frames : frames[j].at \in Nat
  BY CallsAre
<1>4. call.len > 0
  BY DEF Owning
<1>5. ASSUME frames' # <<>> PROVE Top'.at < i /\ Top'.len > 0
  <2>1. n # 1 /\ n - 1 \in DOMAIN frames /\ n - 1 < n /\ n - 1 \in 1..(n - 1)
    BY <1>1, <1>2, <1>5
  <2>2. frames[n - 1].at < frames[n].at
    BY <1>2, <2>1 DEF Chain
  <2>3. frames[n - 1].at < i
    <3>1. frames[n - 1].at \in Nat /\ frames[n].at \in Nat
      BY <1>2, <1>3, <2>1
    <3>2. stack \in Seq(Kinds)
      BY DEF EnvTypes
    <3>3. i \in Nat
      BY <3>2
    <3> QED
      BY <1>2, <2>2, <3>1, <3>3
  <2>4. frames[n - 1].len = call.len
    BY <2>1, <2>3, AboveSlicer
  <2> QED
    BY <1>1, <1>4, <1>5, <2>3, <2>4
<1>6. answer' = Pending
  BY DEF Return
<1>7. frames' # <<>> => Top'.at <= i
  <2>1. i \in Nat
    BY DEF EnvTypes
  <2> SUFFICES ASSUME frames' # <<>> PROVE Top'.at <= i
    OBVIOUS
  <2>2. Top'.at \in Nat
    BY <1>1, <1>2, <1>3
  <2> QED
    BY <1>5, <2>1, <2>2
<1> QED
  BY <1>5, <1>6, <1>7 DEF Carried

\* A flush that is due stays so, until it is through.
LEMMA FlushDueNext ==
  ASSUME TypeOK, Chosen, Unmixed, Owning, Chain, Fits, SizeKept, FlushDue, [Next]_vars
  PROVE FlushDue'
<1>0. /\ EnvTypes /\ LayerTypes /\ ControlTypes /\ OwnerTypes /\ stack' = stack
      /\ DOMAIN frames = 1..Len(frames) /\ Len(frames) \in Nat
  BY Shapes DEF TypeOK, ControlTypes
<1> SUFFICES ASSUME layer'.flushing, ~Broken'
             PROVE Running("SlicedWriter", "slice")' \/ Carried'
  BY DEF FlushDue
<1>a. ~Broken
  BY <1>0, BrokenStays
<1>1. ASSUME frames # <<>>, At("SlicedWriter"), Goto("slice", 0)
      PROVE Running("SlicedWriter", "slice")'
  <2> DEFINE f == [Top EXCEPT !.step = "slice", !.seen = 0]
  <2>1. f \in Frames /\ f.at = Top.at /\ f.step = "slice"
    BY <1>0, <1>1, TopIs DEF Frames, Steps
  <2>2. frames' = Append(Callers, f) /\ answer' = None
    BY <1>1 DEF Goto
  <2> HIDE DEF f
  <2>3. frames' # <<>> /\ Top' = f
    BY <1>0, <1>1, <2>1, <2>2, Replaces
  <2> QED
    BY <1>0, <1>1, <2>1, <2>2, <2>3 DEF Running, At
<1>2. CASE SliceResumes
  BY <1>1, <1>2 DEF SliceResumes, Resumed, At
<1>3. CASE layer.flushing /\ Running("SlicedWriter", "slice")
  <2>1. /\ At("SlicedWriter") /\ answer = None /\ Top.step = "slice" /\ frames # <<>>
        /\ Top.at \in DOMAIN stack /\ stack[Top.at] = "SlicedWriter"
    BY <1>3 DEF Running, At
  <2>2. UNCHANGED <<frames, answer>> \/ SliceFlushWaits
    <3>1. ~PassUp /\ ~SliceOff /\ ~SliceOn /\ ~SliceWrites /\ ~SliceResumes
      BY <1>3, <2>1 DEF PassUp, SliceOff, SliceOn, SliceWrites, SliceResumes, Running, Resumed,
                        None
    <3>2. ~SliceFlushed
      BY <1>0 DEF SliceFlushed, LayerTypes
    <3>3. ~SliceFlushFails
      BY DEF SliceFlushFails, Return, Broken
    <3> QED
      BY <1>0, <2>1, <3>1, <3>2, <3>3, AtSlicer
  <2>3. CASE UNCHANGED <<frames, answer>>
    BY <1>0, <1>3, <2>3 DEF Running, At, Top
  <2>4. CASE SliceFlushWaits
    <3>1. /\ stack \in Buffered /\ frames' = Callers /\ answer' = Pending
          /\ call' = call /\ call.state = "pending"
      BY <2>1, <2>4 DEF SliceFlushWaits, Return, Keeping, owner, Owning
    <3>2. Top = frames[Len(frames)] /\ Len(frames) \in DOMAIN frames
      BY <1>0, <2>1, TopIs
    <3>3. call.op # "shutdown"
      <4>1. Top.at \in Stops(stack, call.op)
        BY <3>2 DEF Chain
      <4> QED
        BY <1>0, <2>1, <4>1, StopsAct, WhoActs
    <3>4. Return(Pending) /\ Top.at <= Top.at
      <4>1. Top.at \in Nat
        BY <1>0, <2>1 DEF EnvTypes
      <4> QED
        BY <2>4, <4>1 DEF SliceFlushWaits
    <3> QED
      BY <1>0, <2>1, <3>1, <3>3, <3>4, CarriedUp
  <2> QED
    BY <2>2, <2>3, <2>4
<1>4. CASE layer.flushing /\ Carried /\ ~Running("SlicedWriter", "slice")
  <2>1. PICK i \in DOMAIN stack :
          /\ stack[i] = "SlicedWriter"
          /\ frames # <<>> => Top.at <= i /\ Top.len > 0 /\ (answer # None => Top.at < i)
    BY <1>4 DEF Carried
  <2>2. /\ stack \in Buffered /\ call.state = "pending" /\ call.op # "shutdown"
        /\ answer # None => answer = Pending
    BY <1>4 DEF Carried
  <2>3. /\ Careful /\ \A j \in 1..(i - 1) : stack[j] \notin {"WriteInjector", "Corrupter"}
    BY <2>1, <2>2 DEF Chosen, Unmixed
  <2>4. i \in Stops(stack, call.op) /\ i \in Nat \ {0}
    <3>1. call.op \in {"write", "vectored"}
      BY <1>0, <2>2 DEF OwnerTypes
    <3> QED
      BY <1>0, <2>1, <3>1, StopsAct, WhoActs DEF EnvTypes
  <2>5. ASSUME frames # <<>>
        PROVE /\ Top \in Frames /\ Len(frames) \in DOMAIN frames /\ Top = frames[Len(frames)]
              /\ Top.at \in Nat /\ Top.src \in Sources /\ Top.len \in 0..Longest
              /\ Top.len \in Nat
    <3>1. Top \in Frames /\ Len(frames) \in DOMAIN frames /\ Top = frames[Len(frames)]
      BY <1>0, <2>5, TopIs
    <3> QED
      BY <1>0, <3>1, Constants DEF Frames, EnvTypes
  <2>6. ASSUME NEW f \in Frames, frames' # <<>>, Top' = f, answer' = None,
               f.at <= i, f.len > 0, call' = call
        PROVE Carried'
    BY <1>0, <2>1, <2>2, <2>6 DEF Carried
  <2>7. ASSUME frames # <<>>, TailCall, call' = call, Top.at < i
        PROVE Carried'
    <3>1. PICK f \in Entered(Top.at, Top.src, Top.len) : frames' = Append(Callers, f)
      BY <2>7 DEF TailCall
    <3>2. f \in Frames /\ f.len = Top.len /\ f.at <= i
      BY <1>0, <2>4, <2>5, <2>7, <3>1, EnteredIs
    <3>3. answer' = None
      BY <2>7 DEF TailCall
    <3>4. frames' # <<>> /\ Top' = f
      BY <1>0, <2>7, <3>1, <3>2, Replaces
    <3> QED
      BY <2>1, <2>6, <2>7, <3>2, <3>3, <3>4
  <2>8. CASE Stays
    BY <1>0, <2>1, <2>2, <2>8 DEF Stays, Carried, Top
  <2>9. CASE OwnersTurn
    <3>1. call'.state = "pending" /\ call'.op # "shutdown"
      BY <1>0, <1>4, <2>2, <2>3, <2>9, WriteKept DEF OwnersTurn
    <3>2. frames' = <<>> /\ (answer' # None => answer' = Pending)
      BY <2>2, <2>9 DEF OwnersTurn
    <3> QED
      BY <1>0, <2>1, <2>2, <3>1, <3>2 DEF Carried
  <2>10. CASE Poll
    <3>1. PICK f \in Entered(0, "owner", call.len) : frames' = <<f>>
      BY <2>10 DEF Poll
    <3>2. call.len \in 0..Longest /\ "owner" \in Sources /\ call.len > 0
      BY <1>0, <2>2, Constants DEF OwnerTypes, Sources, Owning
    <3>3. f \in Frames /\ f.len = call.len /\ f.at <= i
      BY <1>0, <2>4, <3>1, <3>2, EnteredIs
    <3>4. answer' = None /\ call' = call /\ Top' = f /\ frames' # <<>>
      BY <2>10, <3>1 DEF Poll, Quiet, owner, Top
    <3> QED
      BY <2>6, <3>2, <3>3, <3>4
  <2>11. CASE frames # <<>> /\ UNCHANGED call /\ (GoesOn \/ TailCall \/ CallsDown \/ ComesBack)
    <3>0. CASE UNCHANGED <<frames, answer>>
      BY <2>8, <2>11, <3>0 DEF Stays
    <3>a. CASE Return(Pending)
      BY <1>0, <2>1, <2>2, <2>11, <3>a, CarriedUp
    <3>1. CASE Top.at = i
      <4>1. At("SlicedWriter") /\ answer = None /\ Top.step # "slice"
        BY <1>4, <2>1, <2>4, <2>5, <2>11, <3>1 DEF At, Running
      <4>2. knob.size # 0 /\ Top.len > 0
        BY <1>4, <2>1, <2>2, <2>11 DEF SizeKept
      <4>3. UNCHANGED <<frames, answer>> \/ SliceOn
        <5>1. ~SliceOff
          BY <2>5, <2>11, <4>2 DEF SliceOff
        <5> QED
          BY <1>0, <4>1, <5>1, AtSlicer
             DEF PassUp, SliceWrites, SliceResumes, SliceFlushed, SliceFlushWaits,
                 SliceFlushFails, Running, Resumed, None
      <4>4. CASE SliceOn
        BY <1>1, <2>11, <4>1, <4>4 DEF SliceOn
      <4> QED
        BY <3>0, <4>3, <4>4
    <3>2. CASE Top.at # i
      <4>1. Top.at < i /\ Top.at \in 1..(i - 1) /\ Top.at \in DOMAIN stack
        <5>1. Top.at \in 1..(Len(stack) + 1) /\ i \in 1..Len(stack)
          BY <1>0, <2>5, <2>11 DEF Frames, EnvTypes
        <5>2. Len(stack) \in Nat /\ DOMAIN stack = 1..Len(stack)
          BY <1>0 DEF EnvTypes
        <5> QED
          BY <2>1, <2>11, <3>2, <5>1, <5>2
      <4>2. stack[Top.at] # "SlicedWriter"
        BY <2>1, <3>2, <4>1, Alone
      <4>3. CASE Return(Failed)
        BY <4>3 DEF Return, Broken
      <4>4. CASE TailCall
        BY <2>7, <2>11, <4>1, <4>4
      <4>5. CASE stack[Top.at] \notin Calling
        <5>1. answer = None
          BY <2>5, <2>11, <4>5 DEF Chain
        <5>2. UNCHANGED <<frames, answer>> \/ TailCall \/ Return(Pending) \/ Return(Failed)
          BY <1>0, <2>11, <4>1, <4>5, <5>1, AtOthers
        <5> QED
          BY <3>0, <3>a, <4>3, <4>4, <5>2
      <4>6. CASE stack[Top.at] = "ThrottledWriter"
        <5>1. At("ThrottledWriter")
          BY <2>11, <4>1, <4>6 DEF At
        <5>2. ASSUME NEW step \in Steps, NEW seen \in Rates \cup {0}, Goto(step, seen)
              PROVE Carried'
          <6> DEFINE f == [Top EXCEPT !.step = step, !.seen = seen]
          <6>1. f \in Frames /\ f.at = Top.at /\ f.len = Top.len
            BY <2>5, <2>11 DEF Frames
          <6>2. frames' = Append(Callers, f) /\ answer' = None
            BY <5>2 DEF Goto
          <6> HIDE DEF f
          <6>3. frames' # <<>> /\ Top' = f
            BY <1>0, <2>11, <6>1, <6>2, Replaces
          <6> QED
            BY <2>1, <2>6, <2>11, <6>1, <6>2, <6>3
        <5>3. ASSUME NEW g \in 1..Longest, Call(Top.src, g)
              PROVE Carried'
          <6>1. PICK f \in Entered(Top.at, Top.src, g) : frames' = Append(frames, f)
            BY <5>3 DEF Call
          <6>2. g \in 0..Longest /\ g > 0
            BY <5>3, Constants
          <6>3. f \in Frames /\ f.len = g /\ f.at <= i
            BY <1>0, <2>4, <2>5, <2>11, <4>1, <6>1, <6>2, EnteredIs
          <6>4. frames' # <<>> /\ Top' = f
            BY <1>0, <6>1, <6>3, Pushes
          <6>5. answer' = None
            BY <5>3 DEF Call
          <6> QED
            BY <2>6, <2>11, <6>2, <6>3, <6>4, <6>5
        <5>4. UNCHANGED <<frames, answer>> \/ PassUp \/ ThrottleOff \/ ThrottleOn \/ Acquire \/ Grant
          <6>1. ~ThrottleResumes
            BY <2>2 DEF ThrottleResumes, Resumed, None, Pending
          <6> QED
            BY <1>0, <5>1, <6>1, AtThrottle
        <5>5. CASE PassUp
          <6>1. answer = Pending
            BY <2>2, <5>5 DEF PassUp, None
          <6> QED
            BY <3>a, <5>5, <6>1 DEF PassUp
        <5>6. CASE ThrottleOff
          BY <4>4, <5>6 DEF ThrottleOff
        <5>7. CASE ThrottleOn
          BY <5>2, <5>7 DEF ThrottleOn, Steps
        <5>8. CASE Acquire
          <6>1. Top.len > 0 /\ Top.len \in 1..Longest /\ Top.len # 0
            BY <2>1, <2>5, <2>11, Constants
          <6>2. knob.rate \in Rates \cup {0}
            BY <1>0 DEF EnvTypes, Knobs
          <6>3. Return(Pending) \/ Call(Top.src, Top.len) \/ Goto("refill", knob.rate)
            BY <5>8, <6>1 DEF Acquire
          <6>4. CASE Goto("refill", knob.rate)
            BY <5>2, <6>2, <6>4 DEF Steps
          <6> QED
            BY <3>a, <5>3, <6>1, <6>3, <6>4
        <5>9. CASE Grant
          <6> DEFINE bucket == Refilled(layer.bucket, knob.rate)
                     grant == Least(Top.len, bucket.budget)
          <6>1. bucket.budget \in Nat
            <7>1. bucket \in Buckets(Rates)
              BY <1>0, LayerIs, BucketsStay, Constants DEF EnvTypes, Knobs
            <7> QED
              BY <7>1, BucketFields, Constants
          <6>2. (grant > 0 => Call(Top.src, grant)) /\ (~(grant > 0) => Return(Pending))
            BY <5>9 DEF Grant
          <6> HIDE DEF bucket
          <6>3. grant \in 0..Longest
            BY <2>5, <2>11, <6>1, LeastOf, Constants
          <6> HIDE DEF grant
          <6>4. grant > 0 => grant \in 1..Longest
            BY <6>3, Constants
          <6> QED
            BY <3>a, <5>3, <6>2, <6>4
        <5> QED
          BY <3>0, <5>4, <5>5, <5>6, <5>7, <5>8, <5>9
      <4>7. stack[Top.at] \notin {"WriteInjector", "Corrupter"}
        BY <2>3, <4>1
      <4> QED
        BY <4>2, <4>5, <4>6, <4>7 DEF Calling
    <3> QED
      BY <3>1, <3>2
  <2> QED
    BY <2>8, <2>9, <2>10, <2>11, Shapes
<1>5. layer.flushing \/ SliceResumes
  BY <1>0, FlushComesDue
<1> QED
  BY <1>2, <1>3, <1>4, <1>5, <1>a DEF FlushDue

-----------------------------------------------------------------------------
(* Bytes in flight: taken by the sink, not yet told to whoever offered them. *)

\* Who is told the answer; who is told what the slicer has put aside.
Receiver == IF frames = <<>> THEN "owner" ELSE Asker(Top)
Holder == IF frames = <<>> THEN "owner" ELSE Top.src

Flight(k) ==
  IF answer.kind = "ready" THEN IF Receiver = k THEN answer.n ELSE 0
  ELSE IF layer.flushing /\ Holder = k THEN layer.owed ELSE 0

\* What is in flight is among the first bytes on offer, and it is all that is
\* between what a source knows of and what the sink has.
Balanced ==
  ~Broken =>
    /\ \A k \in Sources : Flight(k) <= Limit(k)
    /\ Len(stream) = told.bytes + Flight("owner")
    /\ \A x \in 1..Flight("owner") : stream[told.bytes + x] = call.next + x - 1
    /\ \A k \in {"WriteInjector", "Corrupter"} : due[k] = Limit(k) - Flight(k)

DataStays ==
  UNCHANGED <<call, told, stream, due, layer.injecting, layer.garbage, layer.flushing,
              layer.owed>>

\* How a step changes what Balanced is about.
LEMMA DataSteps ==
  ASSUME TypeOK, [Next]_vars
  PROVE \/ /\ DataStays
           /\ \/ UNCHANGED <<frames, answer>>
              \/ answer.kind # "ready" /\ answer' \in {None, Pending, Failed}
              \/ answer = None /\ answer' = Ready(0)
        \/ Offer("write") \/ Offer("vectored") \/ Shutdown \/ Abandon
        \/ OwnerReady \/ OwnerFails
        \/ InjectorReceives \/ InjectorResumes \/ CorrupterHits \/ CorrupterResumes
        \/ SliceResumes \/ SliceFlushed \/ ThrottleResumes
        \/ \E n \in 0..Longest : SinkTakes(n)
<1>0. LayerTypes /\ ControlTypes
  BY DEF TypeOK
<1>a. None.kind # "ready" /\ Pending.kind # "ready"
  BY DEF None, Pending
<1>1. CASE Environment
  BY <1>0, <1>1 DEF Environment, SetSize, SetRate, SetDelay, SetCorrupt, Set, Inject, Tick,
              PeerReads, Flush, DataStays, LayerTypes, control, owner, outlet, history
<1>2. CASE Poll \/ OwnerPending
  BY <1>2, <1>a DEF Poll, Quiet, OwnerPending, DataStays, owner, outlet, history
<1>3. CASE PassUp \/ Fuse \/ InjectorDrains \/ InjectorPasses \/ CorrupterDrains \/ CorrupterMisses
  <2>1. DataStays
    BY <1>3 DEF PassUp, Fuse, InjectorDrains, InjectorPasses, CorrupterDrains, CorrupterMisses,
                Keeping, DataStays, owner, outlet, history
  <2>2. CASE PassUp
    <3>1. answer \in {Pending, Failed}
      <4>1. answer \in Answers
        BY <1>0 DEF ControlTypes
      <4> QED
        BY <2>2, <4>1 DEF PassUp, Answers, None, Ready
    <3> QED
      BY <2>1, <2>2, <3>1 DEF PassUp, Return
  <2>3. CASE Fuse \/ InjectorDrains \/ InjectorPasses \/ CorrupterDrains \/ CorrupterMisses
    BY <1>a, <2>1, <2>3 DEF Fuse, InjectorDrains, InjectorPasses, CorrupterDrains, CorrupterMisses,
                Running, TailCall, Call, Return
  <2> QED
    BY <1>3, <2>2, <2>3
<1>4. CASE SliceOff \/ SliceOn \/ SliceWrites \/ SliceFlushWaits \/ SliceFlushFails
  <2>1. DataStays
    BY <1>4 DEF SliceOff, SliceOn, SliceWrites, SliceFlushWaits, SliceFlushFails,
                Keeping, DataStays, owner, outlet, history
  <2> QED
    BY <1>4, <1>a, <2>1 DEF SliceOff, SliceOn, SliceWrites, SliceFlushWaits, SliceFlushFails,
                Running, TailCall, Call, Return, Goto
<1>5. CASE ThrottleOff \/ ThrottleOn \/ Acquire \/ Grant
  <2>1. DataStays
    BY <1>0, <1>5 DEF ThrottleOff, ThrottleOn, Acquire, Grant, LayerTypes,
                Keeping, DataStays, owner, outlet, history
  <2>2. CASE ThrottleOff \/ ThrottleOn \/ Grant
    BY <1>a, <2>1, <2>2 DEF ThrottleOff, ThrottleOn, Grant, Running, TailCall, Call, Return, Goto
  <2>3. CASE Acquire
    <3>1. answer = None
      BY <2>3 DEF Acquire, Running
    <3>2. Return(Pending) \/ Return(Ready(0)) \/ Call(Top.src, Top.len) \/ Goto("refill", knob.rate)
      <4>1. layer.bucket.nap \in Nat
        BY <1>0, LayerIs
      <4>2. Top.len \in Nat
        BY <1>0, <2>3, TopIs, Constants DEF Acquire, Running, At, Frames
      <4>3. CASE layer.bucket.nap > 0
        BY <2>3, <4>1, <4>3 DEF Acquire
      <4>4. CASE layer.bucket.nap = 0 /\ Top.len = 0
        BY <2>3, <4>4 DEF Acquire
      <4>5. CASE layer.bucket.nap = 0 /\ Top.len > 0 /\ knob.rate = 0
        BY <2>3, <4>5 DEF Acquire
      <4>6. CASE layer.bucket.nap = 0 /\ Top.len > 0 /\ knob.rate # 0
        BY <2>3, <4>6 DEF Acquire
      <4> QED
        BY <4>1, <4>2, <4>3, <4>4, <4>5, <4>6
    <3> QED
      BY <1>a, <2>1, <3>1, <3>2 DEF Call, Return, Goto
  <2> QED
    BY <1>5, <2>2, <2>3
<1>6. CASE DelayOff \/ DelayArms \/ DelayWaits \/ DelayOver
  BY <1>0, <1>6, <1>a DEF DelayOff, DelayArms, DelayWaits, DelayOver, LayerTypes,
              Keeping, DataStays, owner, outlet, history, Running, TailCall, Return
<1>7. CASE SinkWaits \/ SinkShuts \/ SinkFails
  BY <1>7, <1>a DEF SinkWaits, SinkShuts, SinkFails, AtSink, Return, Keeping, DataStays, owner,
                    outlet, history
<1>8. CASE UNCHANGED vars
  BY <1>8 DEF vars, control, owner, outlet, history, DataStays
<1> QED
  BY <1>1, <1>2, <1>3, <1>4, <1>5, <1>6, <1>7, <1>8 DEF Next, TaskStep, Adapter, Sink, Environment

\* Alone under way is a call with the owner's bytes.
LEMMA OwnersCall ==
  ASSUME ControlTypes, Chain, frames # <<>>, Len(frames) = 1
  PROVE Top.src = "owner"
<1>1. 1 \in DOMAIN frames /\ Top = frames[1]
  BY TopIs
<1>2. 1..(1 - 1) = {}
  OBVIOUS
<1> QED
  BY <1>1, <1>2 DEF Chain

\* An answer that goes up goes to whom the call below was made for.
LEMMA Returns ==
  ASSUME ControlTypes, Chain, frames # <<>>, frames' = Callers, stack' = stack
  PROVE Receiver' = Top.src
<1>1. /\ Len(frames) \in Nat \ {0} /\ frames' = <<>> <=> Len(frames) = 1
      /\ frames' # <<>> => Top' = frames[Len(frames) - 1] /\ Len(frames) - 1 \in 1..Len(frames)
  BY Pops
<1>2. CASE Len(frames) = 1
  BY <1>1, <1>2, OwnersCall DEF Receiver
<1>3. CASE Len(frames) # 1
  <2> DEFINE j == Len(frames) - 1
  <2>1. j \in 1..(Len(frames) - 1) /\ j + 1 = Len(frames)
    BY <1>1, <1>3
  <2>2. frames[j + 1].src = Asker(frames[j])
    BY <2>1 DEF Chain
  <2>3. frames[Len(frames)].src = Asker(frames[Len(frames) - 1])
    BY <2>1, <2>2
  <2>4. Asker(frames[Len(frames) - 1]) = Asker(Top)'
    BY <1>1, <1>3 DEF Asker
  <2> QED
    BY <1>1, <1>3, <2>3, <2>4 DEF Receiver, Top
<1> QED
  BY <1>2, <1>3

\* What is in flight, in numbers.
LEMMA FlightIs ==
  ASSUME LayerTypes, ControlTypes
  PROVE \A k \in Sources : Flight(k) \in 0..Longest
<1>1. answer.n \in 0..Longest /\ layer.owed \in 0..Longest /\ 0 \in 0..Longest
  BY AnswerIs, LayerIs, Constants
<1> QED
  BY <1>1 DEF Flight

\* As long as no answer comes or goes, what the slicer has put aside is for the
\* same one.
LEMMA HolderStays ==
  ASSUME TypeOK, Chosen, Unmixed, Chain, Fits, [Next]_vars, Chain', ControlTypes', FlushDue',
         ~Broken', layer'.flushing
  PROVE Holder' = Holder
<1>0. EnvTypes /\ LayerTypes /\ ControlTypes /\ stack' = stack /\ Len(frames) \in Nat
  <2>1. stack' = stack
    BY Shapes
  <2> QED
    BY <2>1 DEF TypeOK, ControlTypes
<1>1. Running("SlicedWriter", "slice")' \/ Carried'
  BY DEF FlushDue
<1>a. ASSUME Len(frames) <= 1 PROVE Holder = "owner"
  <2>1. CASE frames = <<>>
    BY <2>1 DEF Holder
  <2>2. CASE frames # <<>>
    <3>1. Len(frames) = 1
      BY <1>0, <1>a, <2>2, CallersAre
    <3> QED
      BY <1>0, <2>2, <3>1, OwnersCall DEF Holder
  <2> QED
    BY <2>1, <2>2
<1>2. CASE Stays
  BY <1>2 DEF Stays, Holder, Top
<1>3. CASE OwnersTurn
  BY <1>3 DEF OwnersTurn, Holder
<1>4. CASE Poll
  <2>1. PICK f \in Entered(0, "owner", call.len) : frames' = <<f>>
    BY <1>4 DEF Poll
  <2>2. f.src = "owner" /\ Top' = f /\ frames' # <<>>
    BY <2>1 DEF Entered, Top
  <2>3. frames = <<>>
    BY <1>4 DEF Poll, Quiet
  <2> QED
    BY <2>2, <2>3 DEF Holder
<1>5. CASE frames # <<>> /\ UNCHANGED call /\ GoesOn
  <2>1. PICK step \in Steps, seen \in Rates \cup {0} : Goto(step, seen)
    BY <1>5 DEF GoesOn
  <2> DEFINE f == [Top EXCEPT !.step = step, !.seen = seen]
  <2>2. f \in Frames /\ f.src = Top.src
    BY <1>0, <1>5, TopIs DEF Frames
  <2>3. frames' = Append(Callers, f)
    BY <2>1 DEF Goto
  <2> HIDE DEF f
  <2>4. Top' = f /\ frames' # <<>>
    BY <1>0, <1>5, <2>2, <2>3, Replaces
  <2> QED
    BY <1>5, <2>2, <2>4 DEF Holder
<1>6. CASE frames # <<>> /\ UNCHANGED call /\ TailCall
  <2>1. PICK f \in Entered(Top.at, Top.src, Top.len) : frames' = Append(Callers, f)
    BY <1>6 DEF TailCall
  <2>2. Top.at \in Nat /\ Top.src \in Sources /\ Top.len \in 0..Longest
    BY <1>0, <1>6, TopIs DEF Frames, EnvTypes
  <2>3. f \in Frames /\ f.src = Top.src
    BY <1>0, <2>1, <2>2, EnteredIs
  <2>4. Top' = f /\ frames' # <<>>
    BY <1>0, <1>6, <2>1, <2>3, Replaces
  <2> QED
    BY <1>6, <2>3, <2>4 DEF Holder
<1>b. ASSUME NEW i \in DOMAIN stack, stack \in Buffered, stack[i] = "SlicedWriter",
             frames # <<>>, Top.at < i, stack[Top.at] \in Calling
      PROVE Asker(Top) = "owner" /\ Top.src = "owner"
  <2>1. Top = frames[Len(frames)] /\ Len(frames) \in DOMAIN frames /\ Top.at \in Nat \ {0}
        /\ i \in Nat
    BY <1>0, <1>b, TopIs DEF Frames, EnvTypes
  <2>2. Top.src = "owner"
    BY <1>0, <1>b, <2>1, AboveSlicer
  <2>3. stack[Top.at] \notin {"WriteInjector", "Corrupter"}
    BY <1>b, <2>1 DEF Chosen, Unmixed
  <2> QED
    BY <2>2, <2>3 DEF Asker
<1>7. CASE frames # <<>> /\ UNCHANGED call /\ CallsDown
  <2>1. PICK n \in 0..Longest : Call(Asker(Top), n)
    BY <1>7 DEF CallsDown
  <2>2. PICK f \in Entered(Top.at, Asker(Top), n) : frames' = Append(frames, f)
    BY <2>1 DEF Call
  <2>3. Top.at \in Nat /\ Asker(Top) \in Sources
    BY <1>0, <1>7, TopIs DEF Frames, EnvTypes, Asker, Sources
  <2>4. f \in Frames /\ f.step = "enter" /\ f.src = Asker(Top) /\ Top.at < f.at
    BY <1>0, <2>2, <2>3, EnteredIs
  <2>5. Top' = f /\ frames' # <<>> /\ f.at \in Nat
    BY <1>0, <2>2, <2>4, Pushes DEF Frames, EnvTypes
  <2>6. PICK i \in DOMAIN stack : /\ stack \in Buffered /\ stack[i] = "SlicedWriter"
                                  /\ Top'.at <= i
    BY <1>0, <1>1, <2>4, <2>5 DEF Running, Carried
  <2>7. Top.at < i
    BY <1>0, <2>3, <2>4, <2>5, <2>6 DEF EnvTypes
  <2>8. Asker(Top) = "owner" /\ Top.src = "owner"
    BY <1>7, <1>b, <2>6, <2>7 DEF CallsDown
  <2> QED
    BY <1>7, <2>4, <2>5, <2>8 DEF Holder
<1>8. CASE frames # <<>> /\ UNCHANGED call /\ ComesBack
  <2>1. frames' = Callers /\ answer' # None
    BY <1>8 DEF ComesBack, Return
  <2>2. CASE frames' = <<>>
    <3>1. Len(frames) = 1
      BY <1>0, <1>8, <2>1, <2>2, Pops
    <3> QED
      BY <1>a, <2>2, <3>1 DEF Holder
  <2>3. CASE frames' # <<>>
    <3> DEFINE m == Len(frames) - 1
    <3>1. Top' = frames[m] /\ m \in DOMAIN frames /\ m < Len(frames) /\ m \in 1..(Len(frames) - 1)
          /\ m + 1 = Len(frames) /\ frames[m].at \in Nat
      <4>1. Top' = frames[m] /\ m \in 1..Len(frames) /\ DOMAIN frames = 1..Len(frames)
        BY <1>0, <1>8, <2>1, <2>3, Pops DEF ControlTypes
      <4>2. frames[m].at \in Nat
        BY <1>0, <4>1, CallsAre
      <4> QED
        BY <1>0, <4>1, <4>2
    <3>2. PICK i \in DOMAIN stack : /\ stack \in Buffered /\ stack[i] = "SlicedWriter"
                                    /\ Top'.at < i
      BY <1>0, <1>1, <2>1, <2>3 DEF Running, Carried
    <3>3. i \in Nat
      BY <1>0 DEF EnvTypes
    <3> HIDE DEF m
    <3>4. frames[m].at < i
      BY <3>1, <3>2
    <3>5. frames[m].src = "owner"
      <4>1. frames[m].at <= i
        BY <3>1, <3>3, <3>4
      <4> QED
        BY <1>0, <3>1, <3>2, <4>1, AboveSlicer
    <3>6. stack[frames[m].at] = "ThrottledWriter"
      BY <1>0, <3>1, <3>2, <3>4, AboveSlicer
    <3>7. Asker(frames[m]) = "owner"
      BY <3>5, <3>6 DEF Asker
    <3>8. frames[Len(frames)].src = Asker(frames[m])
      <4>1. frames[m + 1].src = Asker(frames[m])
        BY <3>1 DEF Chain
      <4> QED
        BY <3>1, <4>1
    <3> QED
      BY <1>8, <2>3, <3>1, <3>5, <3>7, <3>8 DEF Holder, Top
  <2> QED
    BY <2>2, <2>3
<1> QED
  BY <1>2, <1>3, <1>4, <1>5, <1>6, <1>7, <1>8, Shapes

\* What has been put aside is nobody's answer yet.
LEMMA FlushIsSilent ==
  ASSUME FlushDue, ~Broken, layer.flushing
  PROVE answer \in {None, Pending} /\ answer.kind # "ready"
BY DEF FlushDue, Running, Carried, None, Pending

\* Where numbers and bytes stay, Balanced does.
LEMMA BalanceKept ==
  ASSUME Balanced, ~Broken, DataStays, LayerTypes, \A k \in Sources : Flight(k)' = Flight(k)
  PROVE Balanced'
<1>1. \A k \in Sources : Limit(k)' = Limit(k)
  BY DEF DataStays, Limit
<1> QED
  BY <1>1 DEF Balanced, DataStays, Sources

\* Every byte is accounted for, whatever happens to its call.
LEMMA BalancedNext ==
  ASSUME TypeOK, Chosen, Unmixed, Owning, Chain, Fits, FlushDue, Balanced, [Next]_vars,
         LayerTypes', ControlTypes', Chain', FlushDue'
  PROVE Balanced'
<1> SUFFICES ASSUME ~Broken' PROVE Balanced'
  BY DEF Balanced
<1>0. /\ EnvTypes /\ LayerTypes /\ ControlTypes /\ OwnerTypes /\ OutletTypes /\ HistoryTypes
      /\ stack' = stack
  BY Shapes DEF TypeOK
<1>a. ~Broken
  BY <1>0, BrokenStays
<1>b. /\ \A k \in Sources : Flight(k) <= Limit(k)
      /\ Len(stream) = told.bytes + Flight("owner")
      /\ \A x \in 1..Flight("owner") : stream[told.bytes + x] = call.next + x - 1
      /\ \A k \in {"WriteInjector", "Corrupter"} : due[k] = Limit(k) - Flight(k)
  BY <1>a DEF Balanced
<1>c. layer'.flushing => answer' \in {None, Pending} /\ answer'.kind # "ready"
  BY DEF FlushDue, Running, Carried, None, Pending
<1>d. layer.flushing => answer \in {None, Pending} /\ answer.kind # "ready"
  BY <1>a, FlushIsSilent
<1>e. /\ None.kind = "none" /\ Pending.kind = "pending" /\ Failed.kind = "failed"
      /\ \A n : Ready(n).kind = "ready" /\ Ready(n).n = n
  BY DEF None, Pending, Failed, Ready
<1>f. /\ \A k \in Sources : Flight(k) \in Nat /\ Limit(k) \in Nat
      /\ Sources = {"owner", "WriteInjector", "Corrupter"}
      /\ Limit("owner") = call.len /\ Limit("WriteInjector") = layer.injecting
      /\ Limit("Corrupter") = layer.garbage
      /\ call.len \in Nat /\ layer.injecting \in Nat /\ layer.garbage \in Nat /\ answer.n \in Nat
      /\ call.next \in Nat /\ told.bytes \in Nat
  <2>1. \A k \in Sources : Flight(k) \in Nat /\ Limit(k) \in Nat
    BY <1>0, FlightIs, LimitIs, Constants
  <2>2. answer.n \in Nat
    BY <1>0, AnswerIs, Constants
  <2>3. call.next \in Nat /\ told.bytes \in Nat
    BY <1>0, Constants DEF OwnerTypes
  <2> QED
    BY <1>0, <2>1, <2>2, <2>3, LimitIs DEF Sources
<1>1. CASE DataStays /\ UNCHANGED <<frames, answer>>
  <2>1. \A k \in Sources : Flight(k)' = Flight(k)
    BY <1>0, <1>1 DEF Flight, Receiver, Holder, Asker, Top, DataStays
  <2> QED
    BY <1>0, <1>1, <1>a, <2>1, BalanceKept
<1>2. CASE DataStays /\ answer.kind # "ready" /\ answer' \in {None, Pending, Failed}
  <2>1. answer'.kind # "ready"
    BY <1>2, <1>e
  <2>2. CASE layer.flushing
    <3>1. layer'.flushing
      BY <1>2, <2>2 DEF DataStays
    <3>2. Holder' = Holder
      BY <3>1, HolderStays
    <3>3. \A k \in Sources : Flight(k)' = Flight(k)
      BY <1>2, <2>1, <3>2 DEF Flight, DataStays
    <3> QED
      BY <1>0, <1>2, <1>a, <3>3, BalanceKept
  <2>3. CASE ~layer.flushing
    <3>1. \A k \in Sources : Flight(k)' = Flight(k)
      BY <1>2, <2>1, <2>3 DEF Flight, DataStays
    <3> QED
      BY <1>0, <1>2, <1>a, <3>1, BalanceKept
  <2> QED
    BY <2>2, <2>3
<1>3. CASE DataStays /\ answer = None /\ answer' = Ready(0)
  <2>1. ~layer'.flushing /\ ~layer.flushing
    BY <1>3, <1>c, <1>e DEF DataStays
  <2>2. \A k \in Sources : Flight(k)' = Flight(k)
    BY <1>3, <1>e, <2>1 DEF Flight
  <2> QED
    BY <1>0, <1>3, <1>a, <2>2, BalanceKept
<1>4. ASSUME NEW op \in {"write", "vectored"}, Offer(op) PROVE Balanced'
  <2>1. PICK n \in (call.len + 1)..MaxBuf :
          call' = [call EXCEPT !.op = op, !.state = "pending", !.len = n]
    BY <1>4 DEF Offer
  <2>2. call'.len = n /\ call'.next = call.next /\ n \in Nat /\ call.len <= n
    BY <1>0, <1>f, <2>1, Constants DEF OwnerTypes
  <2>3. UNCHANGED <<frames, answer, layer, told, stream, due>>
    BY <1>4 DEF Offer, control, outlet, history
  <2>4. \A k \in Sources : Flight(k)' = Flight(k)
    BY <1>0, <2>3 DEF Flight, Receiver, Holder, Asker, Top
  <2>5. \A k \in Sources : Flight(k)' <= Limit(k)'
    <3>1. Flight("owner") <= call.len /\ Flight("owner") \in Nat
      BY <1>b, <1>f
    <3>2. Flight("owner") <= n
      BY <1>f, <2>2, <3>1
    <3>3. ASSUME NEW k \in Sources, k # "owner" PROVE Limit(k)' = Limit(k)
      BY <2>3, <3>3 DEF Limit
    <3>4. Limit("owner")' = n
      BY <2>2 DEF Limit
    <3> QED
      BY <1>b, <2>4, <3>2, <3>3, <3>4
  <2>6. \A k \in {"WriteInjector", "Corrupter"} : due'[k] = Limit(k)' - Flight(k)'
    <3>1. \A k \in {"WriteInjector", "Corrupter"} : Limit(k)' = Limit(k) /\ due'[k] = due[k]
      BY <2>3 DEF Limit
    <3> QED
      BY <1>b, <1>f, <2>4, <3>1
  <2>7. /\ Len(stream') = told'.bytes + Flight("owner")'
        /\ \A x \in 1..Flight("owner")' : stream'[told'.bytes + x] = call'.next + x - 1
    BY <1>b, <1>f, <2>2, <2>3, <2>4
  <2> QED
    BY <2>5, <2>6, <2>7 DEF Balanced
<1>5. CASE Shutdown
  <2>1. call' = [call EXCEPT !.op = "shutdown", !.state = "pending"]
    BY <1>5 DEF Shutdown
  <2>2. call'.len = call.len /\ call'.next = call.next
    BY <1>0, <2>1 DEF OwnerTypes
  <2>3. UNCHANGED <<frames, answer, layer, told, stream, due>>
    BY <1>5 DEF Shutdown, control, outlet, history
  <2>4. \A k \in Sources : Flight(k)' = Flight(k) /\ Limit(k)' = Limit(k)
    BY <1>0, <2>2, <2>3 DEF Flight, Receiver, Holder, Asker, Top, Limit
  <2> QED
    BY <1>b, <1>f, <2>2, <2>3, <2>4 DEF Balanced
<1>6. CASE Abandon
  <2>1. PICK skipped \in {0, call.len} :
          call' = [call EXCEPT !.state = "idle", !.len = 0, !.next = call.next + skipped]
    BY <1>6 DEF Abandon
  <2>2. UNCHANGED <<frames, answer, layer, told, stream, due>> /\ frames = <<>> /\ answer = None
    BY <1>6 DEF Abandon, Quiet, control, outlet, history
  <2>3. ~layer.flushing
    <3>1. layer.flushing => Carried
      BY <1>a, <2>2 DEF FlushDue, Running, At
    <3>2. Carried => Careful
      BY DEF Carried, Chosen, Unmixed
    <3> QED
      BY <1>6, <3>1, <3>2 DEF Abandon
  <2>4. \A k : Flight(k) = 0 /\ Flight(k)' = 0
    BY <1>e, <2>2, <2>3 DEF Flight
  <2>5. \A k \in {"WriteInjector", "Corrupter"} : Limit(k)' = Limit(k)
    BY <2>2 DEF Limit
  <2>6. Limit("owner")' = 0
    BY <1>0, <2>1 DEF Limit, OwnerTypes
  <2>7. \A k \in Sources : Flight(k)' <= Limit(k)'
    BY <1>f, <2>4, <2>5, <2>6
  <2>8. \A k \in {"WriteInjector", "Corrupter"} : due'[k] = Limit(k)' - Flight(k)'
    BY <1>b, <1>f, <2>2, <2>4, <2>5
  <2>9. /\ Len(stream') = told'.bytes + Flight("owner")'
        /\ \A x \in 1..Flight("owner")' : stream'[told'.bytes + x] = call'.next + x - 1
    BY <1>b, <1>f, <2>2, <2>4
  <2> QED
    BY <2>7, <2>8, <2>9 DEF Balanced
<1>7. CASE OwnerReady
  <2>1. /\ frames = <<>> /\ answer.kind = "ready" /\ answer' = None /\ ~layer.flushing
        /\ UNCHANGED <<layer, frames, stream, due>>
    BY <1>7, <1>d DEF OwnerReady, outlet, history
  <2>2. Flight("owner") = answer.n /\ \A k \in {"WriteInjector", "Corrupter"} : Flight(k) = 0
    BY <2>1 DEF Flight, Receiver
  <2>3. \A k : Flight(k)' = 0
    BY <1>e, <2>1 DEF Flight
  <2>4. told'.bytes = told.bytes + answer.n
    <3>1. CASE call.op = "shutdown"
      <4>1. told' = told /\ call.len = 0
        BY <1>7, <3>1 DEF OwnerReady, Owning
      <4>2. answer.n <= 0
        BY <1>b, <1>f, <2>2, <4>1
      <4> QED
        BY <1>f, <4>1, <4>2
    <3>2. CASE call.op # "shutdown"
      BY <1>7, <3>2 DEF OwnerReady
    <3> QED
      BY <3>1, <3>2
  <2>5. call'.len \in Nat
    BY BufferNext, Constants
  <2>6. \A k \in {"WriteInjector", "Corrupter"} : Limit(k)' = Limit(k)
    BY <2>1 DEF Limit
  <2>7. \A k \in Sources : Flight(k)' <= Limit(k)'
    BY <1>f, <2>3, <2>5, <2>6 DEF Limit
  <2>8. \A k \in {"WriteInjector", "Corrupter"} : due'[k] = Limit(k)' - Flight(k)'
    BY <1>b, <1>f, <2>1, <2>2, <2>3, <2>6
  <2>9. /\ Len(stream') = told'.bytes + Flight("owner")'
        /\ \A x \in 1..Flight("owner")' : stream'[told'.bytes + x] = call'.next + x - 1
    BY <1>b, <1>f, <2>1, <2>2, <2>3, <2>4
  <2> QED
    BY <2>7, <2>8, <2>9 DEF Balanced
<1>8. ~OwnerFails
  BY <1>0 DEF OwnerFails, Broken, OwnerTypes
<1>9. CASE InjectorReceives
  <2> DEFINE h == Head(layer.queue)
  <2>1. /\ layer.injecting = 0 /\ answer = None /\ UNCHANGED <<call, told, stream, frames, answer>>
        /\ layer' = [layer EXCEPT !.injecting = h, !.queue = Tail(layer.queue)]
        /\ due' = [due EXCEPT !["WriteInjector"] = due["WriteInjector"] + h]
    BY <1>9 DEF InjectorReceives, Running, Keeping, owner, outlet, control
  <2>2. h \in Nat
    <3>1. layer.queue \in Seq(0..MaxPayload) /\ layer.queue # <<>>
      BY <1>0, <1>9, LayerIs DEF InjectorReceives
    <3> QED
      BY <3>1, Constants
  <2> HIDE DEF h
  <2>3. /\ layer'.injecting = h /\ UNCHANGED <<layer.garbage, layer.flushing, layer.owed>>
        /\ due'["WriteInjector"] = due["WriteInjector"] + h /\ due'["Corrupter"] = due["Corrupter"]
    BY <1>0, <2>1 DEF LayerTypes, HistoryTypes
  <2>4. \A k \in Sources : Flight(k)' = Flight(k)
    BY <1>0, <2>1, <2>3 DEF Flight, Receiver, Holder, Asker, Top
  <2>5. Flight("WriteInjector") = 0
    BY <1>b, <1>f, <2>1
  <2>6. /\ Limit("owner")' = Limit("owner") /\ Limit("Corrupter")' = Limit("Corrupter")
        /\ Limit("WriteInjector")' = h
    BY <2>1, <2>3 DEF Limit
  <2>7. \A k \in Sources : Flight(k)' <= Limit(k)'
    BY <1>b, <1>f, <2>2, <2>4, <2>5, <2>6
  <2>8. \A k \in {"WriteInjector", "Corrupter"} : due'[k] = Limit(k)' - Flight(k)'
    BY <1>b, <1>f, <2>1, <2>2, <2>3, <2>4, <2>5, <2>6
  <2>9. /\ Len(stream') = told'.bytes + Flight("owner")'
        /\ \A x \in 1..Flight("owner")' : stream'[told'.bytes + x] = call'.next + x - 1
    BY <1>b, <1>f, <2>1, <2>4
  <2> QED
    BY <2>7, <2>8, <2>9 DEF Balanced
<1>10. CASE CorrupterHits
  <2>1. PICK n \in Garbage : /\ layer' = [layer EXCEPT !.garbage = n]
                             /\ due' = [due EXCEPT !["Corrupter"] = due["Corrupter"] + n]
    BY <1>10 DEF CorrupterHits
  <2>2. /\ layer.garbage = 0 /\ answer = None /\ UNCHANGED <<call, told, stream, frames, answer>>
        /\ n \in Nat
    BY <1>10, Constants DEF CorrupterHits, Running, owner, outlet, control, Garbage
  <2>3. /\ layer'.garbage = n /\ UNCHANGED <<layer.injecting, layer.flushing, layer.owed>>
        /\ due'["Corrupter"] = due["Corrupter"] + n
        /\ due'["WriteInjector"] = due["WriteInjector"]
    BY <1>0, <2>1 DEF LayerTypes, HistoryTypes
  <2>4. \A k \in Sources : Flight(k)' = Flight(k)
    BY <1>0, <2>2, <2>3 DEF Flight, Receiver, Holder, Asker, Top
  <2>5. Flight("Corrupter") = 0
    BY <1>b, <1>f, <2>2
  <2>6. /\ Limit("owner")' = Limit("owner") /\ Limit("WriteInjector")' = Limit("WriteInjector")
        /\ Limit("Corrupter")' = n
    BY <2>2, <2>3 DEF Limit
  <2>7. \A k \in Sources : Flight(k)' <= Limit(k)'
    BY <1>b, <1>f, <2>2, <2>4, <2>5, <2>6
  <2>8. \A k \in {"WriteInjector", "Corrupter"} : due'[k] = Limit(k)' - Flight(k)'
    BY <1>b, <1>f, <2>2, <2>3, <2>4, <2>5, <2>6
  <2>9. /\ Len(stream') = told'.bytes + Flight("owner")'
        /\ \A x \in 1..Flight("owner")' : stream'[told'.bytes + x] = call'.next + x - 1
    BY <1>b, <1>f, <2>2, <2>4
  <2> QED
    BY <2>7, <2>8, <2>9 DEF Balanced
<1>11. CASE InjectorResumes
  <2>1. /\ At("WriteInjector") /\ answer.kind = "ready" /\ frames # <<>>
        /\ UNCHANGED <<call, told, stream, due>>
    BY <1>11 DEF InjectorResumes, Resumed, At, Keeping, owner, outlet, history
  <2>2. answer.n \in 1..layer.injecting
    BY <1>11 DEF InjectorResumes, Return, Broken
  <2>3. layer' = [layer EXCEPT !.injecting = layer.injecting - answer.n] /\ answer' = None
    BY <1>11, <2>2 DEF InjectorResumes, Goto
  <2>4. /\ layer'.injecting = layer.injecting - answer.n
        /\ UNCHANGED <<layer.garbage, layer.flushing, layer.owed>> /\ ~layer'.flushing
    BY <1>0, <1>d, <2>1, <2>3 DEF LayerTypes
  <2>5. \A k : Flight(k)' = 0
    BY <1>e, <2>3, <2>4 DEF Flight
  <2>6. /\ Flight("WriteInjector") = answer.n
        /\ Flight("owner") = 0 /\ Flight("Corrupter") = 0
    BY <2>1, AskerAt DEF Flight, Receiver
  <2>7. /\ Limit("owner")' = Limit("owner") /\ Limit("Corrupter")' = Limit("Corrupter")
        /\ Limit("WriteInjector")' = layer.injecting - answer.n
    BY <2>1, <2>4 DEF Limit
  <2>8. \A k \in Sources : Flight(k)' <= Limit(k)'
    BY <1>f, <2>2, <2>5, <2>7
  <2>9. \A k \in {"WriteInjector", "Corrupter"} : due'[k] = Limit(k)' - Flight(k)'
    BY <1>b, <1>f, <2>1, <2>5, <2>6, <2>7
  <2>10. /\ Len(stream') = told'.bytes + Flight("owner")'
         /\ \A x \in 1..Flight("owner")' : stream'[told'.bytes + x] = call'.next + x - 1
    BY <1>b, <1>f, <2>1, <2>5, <2>6
  <2> QED
    BY <2>8, <2>9, <2>10 DEF Balanced
<1>12. CASE CorrupterResumes
  <2>1. /\ At("Corrupter") /\ answer.kind = "ready" /\ frames # <<>>
        /\ UNCHANGED <<call, told, stream, due>>
    BY <1>12 DEF CorrupterResumes, Resumed, At, Keeping, owner, outlet, history
  <2>2. answer.n \in 1..layer.garbage
    BY <1>12 DEF CorrupterResumes, Return, Broken
  <2>3. layer' = [layer EXCEPT !.garbage = layer.garbage - answer.n] /\ answer' = None
    BY <1>12, <2>2 DEF CorrupterResumes, Goto, TailCall
  <2>4. /\ layer'.garbage = layer.garbage - answer.n
        /\ UNCHANGED <<layer.injecting, layer.flushing, layer.owed>> /\ ~layer'.flushing
    BY <1>0, <1>d, <2>1, <2>3 DEF LayerTypes
  <2>5. \A k : Flight(k)' = 0
    BY <1>e, <2>3, <2>4 DEF Flight
  <2>6. /\ Flight("Corrupter") = answer.n
        /\ Flight("owner") = 0 /\ Flight("WriteInjector") = 0
    BY <2>1, AskerAt DEF Flight, Receiver
  <2>7. /\ Limit("owner")' = Limit("owner") /\ Limit("WriteInjector")' = Limit("WriteInjector")
        /\ Limit("Corrupter")' = layer.garbage - answer.n
    BY <2>1, <2>4 DEF Limit
  <2>8. \A k \in Sources : Flight(k)' <= Limit(k)'
    BY <1>f, <2>2, <2>5, <2>7
  <2>9. \A k \in {"WriteInjector", "Corrupter"} : due'[k] = Limit(k)' - Flight(k)'
    BY <1>b, <1>f, <2>1, <2>5, <2>6, <2>7
  <2>10. /\ Len(stream') = told'.bytes + Flight("owner")'
         /\ \A x \in 1..Flight("owner")' : stream'[told'.bytes + x] = call'.next + x - 1
    BY <1>b, <1>f, <2>1, <2>5, <2>6
  <2> QED
    BY <2>8, <2>9, <2>10 DEF Balanced
<1>13. ASSUME UNCHANGED <<call, told, stream, due, layer.injecting, layer.garbage>>,
              \A k \in Sources : Flight(k)' = Flight(k)
       PROVE Balanced'
  <2>1. \A k \in Sources : Limit(k)' = Limit(k)
    BY <1>13 DEF Limit
  <2> QED
    BY <1>13, <1>b, <1>f, <2>1 DEF Balanced
<1>14. CASE SliceResumes
  <2>1. /\ At("SlicedWriter") /\ answer.kind = "ready" /\ frames # <<>>
        /\ UNCHANGED <<call, told, stream, due>> /\ Goto("slice", 0)
        /\ layer' = [layer EXCEPT !.flushing = TRUE, !.owed = answer.n]
    BY <1>14 DEF SliceResumes, Resumed, At, Keeping, owner, outlet, history
  <2>2. /\ layer'.flushing /\ layer'.owed = answer.n
        /\ UNCHANGED <<layer.injecting, layer.garbage>>
    BY <1>0, <2>1 DEF LayerTypes
  <2>3. answer' = None /\ answer'.kind # "ready"
    BY <1>e, <2>1 DEF Goto
  <2>4. Holder' = Holder /\ Receiver = Holder
    BY <2>1, <2>2, HolderStays, AskerAt DEF Receiver, Holder
  <2>5. \A k \in Sources : Flight(k)' = Flight(k)
    BY <2>1, <2>2, <2>3, <2>4 DEF Flight
  <2> QED
    BY <1>13, <2>1, <2>2, <2>5
<1>15. CASE SliceFlushed
  <2>1. /\ At("SlicedWriter") /\ answer = None /\ frames # <<>> /\ layer.flushing
        /\ UNCHANGED <<call, told, stream, due>> /\ Return(Ready(layer.owed))
        /\ layer' = [layer EXCEPT !.flushing = FALSE, !.owed = 0]
    BY <1>15 DEF SliceFlushed, Running, At, owner, history
  <2>2. ~layer'.flushing /\ UNCHANGED <<layer.injecting, layer.garbage>>
    BY <1>0, <2>1 DEF LayerTypes
  <2>3. answer'.kind = "ready" /\ answer'.n = layer.owed /\ frames' = Callers
    BY <1>e, <2>1 DEF Return
  <2>4. Receiver' = Holder
    BY <1>0, <2>1, <2>3, Returns DEF Holder
  <2>5. \A k \in Sources : Flight(k)' = Flight(k)
    BY <1>e, <2>1, <2>3, <2>4 DEF Flight
  <2> QED
    BY <1>13, <2>1, <2>2, <2>5
<1>16. CASE ThrottleResumes
  <2>1. /\ At("ThrottledWriter") /\ answer.kind = "ready" /\ frames # <<>>
        /\ UNCHANGED <<call, told, stream, due, answer>> /\ frames' = Callers
        /\ layer' = [layer EXCEPT !.bucket = Spent(layer.bucket, answer.n)]
    BY <1>16 DEF ThrottleResumes, Resumed, At, Keeping, owner, outlet, history, Return
  <2>2. UNCHANGED <<layer.injecting, layer.garbage>>
    BY <1>0, <2>1 DEF LayerTypes
  <2>3. Receiver' = Top.src /\ Receiver = Top.src
    BY <1>0, <2>1, Returns, AskerAt DEF Receiver
  <2>4. \A k \in Sources : Flight(k)' = Flight(k)
    BY <2>1, <2>3 DEF Flight
  <2> QED
    BY <1>13, <2>1, <2>2, <2>4
<1>17. ASSUME NEW n \in 0..Longest, SinkTakes(n) PROVE Balanced'
  <2>1. /\ frames # <<>> /\ answer = None /\ n <= Top.len /\ frames' = Callers
        /\ answer' = Ready(n) /\ UNCHANGED <<layer, call, told>>
    BY <1>17 DEF SinkTakes, AtSink, Return, owner
  <2>2. ~layer.flushing /\ ~layer'.flushing
    BY <1>c, <1>e, <2>1
  <2>3. \A k : Flight(k) = 0
    BY <1>e, <2>1, <2>2 DEF Flight
  <2>p. PICK src : src = Top.src
    OBVIOUS
  <2>4. Receiver' = src
    BY <1>0, <2>1, <2>p, Returns
  <2>5. Flight(src)' = n /\ \A k : k # src => Flight(k)' = 0
    BY <1>e, <2>1, <2>4 DEF Flight
  <2>6. src \in Sources /\ Top.len \in Nat /\ n \in Nat /\ Top.len <= Limit(src)
    <3>1. Top \in Frames /\ Len(frames) \in DOMAIN frames /\ Top = frames[Len(frames)]
      BY <1>0, <2>1, TopIs
    <3> QED
      BY <2>p, <3>1, Constants DEF Frames, Fits
  <2>7. \A k \in Sources : Limit(k)' = Limit(k)
    BY <2>1 DEF Limit
  <2>8. \A k \in Sources : Flight(k)' <= Limit(k)'
    <3>1. n <= Limit(src)
      BY <1>f, <2>1, <2>6
    <3> QED
      BY <1>f, <2>5, <2>7, <3>1
  <2>9. CASE src = "owner"
    <3>1. stream' = stream \o Bytes(call.next, n) /\ due' = due
      BY <1>17, <2>9, <2>p DEF SinkTakes
    <3>2. Len(stream) = told.bytes /\ stream \in Seq(1..Total)
      BY <1>0, <1>b, <1>f, <2>3 DEF OutletTypes
    <3>3. /\ Bytes(call.next, n) \in Seq(Nat) /\ Len(Bytes(call.next, n)) = n
          /\ \A x \in 1..n : Bytes(call.next, n)[x] = call.next + x - 1
      <4>1. call.next >= 1
        BY <1>0 DEF OwnerTypes
      <4> QED
        BY <1>f, <2>6, <4>1 DEF Bytes
    <3> HIDE DEF Bytes
    <3>4. /\ Len(stream') = told.bytes + n
          /\ \A x \in 1..n : stream'[told.bytes + x] = call.next + x - 1
      <4>1. 1..Total \subseteq Nat
        BY Constants
      <4>2. stream \in Seq(Nat)
        BY <3>2, <4>1, SeqMonotonic
      <4>3. /\ Len(stream') = Len(stream) + Len(Bytes(call.next, n))
            /\ \A x \in 1..Len(Bytes(call.next, n)) :
                 stream'[Len(stream) + x] = Bytes(call.next, n)[x]
        <5>1. \A t \in Seq(Nat) :
                 /\ Len(stream \o t) = Len(stream) + Len(t)
                 /\ \A x \in 1..Len(t) : (stream \o t)[Len(stream) + x] = t[x]
          BY <4>2, Joined
        <5> QED
          BY <3>1, <3>3, <5>1, Zenon
      <4>4. Len(stream) = told.bytes /\ Len(Bytes(call.next, n)) = n
        BY <3>2, <3>3
      <4>5. /\ Len(stream') = told.bytes + n
            /\ \A x \in 1..n : stream'[told.bytes + x] = Bytes(call.next, n)[x]
        BY <4>3, <4>4, Zenon
      <4> QED
        BY <3>3, <4>5
    <3>5. \A k \in {"WriteInjector", "Corrupter"} : due'[k] = Limit(k)' - Flight(k)'
      BY <1>b, <1>f, <2>3, <2>5, <2>7, <2>9, <3>1
    <3> QED
      BY <2>1, <2>5, <2>8, <2>9, <3>4, <3>5 DEF Balanced
  <2>10. CASE src # "owner"
    <3>1. due' = [due EXCEPT ![src] = due[src] - n] /\ stream' = stream
      BY <1>17, <2>10, <2>p DEF SinkTakes
    <3>2. Flight("owner")' = 0
      BY <2>5, <2>10
    <3>3. /\ Len(stream') = told'.bytes + Flight("owner")'
          /\ \A x \in 1..Flight("owner")' : stream'[told'.bytes + x] = call'.next + x - 1
      BY <1>b, <1>f, <2>1, <2>3, <3>1, <3>2
    <3>4. ASSUME NEW k \in {"WriteInjector", "Corrupter"} PROVE due'[k] = Limit(k)' - Flight(k)'
      <4>1. due[k] = Limit(k) /\ Limit(k) \in Nat /\ Limit(k)' = Limit(k)
        BY <1>b, <1>f, <2>3, <2>7
      <4>2. k \in DOMAIN due
        BY <1>0 DEF HistoryTypes
      <4>3. CASE k = src
        BY <2>5, <2>6, <3>1, <4>1, <4>2, <4>3
      <4>4. CASE k # src
        BY <2>5, <3>1, <4>1, <4>2, <4>4
      <4> QED
        BY <4>3, <4>4
    <3> QED
      BY <2>8, <3>3, <3>4 DEF Balanced
  <2> QED
    BY <2>9, <2>10
<1> QED
  BY <1>1, <1>2, <1>3, <1>4, <1>5, <1>6, <1>7, <1>8, <1>9, <1>10, <1>11, <1>12, <1>14, <1>15,
     <1>16, <1>17, DataSteps

-----------------------------------------------------------------------------
(* The types of the rest, and of the whole.                                 *)

\* As long as a call is under way the stream works.
LEMMA Underway ==
  ASSUME Owning, frames # <<>> \/ answer # None, answer # Failed
  PROVE ~Broken /\ call.state = "pending"
BY DEF Broken, Owning

\* What the sink takes was on offer, and nothing else was in flight.
LEMMA Takes ==
  ASSUME TypeOK, Owning, Fits, FlushDue', Balanced, NEW n \in 0..Longest, SinkTakes(n),
         stack' = stack, [Next]_vars
  PROVE /\ n <= Limit(Top.src) /\ Top.src \in Sources /\ n \in Nat
        /\ \A k \in Sources : Flight(k) = 0
        /\ ~Broken
        /\ \A k \in {"WriteInjector", "Corrupter"} : due[k] = Limit(k)
<1>0. EnvTypes /\ LayerTypes /\ ControlTypes /\ OwnerTypes
  BY DEF TypeOK
<1>1. /\ frames # <<>> /\ answer = None /\ n <= Top.len /\ answer' = Ready(n)
      /\ UNCHANGED <<layer, call>>
  BY DEF SinkTakes, AtSink, Return, owner
<1>2. ~Broken
  BY <1>1, Underway DEF None, Failed
<1>3. ~Broken'
  BY <1>1, Underway DEF Broken, Ready, Failed, None
<1>4. ~layer.flushing
  BY <1>1, <1>3 DEF FlushDue, Running, Carried, Ready, None, Pending
<1>5. \A k \in Sources : Flight(k) = 0
  BY <1>1, <1>4 DEF Flight, None
<1>6. Top.src \in Sources /\ n <= Limit(Top.src) /\ n \in Nat
  <2>1. Top \in Frames /\ Len(frames) \in DOMAIN frames /\ Top = frames[Len(frames)]
    BY <1>0, <1>1, TopIs
  <2>2. Top.src \in Sources /\ Top.len \in Nat /\ Top.len <= Limit(Top.src) /\ n \in Nat
    BY <2>1, Constants DEF Frames, Fits
  <2>3. Limit(Top.src) \in Nat
    BY <1>0, <2>2, LimitIs, Constants
  <2> QED
    BY <1>1, <2>2, <2>3
<1>7. ASSUME NEW k \in {"WriteInjector", "Corrupter"} PROVE due[k] = Limit(k)
  <2>1. k \in Sources /\ due[k] = Limit(k) - Flight(k)
    BY <1>2 DEF Balanced, Sources
  <2>2. Limit(k) \in Nat
    BY <1>0, <2>1, LimitIs, Constants
  <2> QED
    BY <1>5, <2>1, <2>2
<1> QED
  BY <1>2, <1>5, <1>6, <1>7

\* The knobs.
LEMMA EnvNext ==
  ASSUME TypeOK, Fits, [Next]_vars
  PROVE EnvTypes'
<1>0. stack \in Seq(Kinds) /\ knob \in Knobs /\ left \in Allowances /\ stack' = stack
  BY Shapes DEF TypeOK, EnvTypes
<1>1. CASE UNCHANGED <<knob, left>>
  BY <1>0, <1>1 DEF EnvTypes
<1>2. ASSUME NEW name \in {"size", "rate", "delay", "corrupt"}, NEW value,
             Set(name, value), [knob EXCEPT ![name] = value] \in Knobs
      PROVE EnvTypes'
  <2>1. left' = [left EXCEPT !.sets = left.sets - 1] /\ left.sets > 0 /\ knob' \in Knobs
    BY <1>2 DEF Set
  <2>2. left' \in Allowances
    BY <1>0, <2>1 DEF Allowances
  <2> QED
    BY <1>0, <2>1, <2>2 DEF EnvTypes
<1>3. CASE SetSize
  <2>1. PICK s \in Sizes : Set("size", s)
    BY <1>3 DEF SetSize
  <2> QED
    BY <1>0, <1>2, <2>1 DEF Knobs
<1>4. CASE SetRate
  <2>1. PICK r \in Rates : Set("rate", r)
    BY <1>4 DEF SetRate
  <2> QED
    BY <1>0, <1>2, <2>1 DEF Knobs
<1>5. CASE SetDelay
  <2>1. PICK d \in Delays : Set("delay", d)
    BY <1>5 DEF SetDelay
  <2> QED
    BY <1>0, <1>2, <2>1 DEF Knobs
<1>6. CASE SetCorrupt
  <2>1. PICK c \in Corrupts : Set("corrupt", c)
    BY <1>6 DEF SetCorrupt
  <2> QED
    BY <1>0, <1>2, <2>1 DEF Knobs
<1>7. CASE Inject
  BY <1>0, <1>7 DEF Inject, EnvTypes, Allowances
<1>8. CASE CorrupterHits
  <2>1. knob' = knob /\ (left' = left \/ (left.hits > 0 /\ left' = [left EXCEPT !.hits = left.hits - 1]))
    BY <1>8 DEF CorrupterHits
  <2>2. left' \in Allowances
    BY <1>0, <2>1 DEF Allowances
  <2> QED
    BY <1>0, <2>1, <2>2 DEF EnvTypes
<1>9. CASE Tick \/ PeerReads \/ Offer("write") \/ Offer("vectored") \/ Shutdown \/ Flush \/ Abandon
           \/ Poll \/ OwnerReady \/ OwnerPending \/ OwnerFails \/ Sink
  BY <1>1, <1>9 DEF Tick, PeerReads, Offer, Shutdown, Flush, Abandon, Poll, OwnerReady,
       OwnerPending, OwnerFails, Sink, SinkTakes, SinkWaits, SinkShuts, SinkFails, Keeping, env
<1>10. CASE Adapter /\ ~CorrupterHits
  BY <1>1, <1>10 DEF Adapter, PassUp, Fuse, InjectorDrains, InjectorReceives, InjectorPasses,
       InjectorResumes, CorrupterDrains, CorrupterMisses, CorrupterResumes,
       SliceOff, SliceOn, SliceWrites, SliceResumes, SliceFlushed, SliceFlushWaits,
       SliceFlushFails, ThrottleOff, ThrottleOn, Acquire, Grant, ThrottleResumes, DelayOff,
       DelayArms, DelayWaits, DelayOver, Keeping, env
<1>11. CASE UNCHANGED vars
  BY <1>1, <1>11 DEF vars, env
<1> QED
  BY <1>3, <1>4, <1>5, <1>6, <1>7, <1>8, <1>9, <1>10, <1>11 DEF Next, Environment, TaskStep

\* The owner's side.
LEMMA OwnerNext ==
  ASSUME TypeOK, Owning, Fits, Balanced, [Next]_vars
  PROVE OwnerTypes' /\ Owning'
<1>0. /\ EnvTypes /\ LayerTypes /\ ControlTypes /\ OwnerTypes
      /\ call.len \in 0..MaxBuf /\ call.next \in 1..(Total + 1) /\ told.bytes \in 0..Total
      /\ MaxBuf \in Nat /\ Total \in Nat /\ answer.n \in Nat
      /\ told.bytes < call.next /\ call.next + call.len <= Total + 1
  <2>1. answer.n \in Nat
    BY AnswerIs, Constants DEF TypeOK
  <2> QED
    BY <2>1, Constants DEF TypeOK, OwnerTypes, Owning
<1>1. CASE UNCHANGED <<call, told>>
  <2>1. frames' # <<>> \/ answer' # None => frames # <<>> \/ answer # None \/ Poll
    BY Shapes DEF Stays, OwnersTurn
  <2>2. Poll => call.state = "pending"
    BY DEF Poll
  <2> QED
    BY <1>0, <1>1, <2>1, <2>2 DEF OwnerTypes, Owning
<1>2. ASSUME NEW op \in {"write", "vectored"}, Offer(op) PROVE OwnerTypes' /\ Owning'
  <2>1. PICK n \in (call.len + 1)..MaxBuf :
          /\ call.next + n <= Total + 1
          /\ call' = [call EXCEPT !.op = op, !.state = "pending", !.len = n]
    BY <1>2 DEF Offer
  <2>2. n \in 0..MaxBuf /\ n > 0
    BY <1>0
  <2>3. frames' = <<>> /\ answer' = None /\ told' = told
    BY <1>2 DEF Offer, Quiet, control
  <2>4. /\ call'.op = op /\ call'.state = "pending" /\ call'.len = n /\ call'.next = call.next
        /\ call' = [op |-> op, state |-> "pending", next |-> call.next, len |-> n]
    BY <1>0, <2>1 DEF OwnerTypes
  <2>5. OwnerTypes'
    BY <1>0, <2>2, <2>3, <2>4 DEF OwnerTypes
  <2> QED
    BY <1>0, <2>1, <2>2, <2>3, <2>4, <2>5 DEF Owning
<1>3. CASE Shutdown
  <2>1. call' = [call EXCEPT !.op = "shutdown", !.state = "pending"] /\ call.state = "idle"
    BY <1>3 DEF Shutdown
  <2>2. frames' = <<>> /\ answer' = None /\ told' = told
    BY <1>3 DEF Shutdown, Quiet, control
  <2>3. /\ call' = [op |-> "shutdown", state |-> "pending", next |-> call.next, len |-> call.len]
        /\ call.len = 0
    BY <1>0, <2>1 DEF OwnerTypes, Owning
  <2> QED
    BY <1>0, <2>2, <2>3 DEF OwnerTypes, Owning
<1>4. CASE Abandon
  <2>1. PICK skipped \in {0, call.len} :
          call' = [call EXCEPT !.state = "idle", !.len = 0, !.next = call.next + skipped]
    BY <1>4 DEF Abandon
  <2>2. frames' = <<>> /\ answer' = None /\ told' = told
    BY <1>4 DEF Abandon, Quiet, control
  <2>3. call' = [op |-> call.op, state |-> "idle", next |-> call.next + skipped, len |-> 0]
    BY <1>0, <2>1 DEF OwnerTypes
  <2>4. call.next + skipped \in 1..(Total + 1) /\ told.bytes < call.next + skipped
    BY <1>0
  <2>5. call.op \in {"write", "vectored", "shutdown"}
    BY <1>0 DEF OwnerTypes
  <2> QED
    BY <1>0, <2>2, <2>3, <2>4, <2>5 DEF OwnerTypes, Owning
<1>5. CASE OwnerReady
  <2>1. frames = <<>> /\ frames' = <<>> /\ answer.kind = "ready" /\ answer' = None
    BY <1>5 DEF OwnerReady
  <2>2. answer.n <= call.len
    <3>1. answer # None /\ answer # Failed
      BY <2>1 DEF None, Failed
    <3>2. Flight("owner") = answer.n
      BY <2>1 DEF Flight, Receiver
    <3> QED
      BY <3>1, <3>2, Underway DEF Balanced, Sources, Limit
  <2>3. call.op \in {"write", "vectored", "shutdown"} /\ told.zero \in BOOLEAN
    BY <1>0 DEF OwnerTypes
  <2>4. CASE call.op = "shutdown"
    <3>1. call' = [op |-> call.op, state |-> "closed", next |-> call.next, len |-> call.len]
      BY <1>0, <1>5, <2>4 DEF OwnerReady, OwnerTypes
    <3>2. told' = told /\ call.len = 0
      BY <1>5, <2>4 DEF OwnerReady, Owning
    <3> QED
      BY <1>0, <2>1, <2>3, <3>1, <3>2 DEF OwnerTypes, Owning
  <2>5. CASE call.op # "shutdown"
    <3>1. call' = [op |-> call.op, state |-> "idle", next |-> call.next + answer.n, len |-> 0]
      BY <1>0, <1>5, <2>5 DEF OwnerReady, OwnerTypes
    <3>2. told' = [bytes |-> told.bytes + answer.n, zero |-> told.zero \/ answer.n = 0]
      BY <1>5, <2>5 DEF OwnerReady
    <3>3. /\ call.next + answer.n \in 1..(Total + 1) /\ told.bytes + answer.n \in 0..Total
          /\ told.bytes + answer.n < call.next + answer.n
      BY <1>0, <2>2
    <3>4. (told.zero \/ answer.n = 0) \in BOOLEAN
      BY <2>3
    <3>5. OwnerTypes'
      BY <1>0, <2>3, <3>1, <3>2, <3>3, <3>4 DEF OwnerTypes
    <3>6. call'.len = 0 /\ call'.next = call.next + answer.n /\ told'.bytes = told.bytes + answer.n
      BY <3>1, <3>2
    <3>7. call'.next + call'.len <= Total + 1 /\ call'.state = "idle"
      BY <1>0, <3>1, <3>3
    <3> QED
      BY <2>1, <3>3, <3>5, <3>6, <3>7 DEF Owning
  <2> QED
    BY <2>4, <2>5
<1>6. CASE OwnerFails
  <2>1. /\ call' = [call EXCEPT !.state = "failed"] /\ frames' = <<>> /\ answer' = None
        /\ told' = told /\ answer.kind = "failed"
    BY <1>6 DEF OwnerFails
  <2>2. call' = [op |-> call.op, state |-> "failed", next |-> call.next, len |-> call.len]
    BY <1>0, <2>1 DEF OwnerTypes
  <2>3. call.op \in {"write", "vectored", "shutdown"}
    BY <1>0 DEF OwnerTypes
  <2> QED
    BY <1>0, <2>1, <2>2, <2>3 DEF OwnerTypes, Owning
<1>7. CASE InjectorReceives \/ InjectorResumes \/ CorrupterHits \/ CorrupterResumes
           \/ SliceResumes \/ SliceFlushed \/ ThrottleResumes
           \/ \E n \in 0..Longest : SinkTakes(n)
  BY <1>1, <1>7 DEF InjectorReceives, InjectorResumes, CorrupterHits, CorrupterResumes,
       SliceResumes, SliceFlushed, ThrottleResumes, SinkTakes, Keeping, owner
<1>8. CASE DataStays
  BY <1>1, <1>8 DEF DataStays
<1> QED
  BY <1>2, <1>3, <1>4, <1>5, <1>6, <1>7, <1>8, DataSteps

\* The sink's side.
LEMMA OutletNext ==
  ASSUME TypeOK, Owning, Fits, FlushDue', Balanced, [Next]_vars
  PROVE OutletTypes'
<1>0. stream \in Seq(1..Total) /\ sink \in [room : BOOLEAN, dirty : BOOLEAN]
  BY DEF TypeOK, OutletTypes
<1>1. CASE UNCHANGED stream /\ sink' \in [room : BOOLEAN, dirty : BOOLEAN]
  BY <1>0, <1>1 DEF OutletTypes
<1>2. ASSUME NEW n \in 0..Longest, SinkTakes(n) PROVE OutletTypes'
  <2>1. sink' \in [room : BOOLEAN, dirty : {sink.dirty \/ n > 0}]
    BY <1>2 DEF SinkTakes
  <2>2. n \in Nat
    BY Constants
  <2>3. (sink.dirty \/ n > 0) \in BOOLEAN
    BY <1>0, <2>2
  <2>4. sink' \in [room : BOOLEAN, dirty : BOOLEAN]
    BY <2>1, <2>3
  <2>5. CASE Top.src # "owner"
    BY <1>0, <1>2, <2>4, <2>5 DEF SinkTakes, OutletTypes
  <2>6. CASE Top.src = "owner"
    <3>1. stream' = stream \o Bytes(call.next, n)
      BY <1>2, <2>6 DEF SinkTakes
    <3>2. n <= call.len
      <4>1. stack' = stack
        BY Shapes
      <4> QED
        BY <1>2, <2>6, <4>1, Takes DEF Limit
    <3>3. /\ call.len \in Nat /\ call.next \in Nat \ {0} /\ call.next + call.len <= Total + 1
          /\ Total \in Nat
      BY Constants DEF TypeOK, OwnerTypes, Owning
    <3>4. \A i \in 1..n : call.next + i - 1 \in 1..Total
      BY <2>2, <3>2, <3>3
    <3>5. Bytes(call.next, n) \in Seq(1..Total)
      BY <2>2, <3>4 DEF Bytes
    <3>6. stream' \in Seq(1..Total)
      BY <1>0, <3>1, <3>5, Joined
    <3> QED
      BY <2>4, <3>6 DEF OutletTypes
  <2> QED
    BY <2>5, <2>6
<1>3. CASE Environment
  BY <1>0, <1>1, <1>3 DEF Environment, SetSize, SetRate, SetDelay, SetCorrupt, Set, Inject, Tick,
                    PeerReads, Flush, Offer, Shutdown, Abandon, outlet
<1>4. CASE Poll \/ OwnerReady \/ OwnerPending \/ OwnerFails \/ SinkWaits \/ SinkShuts \/ SinkFails
  BY <1>0, <1>1, <1>4 DEF Poll, OwnerReady, OwnerPending, OwnerFails, SinkWaits, SinkShuts,
                          SinkFails, Keeping, outlet
<1>5. CASE Adapter
  BY <1>0, <1>1, <1>5 DEF Adapter, PassUp, Fuse, InjectorDrains, InjectorReceives, InjectorPasses,
       InjectorResumes, CorrupterDrains, CorrupterHits, CorrupterMisses, CorrupterResumes,
       SliceOff, SliceOn, SliceWrites, SliceResumes, SliceFlushed, SliceFlushWaits,
       SliceFlushFails, ThrottleOff, ThrottleOn, Acquire, Grant, ThrottleResumes, DelayOff,
       DelayArms, DelayWaits, DelayOver, Keeping, outlet
<1>6. CASE UNCHANGED vars
  BY <1>0, <1>1, <1>6 DEF vars, outlet
<1> QED
  BY <1>2, <1>3, <1>4, <1>5, <1>6 DEF Next, TaskStep, Sink

\* The owner is not told more than the sink has.
LEMMA ToldNext ==
  ASSUME TypeOK, Owning, Balanced, [Next]_vars
  PROVE told'.bytes <= Len(stream')
<1>0. /\ told.bytes \in Nat /\ stream \in Seq(1..Total) /\ told.bytes <= Len(stream)
      /\ call.next \in Nat \ {0} /\ Total \in Nat
  BY Constants DEF TypeOK, OwnerTypes, OutletTypes
<1>1. CASE UNCHANGED <<told, stream>>
  BY <1>0, <1>1
<1>2. CASE OwnerReady
  <2>1. frames = <<>> /\ answer.kind = "ready" /\ stream' = stream
    BY <1>2 DEF OwnerReady, outlet
  <2>2. answer # None /\ answer # Failed
    BY <2>1 DEF None, Failed
  <2>3. Flight("owner") = answer.n
    BY <2>1 DEF Flight, Receiver
  <2>4. Len(stream) = told.bytes + answer.n
    BY <2>2, <2>3, Underway DEF Balanced
  <2>5. told'.bytes \in {told.bytes, told.bytes + answer.n}
    BY <1>2 DEF OwnerReady
  <2> QED
    BY <1>0, <2>1, <2>4, <2>5
<1>3. ASSUME NEW n \in 0..Longest, SinkTakes(n) PROVE told'.bytes <= Len(stream')
  <2>1. told' = told /\ (stream' = stream \/ stream' = stream \o Bytes(call.next, n))
    BY <1>3 DEF SinkTakes, owner
  <2>2. n \in Nat
    BY Constants
  <2>3. Bytes(call.next, n) \in Seq(Nat) /\ Len(Bytes(call.next, n)) = n
    BY <1>0, <2>2 DEF Bytes
  <2>4. stream \in Seq(Nat)
    <3>1. 1..Total \subseteq Nat
      BY <1>0
    <3> QED
      BY <1>0, <3>1, SeqMonotonic
  <2>5. CASE stream' = stream \o Bytes(call.next, n)
    <3>1. Len(stream') = Len(stream) + n /\ Len(stream) \in Nat
      BY <2>3, <2>4, <2>5, Joined, LenProperties
    <3> QED
      BY <1>0, <2>1, <2>2, <3>1
  <2> QED
    BY <1>0, <2>1, <2>5
<1>4. CASE Offer("write") \/ Offer("vectored") \/ Shutdown \/ Abandon \/ OwnerFails
           \/ InjectorReceives \/ InjectorResumes \/ CorrupterHits \/ CorrupterResumes
           \/ SliceResumes \/ SliceFlushed \/ ThrottleResumes
  BY <1>1, <1>4 DEF Offer, Shutdown, Abandon, OwnerFails, InjectorReceives, InjectorResumes,
       CorrupterHits, CorrupterResumes, SliceResumes, SliceFlushed, ThrottleResumes, Keeping,
       owner, outlet
<1>5. CASE DataStays
  BY <1>1, <1>5 DEF DataStays
<1> QED
  BY <1>2, <1>3, <1>4, <1>5, DataSteps

\* The history.
LEMMA HistoryNext ==
  ASSUME TypeOK, Owning, Fits, FlushDue', Balanced, [Next]_vars
  PROVE HistoryTypes'
<1>0. /\ due \in [{"WriteInjector", "Corrupter"} -> 0..MaxPayload]
      /\ meter \in [level : Int, valid : BOOLEAN]
      /\ spacing \in [since : 0..TopDelay, low : Delays]
      /\ EnvTypes /\ LayerTypes /\ ControlTypes /\ OwnerTypes
      /\ knob.delay \in Delays /\ MaxPayload \in Nat /\ TopRate \in Nat /\ TopDelay \in Nat
      /\ Second \in Nat /\ Delays \subseteq Nat
  <2>1. knob.delay \in Delays
    BY DEF TypeOK, EnvTypes, Knobs
  <2> QED
    BY <2>1, Constants, Tops, BucketAssumption DEF TypeOK, HistoryTypes
<1>a. layer.injecting \in Nat /\ layer.garbage \in Nat /\ layer.queue \in Seq(0..MaxPayload)
  BY <1>0, LayerIs
<1>1. CASE UNCHANGED <<due, meter, spacing>>
  BY <1>0, <1>1 DEF HistoryTypes
<1>2. CASE SetSize \/ SetCorrupt \/ Inject \/ PeerReads \/ Flush \/ Offer("write")
           \/ Offer("vectored") \/ Shutdown \/ Abandon
  BY <1>1, <1>2 DEF SetSize, SetCorrupt, Set, Inject, PeerReads, Flush, Offer, Shutdown, Abandon,
                    history
<1>3. CASE SetRate
  BY <1>0, <1>3 DEF SetRate, Set, HistoryTypes
<1>4. CASE SetDelay
  <2>1. PICK d \in Delays : spacing' = [spacing EXCEPT !.low = Least(spacing.low, d)]
    BY <1>4 DEF SetDelay
  <2>2. Least(spacing.low, d) \in Delays
    BY <1>0 DEF Least
  <2>3. UNCHANGED <<due, meter>>
    BY <1>4 DEF SetDelay, Set
  <2> QED
    BY <1>0, <2>1, <2>2, <2>3 DEF HistoryTypes
<1>5. CASE Tick
  <2>1. Metered(meter.level, TopRate) \in Int
    <3>1. MeterCap(TopRate) \in Int
      BY <1>0 DEF MeterCap
    <3> QED
      BY <1>0, <3>1, LeastOf DEF Metered
  <2>2. meter' \in [level : Int, valid : BOOLEAN]
    BY <1>0, <1>5, <2>1 DEF Tick
  <2>3. Least(TopDelay, spacing.since + 1) \in 0..TopDelay
    BY <1>0 DEF Least
  <2>4. spacing' \in [since : 0..TopDelay, low : Delays] /\ due' = due
    BY <1>0, <1>5, <2>3 DEF Tick
  <2> QED
    BY <1>0, <2>2, <2>4 DEF HistoryTypes
<1>6. CASE Poll \/ OwnerReady \/ OwnerPending \/ OwnerFails \/ SinkWaits \/ SinkShuts \/ SinkFails
  BY <1>1, <1>6 DEF Poll, OwnerReady, OwnerPending, OwnerFails, SinkWaits, SinkShuts, SinkFails,
                    Keeping, history
<1>7. CASE InjectorReceives
  <2>1. /\ frames # <<>> /\ answer = None /\ layer.injecting = 0 /\ layer.queue # <<>>
        /\ due' = [due EXCEPT !["WriteInjector"] = due["WriteInjector"] + Head(layer.queue)]
        /\ UNCHANGED <<meter, spacing>>
    BY <1>7 DEF InjectorReceives, Running, At, Keeping
  <2>2. ~Broken
    BY <2>1, Underway DEF None, Failed
  <2>3. due["WriteInjector"] = 0
    <3>1. due["WriteInjector"] = 0 - Flight("WriteInjector")
      BY <2>1, <2>2 DEF Balanced, Limit
    <3>2. Flight("WriteInjector") \in Nat /\ due["WriteInjector"] \in Nat
      BY <1>0, FlightIs, Constants DEF Sources
    <3> QED
      BY <3>1, <3>2
  <2>4. due["WriteInjector"] + Head(layer.queue) \in 0..MaxPayload
    <3>1. Head(layer.queue) \in 0..MaxPayload
      BY <1>a, <2>1, HeadTailProperties
    <3> QED
      BY <1>0, <2>3, <3>1
  <2> QED
    BY <1>0, <2>1, <2>4 DEF HistoryTypes
<1>8. CASE CorrupterHits
  <2>1. /\ frames # <<>> /\ answer = None /\ layer.garbage = 0 /\ UNCHANGED <<meter, spacing>>
    BY <1>8 DEF CorrupterHits, Running, At
  <2>2. ~Broken
    BY <2>1, Underway DEF None, Failed
  <2>3. due["Corrupter"] = 0
    <3>1. due["Corrupter"] = 0 - Flight("Corrupter")
      BY <2>1, <2>2 DEF Balanced, Limit
    <3>2. Flight("Corrupter") \in Nat /\ due["Corrupter"] \in Nat
      BY <1>0, FlightIs, Constants DEF Sources
    <3> QED
      BY <3>1, <3>2
  <2>4. PICK n \in Garbage : due' = [due EXCEPT !["Corrupter"] = due["Corrupter"] + n]
    BY <1>8 DEF CorrupterHits
  <2>5. due["Corrupter"] + n \in 0..MaxPayload
    BY <1>0, <2>3 DEF Garbage
  <2> QED
    BY <1>0, <2>1, <2>4, <2>5 DEF HistoryTypes
<1>9. ASSUME NEW n \in 0..Longest, SinkTakes(n) PROVE HistoryTypes'
  <2>1. /\ meter' = IF meter.valid THEN [meter EXCEPT !.level = meter.level - Second * n] ELSE meter
        /\ spacing' = [since |-> 0, low |-> knob.delay]
    BY <1>9 DEF SinkTakes
  <2>2. /\ n <= Limit(Top.src) /\ Top.src \in Sources /\ n \in Nat
        /\ \A k \in {"WriteInjector", "Corrupter"} : due[k] = Limit(k)
    <3>1. stack' = stack
      BY Shapes
    <3> QED
      BY <1>9, <3>1, Takes
  <2>3. due' \in [{"WriteInjector", "Corrupter"} -> 0..MaxPayload]
    <3>1. CASE Top.src = "owner"
      BY <1>0, <1>9, <3>1 DEF SinkTakes
    <3>2. CASE Top.src # "owner"
      <4>1. due' = [due EXCEPT ![Top.src] = due[Top.src] - n]
        BY <1>9, <3>2 DEF SinkTakes
      <4>2. Top.src \in {"WriteInjector", "Corrupter"}
        BY <2>2, <3>2 DEF Sources
      <4>3. due[Top.src] - n \in 0..MaxPayload
        <5>1. due[Top.src] \in 0..MaxPayload /\ n <= due[Top.src]
          BY <1>0, <2>2, <4>2
        <5> QED
          BY <1>0, <2>2, <5>1
      <4> QED
        BY <1>0, <4>1, <4>2, <4>3
    <3> QED
      BY <3>1, <3>2
  <2>4. meter' \in [level : Int, valid : BOOLEAN]
    <3>1. Second * n \in Int
      BY <1>0, <2>2
    <3> QED
      BY <1>0, <2>1, <3>1
  <2>5. spacing' \in [since : 0..TopDelay, low : Delays]
    BY <1>0, <2>1
  <2> QED
    BY <2>3, <2>4, <2>5 DEF HistoryTypes
<1>10. CASE Adapter /\ ~InjectorReceives /\ ~CorrupterHits
  BY <1>1, <1>10 DEF Adapter, PassUp, Fuse, InjectorDrains, InjectorPasses,
       InjectorResumes, CorrupterDrains, CorrupterMisses, CorrupterResumes,
       SliceOff, SliceOn, SliceWrites, SliceResumes, SliceFlushed, SliceFlushWaits,
       SliceFlushFails, ThrottleOff, ThrottleOn, Acquire, Grant, ThrottleResumes, DelayOff,
       DelayArms, DelayWaits, DelayOver, Keeping, history
<1>11. CASE UNCHANGED vars
  BY <1>1, <1>11 DEF vars, history
<1> QED
  BY <1>2, <1>3, <1>4, <1>5, <1>6, <1>7, <1>8, <1>9, <1>10, <1>11
     DEF Next, Environment, TaskStep, Sink

-----------------------------------------------------------------------------
(* The invariant of the whole.                                              *)

Sound ==
  TypeOK /\ Chosen /\ Owning /\ Chain /\ Fits /\ SizeKept /\ FlushDue /\ Balanced

\* A stack that was just built.
LEMMA SoundInit == Init => Sound
<1> SUFFICES ASSUME Init PROVE Sound
  OBVIOUS
<1>1. PICK s \in Setups : stack = s.stack /\ knob = s.knob /\ left = s.left
  BY DEF Init
<1>2. s \in [stack : Seq(Kinds), knob : Knobs, left : Allowances]
  BY WriteStackAssumption
<1>3. EnvTypes /\ knob.rate \in Rates /\ knob.delay \in Delays
  <2>1. stack \in Seq(Kinds) /\ knob \in Knobs /\ left \in Allowances
    BY <1>1, <1>2
  <2> QED
    BY <2>1 DEF EnvTypes, Knobs
<1>4. /\ layer = [queue |-> <<>>, injecting |-> 0, garbage |-> 0, flushing |-> FALSE,
                  owed |-> 0, bucket |-> Full(knob.rate), timer |-> IdleTimer]
      /\ frames = <<>> /\ answer = None
      /\ call = [op |-> "write", state |-> "idle", next |-> 1, len |-> 0]
      /\ told = [bytes |-> 0, zero |-> FALSE] /\ stream = <<>>
      /\ sink = [room |-> TRUE, dirty |-> FALSE]
      /\ due = [WriteInjector |-> 0, Corrupter |-> 0]
      /\ spacing = [since |-> 0, low |-> knob.delay]
  BY DEF Init, Fresh
<1>5. MaxPayload \in Nat /\ MaxBuf \in Nat /\ Longest \in Nat /\ Total \in Nat /\ TopDelay \in Nat
  BY Constants, Tops
<1>6. LayerTypes
  <2>1. Full(knob.rate) \in Buckets(Rates) /\ IdleTimer \in Timers(Delays)
    BY <1>3, FullIsBucket, TimersStay, Constants
  <2>2. <<>> \in Seq(0..MaxPayload) /\ 0 \in 0..MaxPayload /\ 0 \in 0..Longest
    BY <1>5
  <2> QED
    BY <1>4, <2>1, <2>2 DEF LayerTypes
<1>7. ControlTypes
  BY <1>4 DEF ControlTypes, Answers
<1>8. OwnerTypes /\ OutletTypes /\ Owning
  BY <1>4, <1>5 DEF OwnerTypes, OutletTypes, Owning
<1>9. HistoryTypes
  <2>1. due \in [{"WriteInjector", "Corrupter"} -> 0..MaxPayload]
    BY <1>4, <1>5
  <2>2. meter \in [level : Int, valid : BOOLEAN]
    <3>1. MeterFull(TopRate) \in Int
      BY Tops, BucketAssumption DEF MeterFull
    <3>2. meter = [level |-> MeterFull(TopRate), valid |-> Has("ThrottledWriter") /\ knob.rate # 0]
      BY DEF Init
    <3> QED
      BY <3>1, <3>2 DEF Has, Member
  <2>3. spacing \in [since : 0..TopDelay, low : Delays]
    BY <1>3, <1>4, <1>5
  <2> QED
    BY <2>1, <2>2, <2>3 DEF HistoryTypes
<1>10. TypeOK
  <2>1. told.bytes <= Len(stream)
    BY <1>4
  <2> QED
    BY <1>3, <1>6, <1>7, <1>8, <1>9, <2>1 DEF TypeOK
<1>11. DOMAIN frames = {}
  BY <1>4
<1>12. Chosen /\ Chain /\ Fits /\ SizeKept /\ FlushDue
  BY <1>1, <1>4, <1>11 DEF Chosen, Chain, Fits, SizeKept, FlushDue
<1>13. Balanced
  <2>1. \A k : Flight(k) = 0
    BY <1>4 DEF Flight, None
  <2>2. \A k \in Sources : Limit(k) = 0
    BY <1>4 DEF Limit
  <2>3. due["WriteInjector"] = 0 /\ due["Corrupter"] = 0 /\ told.bytes = 0 /\ Len(stream) = 0
    BY <1>4
  <2> QED
    BY <2>1, <2>2, <2>3 DEF Balanced, Sources
<1> QED
  BY <1>8, <1>10, <1>12, <1>13 DEF Sound

\* It stays as sound as it was.
LEMMA SoundNext ==
  ASSUME Unmixed, Sound, [Next]_vars
  PROVE Sound'
<1> USE DEF Sound
<1>1. LayerTypes' /\ EnvTypes' /\ OwnerTypes' /\ Owning'
  BY LayerNext, EnvNext, OwnerNext
<1>2. Chain' /\ Fits' /\ ControlTypes'
  BY ChainNext
<1>3. SizeKept' /\ FlushDue'
  BY SizeKeptNext, FlushDueNext
<1>4. Balanced'
  BY <1>1, <1>2, <1>3, BalancedNext
<1>5. OutletTypes' /\ HistoryTypes' /\ told'.bytes <= Len(stream')
  BY <1>3, OutletNext, HistoryNext, ToldNext
<1>6. Chosen'
  <2>1. stack' = stack
    BY Shapes
  <2> QED
    BY <2>1 DEF Chosen
<1> QED
  BY <1>1, <1>2, <1>3, <1>4, <1>5, <1>6 DEF TypeOK

\* What the rest builds on: the calls under way form a chain, the bytes in
\* flight are accounted for, and a flush that is due has its writer.
LEMMA StackIsSound ==
  ASSUME Unmixed
  PROVE Spec => []Sound
BY SoundInit, SoundNext, PTL DEF Spec

-----------------------------------------------------------------------------
(* The theorems.                                                            *)

\* Every variable keeps its type: no payload is overdrawn, no sum of bytes told
\* exceeds what the sink has (the pollers of write.rs, slicer.rs, injector.rs,
\* corrupter.rs, throttler.rs and delayer.rs).
THEOREM TypeCorrect ==
  ASSUME Unmixed
  PROVE Spec => []TypeOK
<1>1. Sound => TypeOK
  BY DEF Sound
<1> QED
  BY <1>1, StackIsSound, PTL

\* Nothing is forwarded behind the owner's back, whatever stack it writes to,
\* whatever is injected, corrupted, cut or delayed on the way.
THEOREM WritesAreTold ==
  ASSUME Unmixed
  PROVE Spec => []ToldIsForwarded
<1>1. Sound => ToldIsForwarded
  <2> SUFFICES ASSUME Sound, call.state = "idle" PROVE Len(stream) = told.bytes
    BY DEF ToldIsForwarded
  <2> USE DEF Sound
  <2>1. frames = <<>> /\ answer = None
    BY DEF Owning
  <2>2. ~Broken
    BY <2>1 DEF Broken, None, Failed
  <2>3. ~layer.flushing
    BY <2>1, <2>2 DEF FlushDue, Running, At, Carried
  <2>4. Flight("owner") = 0
    BY <2>1, <2>3 DEF Flight, None
  <2>5. told.bytes \in Nat
    BY Constants DEF TypeOK, OwnerTypes
  <2> QED
    BY <2>2, <2>4, <2>5 DEF Balanced
<1> QED
  BY <1>1, StackIsSound, PTL

\* What the slicer keeps and what the sink does are there to be looked at.
Present == "flushing" \in DOMAIN layer /\ "dirty" \in DOMAIN sink

\* No step but the end of a flush ends the flushing phase.
LEMMA PresentNext ==
  ASSUME Present, [Next]_vars
  PROVE Present' /\ (layer.flushing /\ ~layer'.flushing => ~sink'.dirty)
<1> USE DEF Present
<1>1. CASE UNCHANGED <<layer, sink>>
  BY <1>1
<1>2. CASE Inject \/ Tick \/ PeerReads \/ Flush
  BY <1>2 DEF Inject, Tick, PeerReads, Flush, outlet
<1>3. CASE Environment /\ ~(Inject \/ Tick \/ PeerReads \/ Flush)
  BY <1>1, <1>3 DEF Environment, SetSize, SetRate, SetDelay, SetCorrupt, Set, Offer, Shutdown,
                    Abandon, outlet
<1>4. CASE Poll \/ OwnerReady \/ OwnerPending \/ OwnerFails
  BY <1>1, <1>4 DEF Poll, OwnerReady, OwnerPending, OwnerFails, outlet
<1>5. CASE Sink
  BY <1>1, <1>5 DEF Sink, SinkTakes, SinkWaits, SinkShuts, SinkFails, Keeping, outlet
<1>6. CASE SliceFlushed
  BY <1>6 DEF SliceFlushed
<1>7. CASE Adapter /\ ~SliceFlushed
  <2>1. sink' = sink
    BY <1>7 DEF Adapter, PassUp, Fuse, InjectorDrains, InjectorReceives, InjectorPasses,
         InjectorResumes, CorrupterDrains, CorrupterHits, CorrupterMisses, CorrupterResumes,
         SliceOff, SliceOn, SliceWrites, SliceResumes, SliceFlushWaits, SliceFlushFails,
         ThrottleOff, ThrottleOn, Acquire, Grant, ThrottleResumes, DelayOff,
         DelayArms, DelayWaits, DelayOver, Keeping, outlet
  <2>2. "flushing" \in DOMAIN layer' /\ (layer'.flushing = layer.flushing \/ layer'.flushing = TRUE)
    <3>1. CASE InjectorReceives \/ InjectorResumes \/ CorrupterHits \/ CorrupterResumes
      BY <3>1 DEF InjectorReceives, InjectorResumes, CorrupterHits, CorrupterResumes
    <3>2. CASE SliceResumes \/ Grant \/ ThrottleResumes \/ DelayArms \/ DelayOver
      BY <3>2 DEF SliceResumes, Grant, ThrottleResumes, DelayArms, DelayOver
    <3>3. CASE layer' = layer
      BY <3>3
    <3> QED
      BY <1>7, <3>1, <3>2, <3>3 DEF Adapter, PassUp, Fuse, InjectorDrains, InjectorPasses,
         CorrupterDrains, CorrupterMisses, SliceOff, SliceOn, SliceWrites, SliceFlushWaits,
         SliceFlushFails, ThrottleOff, ThrottleOn, Acquire, DelayOff, DelayWaits
  <2> QED
    BY <2>1, <2>2
<1>8. CASE UNCHANGED vars
  BY <1>1, <1>8 DEF vars, outlet
<1> QED
  BY <1>2, <1>3, <1>4, <1>5, <1>6, <1>7, <1>8 DEF Next, TaskStep

\* A slice is reported written when it has been flushed, not before: the only
\* step that ends the flushing phase of SlicedWriter::poll_write is the one in
\* which the wrapped writer's poll_flush is ready.  This needs no hypothesis.
THEOREM SlicesAreFlushed == Spec => SlicesApart
<1>1. Init => Present
  BY DEF Init, Fresh, Present
<1>2. Present /\ [Next]_vars => Present' /\ [layer.flushing /\ ~layer'.flushing => ~sink'.dirty]_vars
  BY PresentNext
<1> QED
  BY <1>1, <1>2, PTL DEF Spec, SlicesApart

\* What the owner was told, byte by byte.
ToldBytes == SubSeq(stream, 1, Least(told.bytes, Len(stream)))

\* The first bytes of a sequence.
LEMMA FirstBytes ==
  ASSUME NEW s \in Seq(Nat), NEW m \in 0..Len(s)
  PROVE /\ SubSeq(s, 1, m) \in Seq(Nat) /\ Len(SubSeq(s, 1, m)) = m
        /\ \A i \in 1..m : SubSeq(s, 1, m)[i] = s[i]
<1>1. Len(s) \in Nat /\ m \in Int /\ m \in Nat /\ 1 \in Int
  BY LenProperties
<1>2. \A i \in 1..m : s[i] \in Nat
  <2>1. \A i \in 1..m : i \in 1..Len(s)
    BY <1>1
  <2> QED
    BY <2>1, ElementOfSeq
<1> DEFINE t == SubSeq(s, 1, m)
<1>3. /\ t \in Seq(Nat) /\ Len(t) = IF 1 <= m THEN m - 1 + 1 ELSE 0
      /\ \A i \in 1..(m - 1 + 1) : t[i] = s[1 + i - 1]
  BY <1>1, <1>2, SubSeqProperties
<1> HIDE DEF t
<1>4. m - 1 + 1 = m /\ \A i \in 1..m : 1 + i - 1 = i
  BY <1>1
<1>5. Len(t) = m
  BY <1>1, <1>3, <1>4
<1> QED
  BY <1>3, <1>4, <1>5 DEF t

\* A sequence that begins as one sequence and goes on as another is the two
\* joined.
LEMMA JoinedIs ==
  ASSUME NEW a \in Seq(Nat), NEW t \in Seq(Nat), NEW b \in Seq(Nat),
         Len(b) = Len(a) + Len(t),
         \A i \in 1..Len(a) : b[i] = a[i],
         \A x \in 1..Len(t) : b[Len(a) + x] = t[x]
  PROVE b = a \o t
<1>1. /\ a \o t \in Seq(Nat) /\ Len(a \o t) = Len(a) + Len(t)
      /\ \A i \in 1..Len(a) : (a \o t)[i] = a[i]
      /\ \A x \in 1..Len(t) : (a \o t)[Len(a) + x] = t[x]
  BY Joined
<1>2. Len(a) \in Nat /\ Len(t) \in Nat
  BY LenProperties
<1> DEFINE c == a \o t
<1>3. /\ c \in Seq(Nat) /\ Len(c) = Len(a) + Len(t)
      /\ \A i \in 1..Len(a) : c[i] = a[i]
      /\ \A x \in 1..Len(t) : c[Len(a) + x] = t[x]
  BY <1>1
<1> HIDE DEF c
<1>4. ASSUME NEW i \in 1..Len(b) PROVE b[i] = c[i]
  <2>1. CASE i \in 1..Len(a)
    BY <1>3, <2>1
  <2>2. CASE i \in (Len(a) + 1)..(Len(a) + Len(t))
    <3>1. i - Len(a) \in 1..Len(t) /\ i = Len(a) + (i - Len(a))
      BY <1>2, <2>2
    <3>2. PICK x \in 1..Len(t) : i = Len(a) + x
      BY <3>1
    <3> QED
      BY <1>3, <3>2
  <2> QED
    BY <1>2, <1>4, <2>1, <2>2
<1>5. b = c
  BY <1>3, <1>4, SeqEqual
<1> QED
  BY <1>5 DEF c

\* A read of more is a read of the same and what follows.
LEMMA MoreBytes ==
  ASSUME NEW s \in Seq(Nat), NEW m \in Nat, NEW n \in Nat, m + n <= Len(s),
         NEW t \in Seq(Nat), Len(t) = n, \A x \in 1..n : t[x] = s[m + x]
  PROVE SubSeq(s, 1, m + n) = SubSeq(s, 1, m) \o t
<1> DEFINE a == SubSeq(s, 1, m)
           b == SubSeq(s, 1, m + n)
<1>1. Len(s) \in Nat /\ m \in 0..Len(s) /\ m + n \in 0..Len(s)
  BY LenProperties
<1>2. a \in Seq(Nat) /\ Len(a) = m /\ \A i \in 1..m : a[i] = s[i]
  BY <1>1, FirstBytes
<1>3. b \in Seq(Nat) /\ Len(b) = m + n /\ \A i \in 1..(m + n) : b[i] = s[i]
  BY <1>1, FirstBytes
<1> HIDE DEF a, b
<1>4. \A i \in 1..m : i \in 1..(m + n)
  OBVIOUS
<1>5. \A x \in 1..n : m + x \in 1..(m + n)
  OBVIOUS
<1>6. \A i \in 1..Len(a) : b[i] = a[i]
  BY <1>2, <1>3, <1>4
<1>7. \A x \in 1..Len(t) : b[Len(a) + x] = t[x]
  BY <1>2, <1>3, <1>5
<1>8. Len(b) = Len(a) + Len(t)
  BY <1>2, <1>3
<1> QED
  BY <1>2, <1>3, <1>6, <1>7, <1>8, JoinedIs DEF a, b

\* Seen from the owner a stack of adapters is a sink like any other: its bytes
\* arrive once, in order, and as many as poll_write said.
THEOREM StacksAreSinks ==
  ASSUME Unmixed
  PROVE Spec => ImplementsByteSink
<1>1. Init => Promise!Init
  <2> SUFFICES ASSUME Init PROVE Promise!Init
    OBVIOUS
  <2>1. told.bytes = 0 /\ stream = <<>> /\ call.next = 1 /\ call.len = 0
    BY DEF Init
  <2>2. Least(told.bytes, Len(stream)) = 0
    BY <2>1 DEF Least
  <2>3. SubSeq(stream, 1, 0) = <<>>
    BY SubSeqEmpty
  <2> QED
    BY <2>1, <2>2, <2>3 DEF Promise!Init
<1>2. ASSUME Sound, Sound', [Next]_vars
      PROVE [Promise!Offer \/ Promise!Take \/ Promise!Withdraw]_(Promise!sinkVars)
  <2> SUFFICES \/ Promise!Offer \/ Promise!Take \/ Promise!Withdraw
               \/ ToldBytes' = ToldBytes /\ call'.next = call.next /\ call'.len = call.len
    BY DEF Promise!sinkVars, ToldBytes
  <2>0. /\ TypeOK /\ Owning /\ OwnerTypes /\ ControlTypes
        /\ stream \in Seq(Nat) /\ told.bytes \in 0..Len(stream) /\ Len(stream) \in Nat
        /\ stream' \in Seq(Nat) /\ told'.bytes \in 0..Len(stream') /\ Len(stream') \in Nat
        /\ call.len \in Nat /\ call.next \in Nat \ {0} /\ answer.n \in Nat
    <3>1. 1..Total \subseteq Nat /\ 0..Total \subseteq Nat
      BY Constants
    <3>2. stream \in Seq(1..Total) /\ told.bytes \in 0..Total /\ told.bytes <= Len(stream)
      BY <1>2 DEF Sound, TypeOK, OwnerTypes, OutletTypes
    <3>3. stream' \in Seq(1..Total) /\ told'.bytes \in 0..Total /\ told'.bytes <= Len(stream')
      BY <1>2 DEF Sound, TypeOK, OwnerTypes, OutletTypes
    <3>4. stream \in Seq(Nat) /\ stream' \in Seq(Nat)
      BY <3>1, <3>2, <3>3, SeqMonotonic
    <3>5. Len(stream) \in Nat /\ Len(stream') \in Nat
      BY <3>4, LenProperties
    <3>6. TypeOK /\ Owning /\ OwnerTypes /\ ControlTypes
      BY <1>2 DEF Sound, TypeOK
    <3>7. call.len \in Nat /\ call.next \in Nat \ {0} /\ answer.n \in Nat
      BY <3>6, AnswerIs, Constants DEF OwnerTypes
    <3> QED
      BY <3>1, <3>2, <3>3, <3>4, <3>5, <3>6, <3>7
  <2>a. /\ ToldBytes = SubSeq(stream, 1, told.bytes)
        /\ ToldBytes' = SubSeq(stream', 1, told'.bytes)
    <3>1. Least(told.bytes, Len(stream)) = told.bytes
      BY <2>0 DEF Least
    <3>2. Least(told'.bytes, Len(stream')) = told'.bytes
      BY <2>0 DEF Least
    <3> QED
      BY <3>1, <3>2 DEF ToldBytes
  <2>1. ASSUME UNCHANGED <<told, stream>> PROVE ToldBytes' = ToldBytes
    BY <2>1, <2>a
  <2>2. ASSUME NEW op \in {"write", "vectored"}, Offer(op) PROVE Promise!Offer
    <3>1. PICK n \in (call.len + 1)..MaxBuf :
            call' = [call EXCEPT !.op = op, !.state = "pending", !.len = n]
      BY <2>2 DEF Offer
    <3>2. call'.len = n /\ call'.next = call.next /\ n \in Nat /\ n > call.len
      BY <2>0, <3>1, Constants DEF OwnerTypes
    <3>3. ToldBytes' = ToldBytes
      BY <2>1, <2>2 DEF Offer, outlet
    <3> QED
      BY <3>2, <3>3 DEF Promise!Offer, ToldBytes
  <2>3. CASE Shutdown \/ OwnerFails
    <3>1. call'.len = call.len /\ call'.next = call.next
      BY <2>0, <2>3 DEF Shutdown, OwnerFails, OwnerTypes
    <3>2. ToldBytes' = ToldBytes
      BY <2>1, <2>3 DEF Shutdown, OwnerFails, outlet
    <3> QED
      BY <3>1, <3>2
  <2>4. CASE Abandon
    <3>1. PICK skipped \in {0, call.len} :
            call' = [call EXCEPT !.state = "idle", !.len = 0, !.next = call.next + skipped]
      BY <2>4 DEF Abandon
    <3>2. call'.len = 0 /\ call'.next \in {call.next, call.next + call.len} /\ call.len > 0
      BY <2>0, <2>4, <3>1 DEF Abandon, Owning, OwnerTypes
    <3>3. ToldBytes' = ToldBytes
      BY <2>1, <2>4 DEF Abandon, outlet
    <3> QED
      BY <3>2, <3>3 DEF Promise!Withdraw, ToldBytes
  <2>5. CASE OwnerReady /\ call.op = "shutdown"
    <3>1. call'.len = call.len /\ call'.next = call.next
      BY <2>0, <2>5 DEF OwnerReady, OwnerTypes
    <3>2. ToldBytes' = ToldBytes
      BY <2>1, <2>5 DEF OwnerReady, outlet
    <3> QED
      BY <3>1, <3>2
  <2>6. CASE OwnerReady /\ call.op # "shutdown"
    <3>1. /\ frames = <<>> /\ answer.kind = "ready" /\ stream' = stream
          /\ told'.bytes = told.bytes + answer.n
      BY <2>6 DEF OwnerReady, outlet
    <3>2. call'.len = 0 /\ call'.next = call.next + answer.n
      BY <2>0, <2>6 DEF OwnerReady, OwnerTypes
    <3>3. answer # None /\ answer # Failed
      BY <3>1 DEF None, Failed
    <3>4. Flight("owner") = answer.n /\ Balanced
      BY <1>2, <3>1 DEF Flight, Receiver, Sound
    <3>5. /\ answer.n <= call.len /\ Len(stream) = told.bytes + answer.n
          /\ \A x \in 1..answer.n : stream[told.bytes + x] = call.next + x - 1
      BY <2>0, <3>3, <3>4, Underway DEF Balanced, Limit, Sources
    <3>6. call.len > 0
      BY <2>0, <2>6, <3>3, Underway DEF Owning
    <3> DEFINE bytes == Promise!Bytes(call.next, answer.n)
    <3>7. /\ bytes \in Seq(Nat) /\ Len(bytes) = answer.n
          /\ \A x \in 1..answer.n : bytes[x] = call.next + x - 1
      <4>1. bytes = Bytes(call.next, answer.n)
        BY DEF Promise!Bytes, Bytes
      <4> HIDE DEF bytes
      <4> QED
        BY <2>0, <4>1, BytesAre
    <3> HIDE DEF bytes
    <3>8. SubSeq(stream, 1, told.bytes + answer.n) = SubSeq(stream, 1, told.bytes) \o bytes
      <4>1. told.bytes \in Nat /\ told.bytes + answer.n <= Len(stream)
        BY <2>0, <3>5
      <4>2. \A x \in 1..answer.n : bytes[x] = stream[told.bytes + x]
        BY <3>5, <3>7
      <4>3. ASSUME NEW m \in Nat, NEW n \in Nat, NEW t \in Seq(Nat), Len(t) = n,
                   m + n <= Len(stream), \A x \in 1..n : t[x] = stream[m + x]
            PROVE SubSeq(stream, 1, m + n) = SubSeq(stream, 1, m) \o t
        <5>1. stream \in Seq(Nat)
          BY <2>0
        <5> QED
          BY <4>3, <5>1, MoreBytes, Zenon
      <4> QED
        BY <2>0, <3>7, <4>1, <4>2, <4>3, Zenon
    <3>9. ToldBytes' = ToldBytes \o bytes
      BY <2>a, <3>1, <3>8
    <3>10. answer.n \in 0..call.len
      BY <2>0, <3>5
    <3> QED
      BY <3>2, <3>6, <3>9, <3>10 DEF Promise!Take, ToldBytes, bytes
  <2>7. ASSUME NEW n \in 0..Longest, SinkTakes(n)
        PROVE ToldBytes' = ToldBytes /\ call'.next = call.next /\ call'.len = call.len
    <3>1. /\ told' = told /\ call' = call
          /\ stream' = stream \/ stream' = stream \o Bytes(call.next, n)
      BY <2>7 DEF SinkTakes, owner
    <3>2. CASE stream' = stream
      BY <2>1, <3>1, <3>2
    <3>3. CASE stream' = stream \o Bytes(call.next, n)
      <4>1. Bytes(call.next, n) \in Seq(Nat)
        <5>1. n \in Nat
          BY Constants
        <5> QED
          BY <2>0, <5>1 DEF Bytes
      <4>2. \A i \in 1..Len(stream) : stream'[i] = stream[i]
        BY <2>0, <3>3, <4>1, Joined
      <4> DEFINE m == told.bytes
                 a == SubSeq(stream, 1, m)
                 b == SubSeq(stream', 1, m)
      <4>3. m \in 0..Len(stream) /\ m \in 0..Len(stream')
        BY <2>0, <3>1
      <4>4. a \in Seq(Nat) /\ Len(a) = m /\ \A i \in 1..m : a[i] = stream[i]
        BY <2>0, <4>3, FirstBytes
      <4>5. b \in Seq(Nat) /\ Len(b) = m /\ \A i \in 1..m : b[i] = stream'[i]
        BY <2>0, <4>3, FirstBytes
      <4>6. \A i \in 1..m : i \in 1..Len(stream)
        BY <2>0, <4>3
      <4> HIDE DEF a, b
      <4>7. a = b
        BY <4>2, <4>4, <4>5, <4>6, SeqEqual
      <4> QED
        BY <2>a, <3>1, <4>7 DEF a, b
    <3> QED
      BY <3>1, <3>2, <3>3
  <2>8. CASE InjectorReceives \/ InjectorResumes \/ CorrupterHits \/ CorrupterResumes
             \/ SliceResumes \/ SliceFlushed \/ ThrottleResumes
    <3>1. UNCHANGED <<call, told, stream>>
      BY <2>8 DEF InjectorReceives, InjectorResumes, CorrupterHits, CorrupterResumes,
         SliceResumes, SliceFlushed, ThrottleResumes, Keeping, owner, outlet
    <3> QED
      BY <2>1, <3>1
  <2>9. CASE DataStays
    BY <2>1, <2>9 DEF DataStays
  <2>10. \/ DataStays \/ Offer("write") \/ Offer("vectored") \/ Shutdown \/ Abandon
         \/ OwnerReady \/ OwnerFails
         \/ InjectorReceives \/ InjectorResumes \/ CorrupterHits \/ CorrupterResumes
         \/ SliceResumes \/ SliceFlushed \/ ThrottleResumes
         \/ \E n \in 0..Longest : SinkTakes(n)
    BY <1>2, <2>0, DataSteps
  <2> HIDE DEF ToldBytes
  <2> QED
    BY <2>2, <2>3, <2>4, <2>5, <2>6, <2>7, <2>8, <2>9, <2>10, Zenon
<1> QED
  BY <1>1, <1>2, StackIsSound, PTL DEF Spec, ImplementsByteSink, Promise!Spec
-----------------------------------------------------------------------------
(* Payloads.                                                                *)

Payers == {"WriteInjector", "Corrupter"}

\* The owner's bytes are below an adapter with a payload only if nothing is left
\* of it; a vectored write, which the adapter does not see, waits for that, too.
Whole ==
  /\ \A k \in Payers : ~Has(k) => Limit(k) = 0
  /\ call.state = "pending" /\ call.op = "vectored" => \A k \in Payers : Limit(k) = 0
  /\ call.op = "write" =>
       \A k \in Payers : \A p \in DOMAIN stack : \A i \in DOMAIN frames :
         stack[p] = k /\ frames[i].src = "owner" /\ p < frames[i].at => Limit(k) = 0

\* What an adapter with a payload may do when it is its turn.
LEMMA AtPayer ==
  ASSUME EnvTypes, NEW k \in Payers, At(k), [Next]_vars
  PROVE \/ UNCHANGED <<frames, answer>>
        \/ PassUp
        \/ k = "WriteInjector" /\ (InjectorDrains \/ InjectorPasses \/ InjectorResumes)
        \/ k = "Corrupter" /\ (CorrupterDrains \/ CorrupterMisses \/ CorrupterResumes)
<1>1. Top.at \in DOMAIN stack /\ stack[Top.at] = k /\ frames # <<>>
  BY DEF At
<1>2. CASE Environment
  BY <1>1, <1>2 DEF Environment, SetSize, SetRate, SetDelay, SetCorrupt, Set, Inject, Tick,
                    PeerReads, Flush, Offer, Shutdown, Abandon, control
<1>3. CASE Poll \/ OwnerReady \/ OwnerPending \/ OwnerFails
  BY <1>1, <1>3 DEF Poll, Quiet, OwnerReady, OwnerPending, OwnerFails
<1>4. ~Sink
  <2>1. Top.at # Len(stack) + 1
    BY <1>1 DEF EnvTypes
  <2> QED
    BY <2>1 DEF Sink, SinkTakes, SinkWaits, SinkShuts, SinkFails, AtSink
<1>5. CASE Adapter
  BY <1>1, <1>5 DEF Adapter, Fuse, InjectorDrains, InjectorReceives, InjectorPasses,
         InjectorResumes, CorrupterDrains, CorrupterHits, CorrupterMisses, CorrupterResumes,
         SliceOff, SliceOn, SliceWrites, SliceResumes, SliceFlushed, SliceFlushWaits,
         SliceFlushFails, ThrottleOff, ThrottleOn, Acquire, Grant, ThrottleResumes,
         DelayOff, DelayArms, DelayWaits, DelayOver, Running, Resumed, At, Payers, Keeping,
         control
<1>6. CASE UNCHANGED vars
  BY <1>6 DEF vars, control
<1> QED
  BY <1>2, <1>3, <1>4, <1>5, <1>6 DEF Next, TaskStep

\* A payload changes when it is its adapter's turn, and only then.
LEMMA PayloadStays ==
  ASSUME TypeOK, [Next]_vars, NEW k \in Payers, ~At(k)
  PROVE Limit(k)' = Limit(k)
<1>0. LayerTypes
  BY DEF TypeOK
<1>1. ASSUME UNCHANGED <<layer.injecting, layer.garbage>> PROVE Limit(k)' = Limit(k)
  BY <1>1 DEF Limit, Payers
<1>2. CASE InjectorReceives \/ InjectorResumes
  <2>1. At("WriteInjector") /\ layer'.garbage = layer.garbage
    BY <1>0, <1>2 DEF InjectorReceives, InjectorResumes, Running, Resumed, LayerTypes
  <2> QED
    BY <2>1 DEF Limit, Payers
<1>3. CASE CorrupterHits \/ CorrupterResumes
  <2>1. At("Corrupter") /\ layer'.injecting = layer.injecting
    BY <1>0, <1>3 DEF CorrupterHits, CorrupterResumes, Running, Resumed, LayerTypes
  <2> QED
    BY <2>1 DEF Limit, Payers
<1>4. CASE ~(InjectorReceives \/ InjectorResumes \/ CorrupterHits \/ CorrupterResumes)
  <2>1. UNCHANGED <<layer.injecting, layer.garbage>>
    <3>1. CASE UNCHANGED vars
      BY <3>1 DEF vars
    <3>2. CASE Environment
      BY <1>0, <3>2 DEF Environment, SetSize, SetRate, SetDelay, SetCorrupt, Set, Inject, Tick,
                        PeerReads, Flush, Offer, Shutdown, Abandon, LayerTypes
    <3>3. CASE Poll \/ OwnerReady \/ OwnerPending \/ OwnerFails
      BY <3>3 DEF Poll, OwnerReady, OwnerPending, OwnerFails
    <3>4. CASE Adapter
      BY <1>0, <1>4, <3>4
         DEF Adapter, PassUp, Fuse, InjectorDrains, InjectorPasses, CorrupterDrains,
             CorrupterMisses, SliceOff, SliceOn, SliceWrites, SliceResumes, SliceFlushed,
             SliceFlushWaits, SliceFlushFails, ThrottleOff, ThrottleOn, Acquire, Grant,
             ThrottleResumes, DelayOff, DelayArms, DelayWaits, DelayOver, LayerTypes
    <3>5. CASE Sink
      BY <3>5 DEF Sink, SinkTakes, SinkWaits, SinkShuts, SinkFails
    <3> QED
      BY <3>1, <3>2, <3>3, <3>4, <3>5 DEF Next, TaskStep
  <2> QED
    BY <1>1, <2>1
<1> QED
  BY <1>2, <1>3, <1>4

\* Before any payload.
LEMMA WholeInit == Init => Whole
<1> SUFFICES ASSUME Init PROVE Whole
  OBVIOUS
<1>1. layer.injecting = 0 /\ layer.garbage = 0
  BY DEF Init, Fresh
<1>2. \A k \in Payers : Limit(k) = 0
  BY <1>1 DEF Limit, Payers
<1> QED
  BY <1>2 DEF Whole

\* The call that is below an adapter was below it before, or has just passed it
\* with its payload through.
LEMMA PassedWhole ==
  ASSUME Sound, Whole, [Next]_vars, call'.op = "write",
         NEW k \in Payers, NEW p \in DOMAIN stack, stack[p] = k,
         NEW i \in DOMAIN frames', frames'[i].src = "owner", p < frames'[i].at
  PROVE Limit(k)' = 0
<1> DEFINE n == Len(frames)
<1>0. /\ TypeOK /\ EnvTypes /\ LayerTypes /\ ControlTypes /\ Chosen /\ Chain /\ Fits
      /\ stack' = stack
  <2>1. stack' = stack
    BY Shapes DEF Sound
  <2> QED
    BY <2>1 DEF Sound, TypeOK
<1>1. /\ DOMAIN frames = 1..n /\ n \in Nat
      /\ \A j \in DOMAIN frames : frames[j] \in Frames /\ frames[j].at \in Nat \ {0}
  BY <1>0, CallsAre
<1>2. p \in Nat \ {0}
  BY <1>0 DEF EnvTypes
<1>3. ASSUME frames # <<>>
      PROVE Top \in Frames /\ n \in DOMAIN frames /\ Top = frames[n] /\ Top.at \in Nat
  BY <1>0, <1>1, <1>3, TopIs
<1>4. CASE At(k)
  <2>1. Top.at = p /\ frames # <<>>
    <3>1. Top.at \in DOMAIN stack /\ stack[Top.at] = k /\ frames # <<>>
      BY <1>4 DEF At
    <3> QED
      BY <1>0, <3>1, Alone
  <2>2. \A j \in DOMAIN frames : frames[j].at <= p
    <3> SUFFICES ASSUME NEW j \in DOMAIN frames PROVE frames[j].at <= p
      OBVIOUS
    <3>1. CASE j = n
      BY <1>2, <1>3, <2>1, <3>1
    <3>2. CASE j # n
      <4>1. j \in 1..(n - 1) /\ n \in DOMAIN frames
        BY <1>1, <1>3, <2>1, <3>2
      <4>2. frames[j].at < frames[n].at
        BY <4>1 DEF Sound, Chain
      <4>3. frames[j].at \in Nat /\ frames[n].at = p
        BY <1>1, <1>3, <2>1
      <4> QED
        BY <1>2, <4>2, <4>3
    <3> QED
      BY <3>1, <3>2
  <2>3. ASSUME NEW j \in DOMAIN frames, frames'[i].at = frames[j].at PROVE FALSE
    <3>1. frames[j].at \in Nat /\ frames[j].at <= p
      BY <1>1, <2>2
    <3> QED
      BY <1>2, <2>3, <3>1
  <2>4. ~UNCHANGED <<frames, answer>>
    BY <2>3
  <2>5. ASSUME frames' = Callers PROVE FALSE
    <3>1. /\ frames' \in Seq(Frames) /\ Len(frames') = n - 1
          /\ \A j \in 1..(n - 1) : frames'[j] = frames[j]
      BY <1>0, <2>1, <2>5, Pops
    <3>2. i \in 1..(n - 1) /\ i \in DOMAIN frames
      BY <1>1, <3>1
    <3> QED
      BY <2>3, <3>1, <3>2
  <2>6. ASSUME NEW m \in 0..Longest, Call(k, m) PROVE FALSE
    <3>1. PICK f \in Entered(Top.at, k, m) : frames' = Append(frames, f)
      BY <2>6 DEF Call
    <3>2. f \in Frames /\ f.src = k
      BY <1>0, <1>3, <2>1, <3>1, EnteredIs DEF Payers, Sources
    <3>3. /\ frames' \in Seq(Frames) /\ Len(frames') = n + 1 /\ frames'[n + 1] = f
          /\ \A j \in 1..n : frames'[j] = frames[j]
      BY <1>0, <3>1, <3>2, Pushes
    <3>4. i # n + 1
      BY <3>2, <3>3 DEF Payers
    <3>5. i \in 1..n
      BY <1>1, <3>3, <3>4
    <3> QED
      BY <1>1, <2>3, <3>3, <3>5
  <2>7. ~Goto("enter", 0)
    <3> SUFFICES ASSUME Goto("enter", 0) PROVE FALSE
      OBVIOUS
    <3> DEFINE f == [Top EXCEPT !.step = "enter", !.seen = 0]
    <3>1. f \in Frames /\ f.at = Top.at
      BY <1>3, <2>1 DEF Frames, Steps
    <3>2. frames' = Append(Callers, f)
      BY DEF Goto
    <3> HIDE DEF f
    <3>3. /\ frames' \in Seq(Frames) /\ Len(frames') = n /\ frames'[n] = f
          /\ \A j \in 1..(n - 1) : frames'[j] = frames[j]
      BY <1>0, <2>1, <3>1, <3>2, Replaces
    <3>4. i \in 1..n /\ (i = n \/ i \in 1..(n - 1))
      BY <1>1, <3>3
    <3> QED
      BY <1>1, <1>3, <2>1, <2>3, <3>1, <3>3, <3>4
  <2>8. CASE k = "WriteInjector"
    <3>1. Limit(k) = layer.injecting /\ Limit(k)' = layer'.injecting
      BY <2>8 DEF Limit
    <3>2. ~PassUp
      BY <2>5 DEF PassUp, Return
    <3>3. ~InjectorDrains
      <4>1. layer.injecting \in 0..Longest
        BY <1>0, LayerIs, Constants
      <4> QED
        BY <2>6, <2>8, <4>1 DEF InjectorDrains
    <3>4. ~InjectorResumes
      BY <2>5, <2>7 DEF InjectorResumes, Return
    <3>5. InjectorPasses
      BY <1>0, <1>4, <2>4, <2>8, <3>2, <3>3, <3>4, AtPayer
    <3> QED
      BY <3>1, <3>5 DEF InjectorPasses
  <2>9. CASE k = "Corrupter"
    <3>1. Limit(k) = layer.garbage /\ Limit(k)' = layer'.garbage
      BY <2>9 DEF Limit
    <3>2. ~PassUp
      BY <2>5 DEF PassUp, Return
    <3>3. ~CorrupterDrains
      <4>1. layer.garbage \in 0..Longest
        BY <1>0, LayerIs, Constants
      <4> QED
        BY <2>6, <2>9, <4>1 DEF CorrupterDrains
    <3>4. CorrupterMisses \/ CorrupterResumes
      BY <1>0, <1>4, <2>4, <2>9, <3>2, <3>3, AtPayer
    <3>5. CASE CorrupterMisses
      BY <3>1, <3>5 DEF CorrupterMisses
    <3>6. CASE CorrupterResumes
      <4>1. answer.n = layer.garbage /\ layer' = [layer EXCEPT !.garbage = @ - answer.n]
        BY <2>5, <2>7, <3>6 DEF CorrupterResumes, Return
      <4>2. layer'.garbage = layer.garbage - answer.n /\ layer.garbage \in Nat
        BY <1>0, <4>1, LayerIs, Constants DEF LayerTypes
      <4> QED
        BY <3>1, <4>1, <4>2
    <3> QED
      BY <3>4, <3>5, <3>6
  <2> QED
    BY <2>8, <2>9 DEF Payers
<1>5. CASE ~At(k)
  <2>1. Limit(k)' = Limit(k)
    BY <1>0, <1>5, PayloadStays
  <2>2. ASSUME NEW j \in DOMAIN frames, frames[j].src = "owner", p < frames[j].at, call' = call
        PROVE Limit(k)' = 0
    BY <2>1, <2>2 DEF Whole
  <2>3. p \in Stops(stack, "write")
    BY <1>0, StopsAct, WhoActs DEF Payers
  <2>4. CASE Stays
    BY <2>2, <2>4 DEF Stays
  <2>5. CASE OwnersTurn
    BY <2>5 DEF OwnersTurn
  <2>6. CASE Poll
    <3>1. PICK f \in Entered(0, "owner", call.len) : frames' = <<f>>
      BY <2>6 DEF Poll
    <3>2. call.len \in 0..Longest /\ "owner" \in Sources /\ call' = call
      BY <1>0, <2>6, Constants DEF TypeOK, OwnerTypes, Sources, Poll, owner
    <3>3. f.at <= p /\ f \in Frames
      BY <1>0, <1>2, <2>3, <3>1, <3>2, EnteredIs
    <3>4. frames'[i] = f
      BY <3>1
    <3>5. f.at \in Nat
      BY <1>0, <3>3 DEF Frames, EnvTypes
    <3> QED
      BY <1>2, <3>3, <3>4, <3>5
  <2>7. CASE frames # <<>> /\ UNCHANGED call /\ GoesOn
    <3>1. PICK step \in Steps, seen \in Rates \cup {0} : Goto(step, seen)
      BY <2>7 DEF GoesOn
    <3> DEFINE f == [Top EXCEPT !.step = step, !.seen = seen]
    <3>2. f \in Frames /\ f.at = Top.at /\ f.src = Top.src
      BY <1>3, <2>7 DEF Frames
    <3>3. frames' = Append(Callers, f)
      BY <3>1 DEF Goto
    <3> HIDE DEF f
    <3>4. /\ frames' \in Seq(Frames) /\ Len(frames') = n /\ frames'[n] = f
          /\ \A j \in 1..(n - 1) : frames'[j] = frames[j]
      BY <1>0, <2>7, <3>2, <3>3, Replaces
    <3>5. i \in DOMAIN frames /\ (i = n \/ i \in 1..(n - 1))
      BY <1>1, <3>4
    <3>6. frames[i].src = "owner" /\ p < frames[i].at
      BY <1>3, <2>7, <3>2, <3>4, <3>5
    <3> QED
      BY <2>2, <2>7, <3>5, <3>6
  <2>8. CASE frames # <<>> /\ UNCHANGED call /\ TailCall
    <3>1. PICK f \in Entered(Top.at, Top.src, Top.len) : frames' = Append(Callers, f)
      BY <2>8 DEF TailCall
    <3>2. Top.at \in Nat /\ Top.src \in Sources /\ Top.len \in 0..Longest
      BY <1>3, <2>8 DEF Frames
    <3>3. /\ f \in Frames /\ f.src = Top.src
          /\ \A q \in Stops(stack, call.op) : Top.at < q => f.at <= q
      BY <1>0, <3>1, <3>2, EnteredIs
    <3>4. /\ frames' \in Seq(Frames) /\ Len(frames') = n /\ frames'[n] = f
          /\ \A j \in 1..(n - 1) : frames'[j] = frames[j]
      BY <1>0, <2>8, <3>1, <3>3, Replaces
    <3>5. i \in DOMAIN frames /\ (i = n \/ i \in 1..(n - 1))
      BY <1>1, <3>4
    <3>6. CASE i = n
      <4>1. f.src = "owner" /\ p < f.at /\ f.at \in Nat
        BY <1>0, <3>3, <3>4, <3>6 DEF Frames, EnvTypes
      <4>2. ~(Top.at < p)
        BY <1>2, <2>3, <2>8, <3>3, <4>1
      <4>3. Top.at # p
        BY <1>5, <2>8 DEF At
      <4>4. p < Top.at
        BY <1>2, <3>2, <4>2, <4>3
      <4> QED
        BY <1>3, <2>2, <2>8, <3>3, <4>1, <4>4
    <3>7. CASE i \in 1..(n - 1)
      BY <2>2, <2>8, <3>4, <3>5, <3>7
    <3> QED
      BY <3>5, <3>6, <3>7
  <2>9. CASE frames # <<>> /\ UNCHANGED call /\ CallsDown
    <3>1. PICK m \in 0..Longest : Call(Asker(Top), m)
      BY <2>9 DEF CallsDown
    <3>2. PICK f \in Entered(Top.at, Asker(Top), m) : frames' = Append(frames, f)
      BY <3>1 DEF Call
    <3>3. Top.at \in Nat /\ Asker(Top) \in Sources
      BY <1>3, <2>9 DEF Frames, Asker, Sources
    <3>4. /\ f \in Frames /\ f.src = Asker(Top)
          /\ \A q \in Stops(stack, call.op) : Top.at < q => f.at <= q
      BY <1>0, <3>2, <3>3, EnteredIs
    <3>5. /\ frames' \in Seq(Frames) /\ Len(frames') = n + 1 /\ frames'[n + 1] = f
          /\ \A j \in 1..n : frames'[j] = frames[j]
      BY <1>0, <3>2, <3>4, Pushes
    <3>6. i = n + 1 \/ i \in 1..n
      BY <1>1, <3>5
    <3>7. CASE i = n + 1
      <4>1. f.src = "owner" /\ p < f.at /\ f.at \in Nat
        BY <1>0, <3>4, <3>5, <3>7 DEF Frames, EnvTypes
      <4>2. ~(Top.at < p)
        BY <1>2, <2>3, <2>9, <3>4, <4>1
      <4>3. Top.at # p
        BY <1>5, <2>9 DEF At
      <4>4. p < Top.at
        BY <1>2, <3>3, <4>2, <4>3
      <4>5. Top.src = "owner"
        BY <3>4, <4>1 DEF Asker
      <4> QED
        BY <1>3, <2>2, <2>9, <4>4, <4>5
    <3>8. CASE i \in 1..n
      BY <1>1, <2>2, <2>9, <3>5, <3>8
    <3> QED
      BY <3>6, <3>7, <3>8
  <2>10. CASE frames # <<>> /\ UNCHANGED call /\ ComesBack
    <3>1. frames' = Callers
      BY <2>10 DEF ComesBack, Return
    <3>2. /\ frames' \in Seq(Frames) /\ Len(frames') = n - 1
          /\ \A j \in 1..(n - 1) : frames'[j] = frames[j]
      BY <1>0, <2>10, <3>1, Pops
    <3>3. i \in DOMAIN frames /\ i \in 1..(n - 1)
      BY <1>1, <3>2
    <3> QED
      BY <2>2, <2>10, <3>2, <3>3
  <2> QED
    BY <1>0, <2>4, <2>5, <2>6, <2>7, <2>8, <2>9, <2>10, Shapes
<1> QED
  BY <1>4, <1>5

\* Only its owner and the sink's last answer change the call.
LEMMA OwnersSteps ==
  ASSUME TypeOK, [Next]_vars
  PROVE call' = call \/ Offer("write") \/ Offer("vectored") \/ Shutdown \/ Abandon
        \/ OwnerReady \/ OwnerFails
<1>1. CASE DataStays
  BY <1>1 DEF DataStays, owner
<1>2. CASE InjectorReceives \/ InjectorResumes \/ CorrupterHits \/ CorrupterResumes
           \/ SliceResumes \/ SliceFlushed \/ ThrottleResumes
  BY <1>2 DEF InjectorReceives, InjectorResumes, CorrupterHits, CorrupterResumes,
              SliceResumes, SliceFlushed, ThrottleResumes, Keeping, owner
<1>3. ASSUME NEW n \in 0..Longest, SinkTakes(n) PROVE call' = call
  BY <1>3 DEF SinkTakes, owner
<1> QED
  BY <1>1, <1>2, <1>3, DataSteps

\* Only the sink adds to what it has received of the owner's bytes.
LEMMA StreamSteps ==
  ASSUME TypeOK, [Next]_vars, stream' # stream
  PROVE \E n \in 0..Longest : SinkTakes(n)
<1>1. ASSUME DataStays PROVE FALSE
  BY <1>1 DEF DataStays, outlet
<1>2. ASSUME InjectorReceives \/ InjectorResumes \/ CorrupterHits \/ CorrupterResumes
             \/ SliceResumes \/ SliceFlushed \/ ThrottleResumes
      PROVE FALSE
  BY <1>2 DEF InjectorReceives, InjectorResumes, CorrupterHits, CorrupterResumes,
              SliceResumes, SliceFlushed, ThrottleResumes, Keeping, outlet
<1>3. ASSUME Offer("write") \/ Offer("vectored") \/ Shutdown \/ Abandon \/ OwnerReady \/ OwnerFails
      PROVE FALSE
  BY <1>3 DEF Offer, Shutdown, Abandon, OwnerReady, OwnerFails, outlet
<1> QED
  BY <1>1, <1>2, <1>3, DataSteps

\* Whole stays, as long as vectored writes wait for payloads.
LEMMA WholeNext ==
  ASSUME Careful, Sound, Whole, [Next]_vars
  PROVE Whole'
<1>0. TypeOK /\ EnvTypes /\ LayerTypes /\ ControlTypes /\ OwnerTypes /\ stack' = stack
  <2>1. stack' = stack
    BY Shapes DEF Sound
  <2> QED
    BY <2>1 DEF Sound, TypeOK
<1>1. ASSUME NEW k \in Payers, ~Has(k)' PROVE Limit(k)' = 0
  <2>1. ~Has(k) /\ ~At(k)
    BY <1>0, <1>1 DEF Has, Member, At
  <2> QED
    BY <1>0, <2>1, PayloadStays DEF Whole
<1>2. ASSUME NEW k \in Payers, call'.state = "pending", call'.op = "vectored"
      PROVE Limit(k)' = 0
  <2>1. CASE Offer("vectored")
    <3>1. due = [q \in DOMAIN due |-> 0] /\ frames = <<>> /\ answer = None
      BY <2>1 DEF Offer, Quiet
    <3>2. ~Broken
      BY <2>1, <3>1 DEF Offer, Broken, None, Failed
    <3>3. due[k] = 0 /\ due[k] = Limit(k) - Flight(k)
      <4>1. k \in DOMAIN due
        BY DEF Sound, TypeOK, HistoryTypes, Payers
      <4> QED
        BY <3>1, <3>2, <4>1 DEF Sound, Balanced, Payers
    <3>4. Flight(k) = 0
      BY <3>1 DEF Flight, Holder, None, Payers
    <3>5. Limit(k) \in Nat
      BY <1>0, LimitIs, Constants DEF Payers, Sources
    <3>6. Limit(k)' = Limit(k)
      BY <2>1 DEF Offer, Limit, Payers
    <3> QED
      BY <3>3, <3>4, <3>5, <3>6
  <2>2. CASE ~Offer("vectored")
    <3>1. call.state = "pending" /\ call.op = "vectored"
      <4>1. CASE call' = call
        BY <1>2, <4>1
      <4>2. CASE Offer("write")
        <5>1. PICK m \in (call.len + 1)..MaxBuf :
                call' = [call EXCEPT !.op = "write", !.state = "pending", !.len = m]
          BY <4>2 DEF Offer
        <5> QED
          BY <1>0, <1>2, <5>1 DEF OwnerTypes
      <4>3. CASE Shutdown
        BY <1>0, <1>2, <4>3 DEF Shutdown, OwnerTypes
      <4>4. CASE Abandon
        <5>1. PICK skipped \in {0, call.len} :
                call' = [call EXCEPT !.state = "idle", !.len = 0, !.next = call.next + skipped]
          BY <4>4 DEF Abandon
        <5> QED
          BY <1>0, <1>2, <5>1 DEF OwnerTypes
      <4>5. CASE OwnerReady \/ OwnerFails
        BY <1>0, <1>2, <4>5 DEF OwnerReady, OwnerFails, OwnerTypes
      <4> QED
        BY <1>0, <2>2, <4>1, <4>2, <4>3, <4>4, <4>5, OwnersSteps
    <3>2. Limit(k) = 0
      BY <3>1 DEF Whole
    <3>3. ~At(k)
      <4> SUFFICES ASSUME At(k) PROVE FALSE
        OBVIOUS
      <4>1. Top.at \in DOMAIN stack /\ stack[Top.at] = k /\ frames # <<>>
        BY DEF At
      <4>2. Top.at \in Stops(stack, "vectored")
        <5>1. Len(frames) \in DOMAIN frames /\ Top = frames[Len(frames)]
          BY <1>0, <4>1, TopIs
        <5> QED
          BY <3>1, <5>1 DEF Sound, Chain
      <4>3. "vectored" \in ActsOn[k]
        BY <1>0, <4>1, <4>2, StopsAct
      <4> QED
        BY <4>3, WhoActs DEF Payers
    <3> QED
      BY <1>0, <3>2, <3>3, PayloadStays
  <2> QED
    BY <2>1, <2>2
<1>3. ASSUME NEW k \in Payers, NEW p \in DOMAIN stack', NEW i \in DOMAIN frames',
             call'.op = "write", stack'[p] = k, frames'[i].src = "owner", p < frames'[i].at
      PROVE Limit(k)' = 0
  BY <1>0, <1>3, PassedWhole
<1> QED
  BY <1>1, <1>2, <1>3 DEF Whole

\* An injected or random payload reaches the sink in one piece: the owner's
\* bytes, which WriteInjector and Corrupter hand on, come before its first byte or
\* after its last, however long the sink takes for it.
THEOREM PayloadsStayWhole ==
  ASSUME Careful, Unmixed
  PROVE Spec => PayloadsWhole
<1>1. ASSUME Sound, Sound', Whole, [Next]_vars
      PROVE /\ stream' # stream => due = [k \in DOMAIN due |-> 0]
            /\ due' # due => \A k \in DOMAIN due : due'[k] >= 0
  <2>0. /\ TypeOK /\ due \in [Payers -> 0..MaxPayload] /\ due' \in [Payers -> 0..MaxPayload]
        /\ MaxPayload \in Nat /\ stack' = stack /\ EnvTypes /\ ControlTypes
    <3>1. TypeOK /\ EnvTypes /\ ControlTypes /\ HistoryTypes /\ HistoryTypes'
      BY <1>1 DEF Sound, TypeOK
    <3>2. due \in [Payers -> 0..MaxPayload] /\ due' \in [Payers -> 0..MaxPayload]
      BY <3>1 DEF HistoryTypes, Payers
    <3> QED
      BY <1>1, <3>1, <3>2, Constants, Shapes DEF Sound
  <2>1. \A k \in DOMAIN due : due'[k] >= 0
    BY <2>0
  <2>2. ASSUME stream' # stream PROVE due = [k \in DOMAIN due |-> 0]
    <3>1. PICK n \in 0..Longest : SinkTakes(n)
      BY <1>1, <2>0, <2>2, StreamSteps
    <3>2. Top.src = "owner" /\ AtSink /\ call.op # "shutdown"
      BY <2>2, <3>1 DEF SinkTakes
    <3>3. \A k \in Payers : due[k] = Limit(k)
      BY <1>1, <2>0, <3>1, Takes DEF Sound, Payers
    <3>4. ASSUME NEW k \in Payers PROVE Limit(k) = 0
      <4>1. frames # <<>> /\ Top.at = Len(stack) + 1 /\ Len(frames) \in DOMAIN frames
            /\ Top = frames[Len(frames)]
        BY <2>0, <3>2, TopIs DEF AtSink
      <4>2. CASE call.op = "write" /\ Has(k)
        <5>1. PICK p \in DOMAIN stack : stack[p] = k
          BY <4>2 DEF Has, Member
        <5>2. p < Top.at
          BY <2>0, <4>1 DEF EnvTypes
        <5> QED
          BY <1>1, <3>2, <4>1, <4>2, <5>1, <5>2 DEF Whole
      <4>3. CASE ~Has(k)
        BY <1>1, <4>3 DEF Whole
      <4>4. CASE call.op = "vectored"
        <5>1. call.state = "pending"
          BY <1>1, <4>1 DEF Sound, Owning
        <5> QED
          BY <1>1, <4>4, <5>1 DEF Whole
      <4>5. call.op \in {"write", "vectored"}
        BY <2>0, <3>2 DEF TypeOK, OwnerTypes
      <4> QED
        BY <4>2, <4>3, <4>4, <4>5
    <3>5. \A k \in Payers : due[k] = 0
      BY <3>3, <3>4
    <3> QED
      BY <2>0, <3>5
  <2> QED
    BY <2>1, <2>2
<1>2. Sound /\ Sound' /\ Whole /\ [Next]_vars
        => [/\ stream' # stream => due = [k \in DOMAIN due |-> 0]
            /\ due' # due => \A k \in DOMAIN due : due'[k] >= 0]_vars
  BY <1>1
<1>3. Sound /\ Whole /\ [Next]_vars => Whole'
  BY WholeNext
<1> QED
  BY <1>2, <1>3, WholeInit, StackIsSound, PTL DEF Spec, PayloadsWhole

=============================================================================
