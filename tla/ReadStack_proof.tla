---------------------------- MODULE ReadStack_proof ----------------------------
(***************************************************************************)
(* Proofs about ReadStack for stacks of any adapters, knobs with any       *)
(* values, buffers of any size and peers that send any number of bytes.    *)
(***************************************************************************)
EXTENDS ReadStack, LeakyBucket_proof, SequenceTheorems

-----------------------------------------------------------------------------
(* What the operators return.                                               *)

\* The bounds have a highest value.
LEMMA Tops ==
  /\ TopRate \in Rates /\ TopRate \in Nat /\ \A r \in Rates : r <= TopRate
  /\ TopDelay \in Delays /\ TopDelay \in Nat /\ \A d \in Delays : d <= TopDelay
BY ReadStackAssumption DEF TopRate, TopDelay

\* The constants, one by one.
LEMMA Constants ==
  /\ Capacity \in Nat \ {0} /\ MaxBuf \in Nat \ {0} /\ MaxPayload \in Nat \ {0}
  /\ Total \in Nat /\ Rates \in SUBSET Nat /\ Delays \subseteq Nat
BY ReadStackAssumption

\* The smaller of two numbers.
LEMMA LeastOf ==
  ASSUME NEW a \in Int, NEW b \in Int
  PROVE /\ Least(a, b) \in {a, b} /\ Least(a, b) <= a /\ Least(a, b) <= b
BY DEF Least

\* A descent goes down, past no adapter that acts on reads.
LEMMA DescentDown ==
  ASSUME EnvTypes, ControlTypes, Descend
  PROVE /\ frame' \in [at : 1..(Len(stack) + 1), step : {"enter"}, seen : {0}]
        /\ \A k \in DOMAIN stack :
             "read" \in ActsOn[stack[k]] /\ frame.at < k => frame'.at <= k
<1>1. PICK i \in Below(stack, "read", frame.at) : frame' = [at |-> i, step |-> "enter", seen |-> 0]
  BY DEF Descend
<1>2. i \in 1..(Len(stack) + 1)
  BY <1>1 DEF Below, Stops, EnvTypes
<1>3. \A k \in Stops(stack, "read") : frame.at < k => i <= k
  BY <1>1 DEF Below
<1> QED
  BY <1>1, <1>2, <1>3 DEF Stops

\* Timers stay timers.
LEMMA TimersStay ==
  /\ IdleTimer \in Timers(Delays)
  /\ \A d \in Delays : Armed(d) \in Timers(Delays)
  /\ \A timer \in Timers(Delays) : Closer(timer) \in Timers(Delays)
<1>1. IdleTimer \in Timers(Delays)
  BY Tops DEF IdleTimer, Timers
<1>2. ASSUME NEW d \in Delays PROVE Armed(d) \in Timers(Delays)
  BY Constants DEF Armed, Timers
<1>3. ASSUME NEW timer \in Timers(Delays) PROVE Closer(timer) \in Timers(Delays)
  <2>1. PICK d \in Delays : timer.left \in 0..d
    BY DEF Timers
  <2>2. (IF timer.left = 0 THEN 0 ELSE timer.left - 1) \in 0..d
    BY <2>1, Constants
  <2> QED
    BY <2>2 DEF Closer, Timers
<1> QED
  BY <1>1, <1>2, <1>3

\* What the BufReader shows.
LEMMA RemBound ==
  ASSUME DataTypes
  PROVE /\ Rem \in 0..Capacity /\ source.pos + Rem <= Total
        /\ Rem = 0 <=> source.buf = 0 /\ source.arrived = 0
        /\ Rem >= source.buf
        /\ source.buf = 0 => Rem <= source.arrived
<1>1. /\ source.buf \in 0..Capacity /\ source.arrived \in 0..Total /\ source.pos \in 0..Total
      /\ source.pos + source.buf + source.arrived <= Total
  BY DEF DataTypes
<1> QED
  BY <1>1, Constants DEF Rem, Least

\* The source once its buffer is filled.
LEMMA FilledIs ==
  ASSUME DataTypes
  PROVE /\ Filled \in [pos : 0..Total, buf : 0..Capacity, arrived : 0..Total, closed : BOOLEAN]
        /\ Filled.pos = source.pos /\ Filled.buf = Rem /\ Filled.closed = source.closed
        /\ Filled.buf + Filled.arrived = source.buf + source.arrived
<1>1. /\ source.buf \in 0..Capacity /\ source.arrived \in 0..Total /\ source.pos \in 0..Total
      /\ source \in [pos : 0..Total, buf : 0..Capacity, arrived : 0..Total, closed : BOOLEAN]
  BY DEF DataTypes
<1>2. CASE source.buf > 0
  BY <1>1, <1>2 DEF Filled, Rem
<1>3. CASE ~(source.buf > 0)
  <2>1. source.buf = 0 /\ Rem \in 0..Capacity /\ source.arrived - Rem \in 0..Total
    BY <1>1, <1>3, RemBound, Constants
  <2> DEFINE one == [source EXCEPT !.buf = Rem]
             two == [one EXCEPT !.arrived = source.arrived - Rem]
  <2>2. Filled = two
    BY <1>3 DEF Filled
  <2>3. /\ one \in [pos : 0..Total, buf : 0..Capacity, arrived : 0..Total, closed : BOOLEAN]
        /\ one.pos = source.pos /\ one.buf = Rem /\ one.closed = source.closed
    BY <1>1, <2>1
  <2> HIDE DEF one
  <2>4. /\ two \in [pos : 0..Total, buf : 0..Capacity, arrived : 0..Total, closed : BOOLEAN]
        /\ two.pos = source.pos /\ two.buf = Rem /\ two.closed = source.closed
        /\ two.arrived = source.arrived - Rem
    BY <1>1, <2>1, <2>3
  <2> HIDE DEF two
  <2> QED
    BY <1>1, <2>1, <2>2, <2>4
<1> QED
  BY <1>2, <1>3

\* A run of bytes.
LEMMA BytesAre ==
  ASSUME NEW from \in Nat \ {0}, NEW n \in Nat
  PROVE /\ Bytes(from, n) \in Seq(1..(from + n - 1)) /\ Bytes(from, n) \in Seq(Nat)
        /\ Len(Bytes(from, n)) = n
        /\ \A i \in 1..n : Bytes(from, n)[i] = from + i - 1
<1>1. Bytes(from, n) \in Seq(1..(from + n - 1))
  BY DEF Bytes
<1>2. Bytes(from, n) \in Seq(Nat)
  BY DEF Bytes
<1>3. Len(Bytes(from, n)) = n
  BY DEF Bytes
<1>4. \A i \in 1..n : Bytes(from, n)[i] = from + i - 1
  BY DEF Bytes
<1> QED
  BY <1>1, <1>2, <1>3, <1>4

\* One run goes on where another ends.
LEMMA BytesJoin ==
  ASSUME NEW m \in Nat, NEW n \in Nat
  PROVE Bytes(1, m) \o Bytes(m + 1, n) = Bytes(1, m + n)
<1> DEFINE s == Bytes(1, m)
           t == Bytes(m + 1, n)
           u == Bytes(1, m + n)
<1>1. /\ s \in Seq(Nat) /\ Len(s) = m /\ \A i \in 1..m : s[i] = i
      /\ u \in Seq(Nat) /\ Len(u) = m + n /\ \A i \in 1..(m + n) : u[i] = i
  <2>1. \A k \in Nat : /\ Bytes(1, k) \in Seq(Nat) /\ Len(Bytes(1, k)) = k
                       /\ \A i \in 1..k : Bytes(1, k)[i] = 1 + i - 1
    <3> TAKE k \in Nat
    <3>1. 1 \in Nat \ {0}
      OBVIOUS
    <3> QED
      BY <3>1, BytesAre, Zenon
  <2>2. m + n \in Nat /\ \A i \in Nat : 1 + i - 1 = i
    OBVIOUS
  <2> QED
    BY <2>1, <2>2
<1>2. t \in Seq(Nat) /\ Len(t) = n /\ \A i \in 1..n : t[i] = m + i
  BY BytesAre
<1> HIDE DEF s, t, u
<1>3. s \o t \in Seq(Nat) /\ Len(s \o t) = m + n
  BY <1>1, <1>2
<1>4. ASSUME NEW i \in 1..(m + n) PROVE (s \o t)[i] = u[i]
  <2>1. (s \o t)[i] = IF i <= m THEN s[i] ELSE t[i - m]
    BY <1>1, <1>2
  <2>2. CASE i <= m
    BY <1>1, <2>1, <2>2
  <2>3. CASE ~(i <= m)
    <3>1. i - m \in 1..n
      BY <2>3
    <3> QED
      BY <1>1, <1>2, <2>1, <2>3, <3>1
  <2> QED
    BY <2>2, <2>3
<1>5. s \o t = u
  <2>1. Len(s \o t) = Len(u) /\ s \o t \in Seq(Nat) /\ u \in Seq(Nat)
    BY <1>1, <1>3
  <2>2. \A i \in 1..Len(s \o t) : (s \o t)[i] = u[i]
    BY <1>3, <1>4
  <2> QED
    BY <2>1, <2>2, SeqEqual
<1> QED
  BY <1>5 DEF s, t, u

-----------------------------------------------------------------------------
(* Types, and what a poll under way presupposes.                            *)

\* The peer has closed and everything was read.
AtEnd == source.closed /\ source.buf = 0 /\ source.arrived = 0

\* A poll serves a pending read with room in its buffer.  Only the throttle
\* takes several steps, the later ones with something in the BufReader or at
\* its end.
Underway ==
  /\ frame.at # 0 => call.state = "pending"
  /\ call.state = "pending" => call.room > 0
  /\ frame.step # "enter" => frame.at \in DOMAIN stack /\ stack[frame.at] = "ThrottledReader"
  /\ frame.step = "acquire" => source.buf > 0 \/ AtEnd
  /\ frame.step = "refill" => source.buf > 0 /\ frame.seen # 0

\* A read that the BufReader passes on to the socket.
Directly(n) ==
  /\ n \in 1..source.arrived /\ source.buf = 0
  /\ source' = [source EXCEPT !.pos = @ + n, !.arrived = @ - n]
  /\ got' = got \o Bytes(source.pos + 1, n)

\* All that may happen to the peer's bytes and their history in a step.
LEMMA Moves ==
  ASSUME TypeOK, Underway, [Next]_vars
  PROVE \/ UNCHANGED <<source, got, history>>
        \/ UNCHANGED <<source, got>> /\ (SetRate \/ SetDelay \/ Tick)
        \/ UNCHANGED history /\ (Arrive \/ Close)
        \/ Looks /\ CanFill
        \/ \E n \in 0..Rem : Copies(n)
        \/ UNCHANGED history /\ \E n \in Nat : Directly(n)
<1>0. call.room \in Nat /\ Rem \in Nat /\ source.buf \in Nat /\ source.buf <= Rem
      /\ source.arrived \in Nat
  BY RemBound, Constants DEF TypeOK, ControlTypes, DataTypes
<1>1. CASE UNCHANGED vars
  BY <1>1 DEF vars
<1>2. CASE Environment
  <2>1. CASE FillAndConsume
    BY <1>0, <2>1 DEF FillAndConsume
  <2>2. CASE Environment /\ ~FillAndConsume
    BY <2>2 DEF Environment, SetRate, SetDelay, SetCorrupt, Set, Inject, Tick, Arrive, Close,
                Read, Abandon
  <2> QED
    BY <1>2, <2>1, <2>2
\* An answer of the throttle, and one of the delay.
<1>3. ASSUME NEW bucket, NEW grant \in Nat, grant <= source.buf, Yield(bucket, grant)
      PROVE \E n \in 0..Rem : Copies(n)
  <2>1. Least(grant, call.room) \in 0..Rem
    BY <1>0, <1>3, LeastOf
  <2> QED
    BY <1>3, <2>1 DEF Yield
<1>4. ASSUME NEW timer, HandOut(timer) PROVE \E n \in 0..Rem : Copies(n)
  <2>1. Least(Rem, call.room) \in 0..Rem
    BY <1>0, LeastOf
  <2> QED
    BY <1>4, <2>1 DEF HandOut
<1>5. CASE ThrottleFills
  BY <1>5 DEF ThrottleFills, Elsewhere
<1>6. CASE Acquire
  <2>1. \/ UNCHANGED <<source, got, history>>
        \/ Yield(layer.bucket, Shown)
    BY <1>6 DEF Acquire, Elsewhere
  <2> QED
    BY <1>0, <1>3, <2>1 DEF Shown
<1>7. CASE Grant
  <2> DEFINE bucket == Refilled(layer.bucket, knob.rate)
             grant == Least(Shown, bucket.budget)
  <2>1. bucket.budget \in Nat
    <3>1. bucket \in Buckets(Rates)
      BY BucketsStay, Constants DEF TypeOK, LayerTypes, EnvTypes, Knobs
    <3> QED
      BY <3>1, BucketFields, Constants
  <2> HIDE DEF bucket
  <2>2. grant \in Nat /\ grant <= source.buf
    BY <1>0, <2>1, LeastOf DEF Shown
  <2>3. \/ UNCHANGED <<source, got, history>>
        \/ Yield(bucket, grant)
    BY <1>7 DEF Grant, Elsewhere, bucket
  <2> QED
    BY <1>3, <2>2, <2>3
<1>8. CASE DelayIdles \/ DelayArms \/ DelaySkips \/ DelayWaits \/ DelayOver
  BY <1>4, <1>8 DEF DelayIdles, DelayArms, DelaySkips, DelayWaits, DelayOver, Elsewhere
<1>9. CASE SourceReads
  <2> DEFINE all == IF source.buf = 0 /\ call.room >= Capacity THEN source.arrived ELSE Rem
             n == Least(all, call.room)
  <2>1. all \in Nat /\ (all = Rem \/ (source.buf = 0 /\ all = source.arrived))
    BY <1>0
  <2> HIDE DEF all
  <2>2. n \in Nat /\ n <= all
    BY <1>0, <2>1, LeastOf
  <2> HIDE DEF n
  <2>3. \/ UNCHANGED <<source, got, history>>
        \/ n <= Rem /\ Copies(n)
        \/ /\ ~(n <= Rem) /\ UNCHANGED history
           /\ source' = [source EXCEPT !.pos = @ + n, !.arrived = @ - n]
           /\ got' = got \o Bytes(source.pos + 1, n)
    BY <1>9 DEF SourceReads, Elsewhere, n, all
  <2>4. n <= Rem => n \in 0..Rem
    BY <1>0, <2>2
  <2>5. ~(n <= Rem) => n \in 1..source.arrived /\ source.buf = 0
    BY <1>0, <2>1, <2>2
  <2> QED
    BY <2>2, <2>3, <2>4, <2>5 DEF Directly
<1>10. CASE Poll \/ Fuse \/ InjectorDelivers \/ InjectorReceives \/ InjectorPasses
            \/ CorrupterHits \/ CorrupterMisses \/ ThrottleOff \/ ThrottleOn \/ SourceFails
  BY <1>10 DEF Poll, Fuse, InjectorDelivers, InjectorReceives, InjectorPasses, CorrupterHits,
               CorrupterMisses, ThrottleOff, ThrottleOn, SourceFails, Elsewhere
<1> QED
  BY <1>1, <1>2, <1>5, <1>6, <1>7, <1>8, <1>9, <1>10 DEF Next, TaskStep

\* What is left in the source when n bytes of what it shows are consumed.
LEMMA CopiesLeave ==
  ASSUME DataTypes, NEW n \in 0..Rem, Copies(n)
  PROVE /\ source' \in [pos : 0..Total, buf : 0..Capacity, arrived : 0..Total, closed : BOOLEAN]
        /\ source'.pos = source.pos + n /\ source'.buf = Rem - n
        /\ source'.closed = source.closed
        /\ source'.buf + source'.arrived + n = source.buf + source.arrived
<1> DEFINE one == [Filled EXCEPT !.pos = Filled.pos + n]
           two == [one EXCEPT !.buf = one.buf - n]
<1>1. source' = two
  BY DEF Copies
<1>2. /\ Rem \in 0..Capacity /\ source.pos + Rem <= Total
      /\ source.pos \in 0..Total /\ source.buf \in Nat /\ source.arrived \in Nat
      /\ Capacity \in Nat /\ Total \in Nat
  BY RemBound, Constants DEF DataTypes
<1>3. /\ Filled \in [pos : 0..Total, buf : 0..Capacity, arrived : 0..Total, closed : BOOLEAN]
      /\ Filled.pos = source.pos /\ Filled.buf = Rem /\ Filled.closed = source.closed
      /\ Filled.buf + Filled.arrived = source.buf + source.arrived
  BY FilledIs
<1> HIDE DEF Filled, Rem
<1>4. /\ one \in [pos : 0..Total, buf : 0..Capacity, arrived : 0..Total, closed : BOOLEAN]
      /\ one.pos = source.pos + n /\ one.buf = Rem /\ one.closed = source.closed
      /\ one.buf + one.arrived = source.buf + source.arrived
  BY <1>2, <1>3
<1> HIDE DEF one
<1>5. /\ two \in [pos : 0..Total, buf : 0..Capacity, arrived : 0..Total, closed : BOOLEAN]
      /\ two.pos = source.pos + n /\ two.buf = Rem - n /\ two.closed = source.closed
      /\ two.buf + two.arrived + n = source.buf + source.arrived
  BY <1>2, <1>4
<1> HIDE DEF two
<1> QED
  BY <1>1, <1>5

\* What a direct read leaves.
LEMMA DirectlyLeaves ==
  ASSUME DataTypes, NEW n, Directly(n)
  PROVE /\ source' \in [pos : 0..Total, buf : 0..Capacity, arrived : 0..Total, closed : BOOLEAN]
        /\ source'.pos = source.pos + n /\ source'.buf = 0 /\ source'.closed = source.closed
        /\ source'.arrived + n = source.arrived
        /\ source.pos + n <= Total
<1> DEFINE one == [source EXCEPT !.pos = source.pos + n]
           two == [one EXCEPT !.arrived = one.arrived - n]
<1>1. source' = two /\ n \in 1..source.arrived /\ source.buf = 0
  BY DEF Directly
<1>2. /\ source \in [pos : 0..Total, buf : 0..Capacity, arrived : 0..Total, closed : BOOLEAN]
      /\ source.pos + n <= Total /\ source.pos + n \in 0..Total /\ Total \in Nat
  BY <1>1, Constants DEF DataTypes
<1>3. /\ one \in [pos : 0..Total, buf : 0..Capacity, arrived : 0..Total, closed : BOOLEAN]
      /\ one.pos = source.pos + n /\ one.buf = 0 /\ one.closed = source.closed
      /\ one.arrived = source.arrived
  BY <1>1, <1>2
<1> HIDE DEF one
<1>4. /\ two \in [pos : 0..Total, buf : 0..Capacity, arrived : 0..Total, closed : BOOLEAN]
      /\ two.pos = source.pos + n /\ two.buf = 0 /\ two.closed = source.closed
      /\ two.arrived + n = source.arrived
  BY <1>1, <1>2, <1>3
<1> HIDE DEF two
<1> QED
  BY <1>1, <1>2, <1>4

\* What the owner is given are bytes of the peer.
LEMMA GotTyped ==
  ASSUME DataTypes, NEW n \in Nat, source.pos + n <= Total,
         got' = got \o Bytes(source.pos + 1, n)
  PROVE got' \in Seq(1..Total)
<1>1. source.pos \in Nat /\ Total \in Nat
  BY Constants DEF DataTypes
<1>2. Bytes(source.pos + 1, n) \in Seq(1..(source.pos + 1 + n - 1))
  <2>1. source.pos + 1 \in Nat \ {0}
    BY <1>1
  <2> QED
    BY <2>1, BytesAre, Zenon
<1>3. 1..(source.pos + 1 + n - 1) \subseteq 1..Total
  BY <1>1
<1>4. Bytes(source.pos + 1, n) \in Seq(1..Total)
  BY <1>2, <1>3, SeqMonotonic
<1>5. got \in Seq(1..Total)
  BY DEF DataTypes
<1> QED
  BY <1>4, <1>5

\* The bytes keep their types ...
LEMMA DataNext ==
  ASSUME TypeOK, Underway, [Next]_vars
  PROVE DataTypes'
<1>0. DataTypes /\ /\ source.pos \in 0..Total /\ source.buf \in 0..Capacity
                   /\ source.arrived \in 0..Total /\ Total \in Nat /\ Capacity \in Nat
                   /\ source.pos + Rem <= Total
  BY RemBound, Constants DEF TypeOK, DataTypes
<1>1. CASE UNCHANGED <<source, got>>
  BY <1>0, <1>1 DEF DataTypes
<1>2. CASE Arrive
  <2>1. source.pos + source.buf + source.arrived < Total /\ UNCHANGED got
        /\ source' = [source EXCEPT !.arrived = source.arrived + 1]
    BY <1>2 DEF Arrive
  <2>2. source.arrived + 1 \in 0..Total
    BY <1>0, <2>1
  <2>3. /\ source' \in [pos : 0..Total, buf : 0..Capacity, arrived : 0..Total, closed : BOOLEAN]
        /\ source'.pos = source.pos /\ source'.buf = source.buf
        /\ source'.arrived = source.arrived + 1
    BY <1>0, <2>1, <2>2 DEF DataTypes
  <2>4. source'.pos + source'.buf + source'.arrived <= Total
    BY <1>0, <2>1, <2>3
  <2> QED
    BY <1>0, <2>1, <2>3, <2>4 DEF DataTypes
<1>3. CASE Close
  BY <1>0, <1>3 DEF Close, DataTypes
<1>4. CASE Looks
  <2>1. source' = Filled /\ got' = got
    BY <1>4 DEF Looks
  <2> HIDE DEF Filled
  <2> QED
    BY <1>0, <2>1, FilledIs DEF DataTypes
<1>5. ASSUME NEW n \in 0..Rem, Copies(n) PROVE DataTypes'
  <2>1. n \in Nat /\ source.pos + n <= Total
    BY <1>0, RemBound
  <2>2. got' \in Seq(1..Total)
    BY <1>0, <1>5, <2>1, GotTyped DEF Copies
  <2>3. /\ source' \in [pos : 0..Total, buf : 0..Capacity, arrived : 0..Total, closed : BOOLEAN]
        /\ source'.pos = source.pos + n
        /\ source'.buf + source'.arrived + n = source.buf + source.arrived
    BY <1>0, <1>5, CopiesLeave
  <2>4. source'.buf \in Nat /\ source'.arrived \in Nat /\ source'.pos \in Nat
    BY <1>0, <2>3
  <2>5. source.pos + source.buf + source.arrived <= Total
    BY <1>0 DEF DataTypes
  <2>6. source'.pos + source'.buf + source'.arrived <= Total
    BY <1>0, <2>1, <2>3, <2>4, <2>5
  <2> QED
    BY <2>2, <2>3, <2>6 DEF DataTypes
<1>6. ASSUME NEW n \in Nat, Directly(n) PROVE DataTypes'
  <2>1. /\ source' \in [pos : 0..Total, buf : 0..Capacity, arrived : 0..Total, closed : BOOLEAN]
        /\ source'.pos = source.pos + n /\ source'.buf = 0
        /\ source'.arrived + n = source.arrived /\ source.pos + n <= Total
    BY <1>0, <1>6, DirectlyLeaves
  <2>2. got' \in Seq(1..Total)
    BY <1>0, <1>6, <2>1, GotTyped DEF Directly
  <2>3. source.pos + source.buf + source.arrived <= Total /\ source'.arrived \in Nat
        /\ source.buf = 0
    <3>1. source.buf = 0
      BY <1>6 DEF Directly
    <3>2. source'.arrived \in Nat
      BY <1>0, <2>1
    <3> QED
      BY <1>0, <3>1, <3>2 DEF DataTypes
  <2>4. source'.pos + source'.buf + source'.arrived <= Total
    <3>1. source.pos \in Nat /\ source.arrived \in Nat /\ source.buf \in Nat /\ Total \in Nat
      BY <1>0
    <3> QED
      BY <2>1, <2>3, <3>1, SMT
  <2> QED
    BY <2>1, <2>2, <2>4 DEF DataTypes
<1> QED
  BY <1>1, <1>2, <1>3, <1>4, <1>5, <1>6, Moves

\* A burst that is new or goes on.
LEMMA BurstTyped ==
  ASSUME EnvTypes, HistoryTypes
  PROVE /\ Burst \in [since : 0..TopDelay, low : Delays, begun : BOOLEAN]
        /\ Burst = burst \/ (Burst.since = 0 /\ Burst.low = knob.delay /\ Burst.begun = FALSE)
        /\ source.buf > 0 \/ Rem = 0 => Burst = burst
BY Tops DEF Burst, EnvTypes, Knobs, HistoryTypes

\* ... and so does their history.
LEMMA HistoryNext ==
  ASSUME TypeOK, Underway, [Next]_vars
  PROVE HistoryTypes'
<1>0. /\ meter \in [level : Int, valid : BOOLEAN]
      /\ burst \in [since : 0..TopDelay, low : Delays, begun : BOOLEAN]
      /\ knob \in Knobs
  BY DEF TypeOK, HistoryTypes, EnvTypes
<1>1. CASE UNCHANGED history
  BY <1>0, <1>1 DEF history, HistoryTypes
<1>2. CASE SetRate
  BY <1>0, <1>2 DEF SetRate, HistoryTypes
<1>3. CASE SetDelay
  <2>1. PICK d \in Delays : burst' = [burst EXCEPT !.low = Least(burst.low, d)] /\ meter' = meter
    BY <1>3 DEF SetDelay
  <2>2. Least(burst.low, d) \in Delays
    BY <1>0 DEF Least
  <2> QED
    BY <1>0, <2>1, <2>2 DEF HistoryTypes
<1>4. CASE Tick
  <2>1. meter' \in [level : Int, valid : BOOLEAN]
    <3>1. Metered(meter.level, TopRate) \in Int
      <4>1. 2 * Second * TopRate \in Int
        BY Tops, BucketAssumption
      <4> QED
        BY <1>0, <4>1, Tops DEF Metered, MeterCap, Least
    <3> QED
      BY <1>0, <1>4, <3>1 DEF Tick
  <2>2. burst' \in [since : 0..TopDelay, low : Delays, begun : BOOLEAN]
    <3>1. Least(TopDelay, burst.since + 1) \in 0..TopDelay
      BY <1>0, Tops DEF Least
    <3> QED
      BY <1>0, <1>4, <3>1 DEF Tick
  <2> QED
    BY <2>1, <2>2 DEF HistoryTypes
<1>5. CASE Looks
  <2>1. burst' = Burst /\ meter' = meter
    BY <1>5 DEF Looks
  <2> QED
    BY <1>0, <2>1, BurstTyped DEF HistoryTypes, TypeOK
<1>6. ASSUME NEW n \in 0..Rem, Copies(n) PROVE HistoryTypes'
  <2>1. Burst \in [since : 0..TopDelay, low : Delays, begun : BOOLEAN]
    BY BurstTyped DEF TypeOK
  <2>2. /\ burst' = [Burst EXCEPT !.begun = Burst.begun \/ n > 0]
        /\ meter' = IF meter.valid THEN [meter EXCEPT !.level = meter.level - Second * n] ELSE meter
    BY <1>6 DEF Copies
  <2>3. meter.level - Second * n \in Int
    <3>1. n \in Nat /\ Second \in Nat /\ meter.level \in Int
      BY <1>0, RemBound, BucketAssumption DEF TypeOK
    <3>2. Second * n \in Nat
      BY <3>1
    <3> QED
      BY <3>1, <3>2
  <2>4. burst' \in [since : 0..TopDelay, low : Delays, begun : BOOLEAN]
    <3> HIDE DEF Burst
    <3>1. (Burst.begun \/ n > 0) \in BOOLEAN
      OBVIOUS
    <3> QED
      BY <2>1, <2>2, <3>1
  <2>5. meter' \in [level : Int, valid : BOOLEAN]
    BY <1>0, <2>2, <2>3
  <2> QED
    BY <2>4, <2>5 DEF HistoryTypes
<1> QED
  BY <1>1, <1>2, <1>3, <1>4, <1>5, <1>6, Moves

\* What the layers keep, too.
LEMMA LayerNext ==
  ASSUME TypeOK, Underway, [Next]_vars
  PROVE LayerTypes'
<1>0. /\ layer \in [queue : Seq(0..MaxPayload), buffer : {NoPayload} \cup 0..MaxPayload,
                    bucket : Buckets(Rates), timer : Timers(Delays), bufEmpty : BOOLEAN]
      /\ knob \in Knobs /\ call.room \in Nat
  BY Constants DEF TypeOK, LayerTypes, EnvTypes, ControlTypes
<1>1. CASE UNCHANGED layer
  BY <1>0, <1>1 DEF LayerTypes
<1>2. CASE Inject
  <2>1. PICK n \in 0..MaxPayload : layer' = [layer EXCEPT !.queue = Append(layer.queue, n)]
    BY <1>2 DEF Inject
  <2>2. Append(layer.queue, n) \in Seq(0..MaxPayload)
    BY <1>0
  <2> QED
    BY <1>0, <2>1, <2>2 DEF LayerTypes
<1>3. CASE Tick
  <2> DEFINE bucket == IF Has("ThrottledReader") THEN Older(layer.bucket) ELSE layer.bucket
  <2>1. bucket \in Buckets(Rates)
    BY <1>0, BucketsStay, Constants
  <2>2. Closer(layer.timer) \in Timers(Delays)
    BY <1>0, TimersStay
  <2>3. layer' = [layer EXCEPT !.bucket = bucket, !.timer = Closer(layer.timer)]
    BY <1>3 DEF Tick
  <2> HIDE DEF bucket
  <2> QED
    BY <1>0, <2>1, <2>2, <2>3 DEF LayerTypes
<1>4. CASE InjectorDelivers
  <2> DEFINE n == Least(call.room, layer.buffer)
             rest == IF layer.buffer = n THEN NoPayload ELSE layer.buffer - n
  <2>1. layer' = [layer EXCEPT !.buffer = rest] /\ layer.buffer # NoPayload
    BY <1>4 DEF InjectorDelivers
  <2>2. layer.buffer \in 0..MaxPayload
    BY <1>0, <2>1
  <2>3. rest \in {NoPayload} \cup 0..MaxPayload
    BY <1>0, <2>2, Constants DEF Least
  <2> HIDE DEF rest
  <2> QED
    BY <1>0, <2>1, <2>3 DEF LayerTypes
<1>5. CASE InjectorReceives
  <2>1. layer.queue # <<>>
        /\ layer' = [layer EXCEPT !.buffer = Head(layer.queue), !.queue = Tail(layer.queue)]
    BY <1>5 DEF InjectorReceives
  <2>2. Head(layer.queue) \in 0..MaxPayload /\ Tail(layer.queue) \in Seq(0..MaxPayload)
    <3>1. layer.queue \in Seq(0..MaxPayload)
      BY <1>0
    <3> QED
      BY <2>1, <3>1, HeadTailProperties
  <2> QED
    BY <1>0, <2>1, <2>2 DEF LayerTypes
<1>6. ASSUME NEW bucket \in Buckets(Rates), NEW grant \in Nat, Yield(bucket, grant)
      PROVE LayerTypes'
  <2>1. Least(grant, call.room) \in Nat
    BY <1>0 DEF Least
  <2>2. Spent(bucket, Least(grant, call.room)) \in Buckets(Rates)
    BY <2>1, BucketsStay, Constants
  <2>3. layer' = [layer EXCEPT !.bucket = Spent(bucket, Least(grant, call.room))]
    BY <1>6 DEF Yield
  <2> QED
    BY <1>0, <2>2, <2>3 DEF LayerTypes
<1>7. CASE Acquire
  <2>1. UNCHANGED layer \/ Yield(layer.bucket, source.buf)
    BY <1>7 DEF Acquire, Shown
  <2>2. source.buf \in Nat
    BY Constants DEF TypeOK, DataTypes
  <2> QED
    BY <1>0, <1>1, <1>6, <2>1, <2>2
<1>8. CASE Grant
  <2> DEFINE bucket == Refilled(layer.bucket, knob.rate)
             grant == Least(source.buf, bucket.budget)
  <2>1. bucket \in Buckets(Rates)
    BY <1>0, BucketsStay, Constants DEF Knobs
  <2>2. frame.seen \in Nat \ {0} /\ source.buf \in Nat
    BY <1>8, Constants DEF Grant, Running, Underway, TypeOK, ControlTypes, DataTypes
  <2>3. \/ Yield(bucket, grant)
        \/ layer' = [layer EXCEPT !.bucket = Napping(bucket, frame.seen)]
    BY <1>8 DEF Grant, Shown
  <2> HIDE DEF bucket
  <2>4. grant \in Nat
    BY <2>1, <2>2, BucketFields, Constants DEF Least
  <2> HIDE DEF grant
  <2>5. Napping(bucket, frame.seen) \in Buckets(Rates)
    BY <2>1, <2>2, BucketsStay, Constants
  <2> QED
    BY <1>0, <1>6, <2>1, <2>3, <2>4, <2>5 DEF LayerTypes
<1>9. CASE DelayArms
  <2>1. Armed(knob.delay) \in Timers(Delays)
    BY <1>0, TimersStay DEF Knobs
  <2>2. layer' = [layer EXCEPT !.timer = Armed(knob.delay)]
    BY <1>9 DEF DelayArms
  <2> QED
    BY <1>0, <2>1, <2>2 DEF LayerTypes
<1>10. CASE DelaySkips \/ DelayOver
  <2>1. CASE HandOut(IdleTimer)
    <3> DEFINE drained == Least(Rem, call.room) = Rem
    <3>1. layer' = [layer EXCEPT !.timer = IdleTimer, !.bufEmpty = drained]
      BY <2>1 DEF HandOut
    <3>2. drained \in BOOLEAN
      OBVIOUS
    <3> HIDE DEF drained
    <3> QED
      BY <1>0, <3>1, <3>2, TimersStay DEF LayerTypes
  <2>2. CASE layer' = [layer EXCEPT !.timer = IdleTimer]
    BY <1>0, <2>2, TimersStay DEF LayerTypes
  <2> QED
    BY <1>10, <2>1, <2>2 DEF DelaySkips, DelayOver
<1>11. UNCHANGED layer \/ Inject \/ Tick \/ InjectorDelivers \/ InjectorReceives \/ Acquire \/ Grant
       \/ DelayArms \/ DelaySkips \/ DelayOver
  <2>1. CASE UNCHANGED vars
    BY <2>1 DEF vars
  <2>2. CASE Environment
    BY <2>2 DEF Environment, SetRate, SetDelay, SetCorrupt, Set, Arrive, Close, Read, Abandon,
                FillAndConsume
  <2>3. CASE TaskStep
    BY <2>3 DEF TaskStep, Poll, Fuse, InjectorPasses, CorrupterHits, CorrupterMisses, ThrottleOff,
                ThrottleOn, ThrottleFills, DelayIdles, DelayWaits, SourceReads, SourceFails
  <2> QED
    BY <2>1, <2>2, <2>3 DEF Next
<1> QED
  BY <1>1, <1>2, <1>3, <1>4, <1>5, <1>7, <1>8, <1>9, <1>10, <1>11

\* The knobs and the allowances.
LEMMA EnvNext ==
  ASSUME TypeOK, [Next]_vars
  PROVE EnvTypes' /\ UNCHANGED <<stack, habits>>
<1>0. EnvTypes
  BY DEF TypeOK
<1>1. CASE UNCHANGED env
  BY <1>0, <1>1 DEF env, EnvTypes
<1>2. CASE SetRate \/ SetDelay \/ SetCorrupt
  <2>1. /\ UNCHANGED <<stack, habits>> /\ left.sets > 0
        /\ left' = [left EXCEPT !.sets = left.sets - 1]
        /\ \/ \E r \in Rates : knob' = [knob EXCEPT !.rate = r]
           \/ \E d \in Delays : knob' = [knob EXCEPT !.delay = d]
           \/ \E c \in Corrupts : knob' = [knob EXCEPT !.corrupt = c]
    BY <1>2 DEF SetRate, SetDelay, SetCorrupt, Set
  <2> QED
    BY <1>0, <2>1 DEF EnvTypes, Knobs, Allowances
<1>3. CASE Inject
  BY <1>0, <1>3 DEF Inject, EnvTypes, Allowances
<1>4. CASE CorrupterHits
  BY <1>0, <1>4 DEF CorrupterHits, EnvTypes, Allowances
<1>5. UNCHANGED env \/ SetRate \/ SetDelay \/ SetCorrupt \/ Inject \/ CorrupterHits
  <2>1. CASE UNCHANGED vars
    BY <2>1 DEF vars
  <2>2. CASE Environment
    BY <2>2 DEF Environment, Tick, Arrive, Close, Read, Abandon, FillAndConsume
  <2>3. CASE TaskStep
    BY <2>3 DEF TaskStep, Poll, Fuse, InjectorDelivers, InjectorReceives, InjectorPasses,
                CorrupterMisses, ThrottleOff, ThrottleOn, ThrottleFills, Acquire, Grant, DelayIdles,
                DelayArms, DelaySkips, DelayWaits, DelayOver, SourceReads, SourceFails
  <2> QED
    BY <2>1, <2>2, <2>3 DEF Next
<1> QED
  BY <1>1, <1>2, <1>3, <1>4, <1>5

\* A call that is handed down or answered leaves nothing of itself behind.
LEMMA HandedOrAnswered ==
  ASSUME TypeOK, Underway, frame.at # 0, stack' = stack, Len(stack') \in Nat,
         \/ TailCall \/ ReturnPending \/ ReturnFailed
         \/ \E n \in Int, end \in {"no", "empty", "yes"} : ReturnReady(n, end)
         \/ Back /\ call' = [call EXCEPT !.state = "panicked"] /\ UNCHANGED eof
  PROVE ControlTypes' /\ Underway'
<1>0. ControlTypes /\ EnvTypes /\ call.state = "pending"
  BY DEF TypeOK, Underway
<1>1. CASE TailCall
  <2>1. /\ frame' \in [at : 1..(Len(stack) + 1), step : {"enter"}, seen : {0}]
        /\ UNCHANGED <<call, eof>>
    BY <1>0, <1>1, DescentDown DEF TailCall
  <2> QED
    BY <1>0, <2>1 DEF ControlTypes, Underway
<1>2. CASE Back
  <2>1. frame' = [at |-> 0, step |-> "enter", seen |-> 0]
    BY <1>2 DEF Back
  <2>2. \/ UNCHANGED <<call, eof>>
        \/ call' = [call EXCEPT !.state = "failed"] /\ UNCHANGED eof
        \/ call' = [state |-> "idle", room |-> 0] /\ eof' \in {"no", "empty", "yes"}
        \/ call' = [call EXCEPT !.state = "panicked"] /\ UNCHANGED eof
    <3>1. CASE \E n \in Int, end \in {"no", "empty", "yes"} : ReturnReady(n, end)
      BY <1>0, <3>1 DEF ReturnReady, ControlTypes
    <3>2. CASE TailCall
      BY <3>2 DEF TailCall
    <3> QED
      BY <3>1, <3>2 DEF ReturnPending, ReturnFailed
  <2>3. /\ call' \in [state : {"idle", "pending", "failed", "panicked"}, room : 0..MaxBuf]
        /\ eof' \in {"no", "empty", "yes"} /\ (call'.state = "pending" => call' = call)
    BY <1>0, <2>2, Constants DEF ControlTypes
  <2> QED
    BY <1>0, <2>1, <2>3 DEF ControlTypes, Underway
<1> QED
  BY <1>1, <1>2 DEF ReturnPending, ReturnFailed, ReturnReady

\* A poll that is elsewhere in its stack keeps what it presupposes.
LEMMA UnderwayStays ==
  ASSUME TypeOK, Underway, UNCHANGED <<stack, frame, call>>,
         UNCHANGED source \/ Arrive \/ Close
  PROVE Underway'
<1>1. source.buf \in Nat /\ source.arrived \in Nat /\ source'.buf = source.buf
      /\ (AtEnd => AtEnd')
  BY Constants DEF TypeOK, DataTypes, Arrive, Close, AtEnd
<1> QED
  BY <1>1 DEF Underway

\* Polls keep their types and what they presuppose.
LEMMA ControlNext ==
  ASSUME TypeOK, Underway, [Next]_vars
  PROVE ControlTypes' /\ Underway'
<1>0. /\ ControlTypes /\ EnvTypes /\ DataTypes /\ stack' = stack
      /\ Len(stack) \in Nat /\ DOMAIN stack = 1..Len(stack)
  BY EnvNext DEF TypeOK, EnvTypes
<1>1. CASE UNCHANGED vars
  BY <1>0, <1>1, UnderwayStays DEF vars, ControlTypes
<1>2. CASE Environment
  <2>1. CASE Read
    <3>1. PICK n \in 1..MaxBuf : call' = [state |-> "pending", room |-> n]
      BY <2>1 DEF Read
    <3>2. n \in 0..MaxBuf /\ n > 0 /\ frame.step = "enter" /\ UNCHANGED <<frame, eof>>
      BY <1>0, <2>1, Constants DEF Read, Quiet, Underway, ControlTypes
    <3> QED
      BY <1>0, <3>1, <3>2 DEF ControlTypes, Underway
  <2>2. CASE Abandon
    <3>1. /\ frame.at = 0 /\ frame.step = "enter" /\ UNCHANGED <<frame, eof>>
          /\ call' = [state |-> "idle", room |-> 0]
      BY <1>0, <2>2 DEF Abandon, Quiet, Underway, ControlTypes
    <3> QED
      BY <1>0, <3>1, Constants DEF ControlTypes, Underway
  <2>3. CASE FillAndConsume
    <3>1. frame.at = 0 /\ frame.step = "enter" /\ UNCHANGED <<frame, call, eof>>
      BY <1>0, <2>3 DEF FillAndConsume, Quiet, Underway, ControlTypes
    <3> QED
      BY <1>0, <3>1 DEF ControlTypes, Underway
  <2>4. CASE Environment /\ ~Read /\ ~Abandon /\ ~FillAndConsume
    <3>1. UNCHANGED <<frame, call, eof>> /\ (UNCHANGED source \/ Arrive \/ Close)
      BY <2>4 DEF Environment, SetRate, SetDelay, SetCorrupt, Set, Inject, Tick, Arrive, Close
    <3> QED
      BY <1>0, <3>1, UnderwayStays DEF ControlTypes
  <2> QED
    BY <1>2, <2>1, <2>2, <2>3, <2>4
<1>3. CASE Poll
  <2>1. /\ frame' \in [at : 1..(Len(stack) + 1), step : {"enter"}, seen : {0}]
        /\ UNCHANGED <<call, eof>> /\ call.state = "pending"
    BY <1>0, <1>3, DescentDown DEF Poll
  <2> QED
    BY <1>0, <2>1 DEF ControlTypes, Underway
<1>4. CASE InjectorReceives
  <2>1. UNCHANGED <<frame, call, eof, source>>
    BY <1>4 DEF InjectorReceives, Elsewhere
  <2> QED
    BY <1>0, <2>1, UnderwayStays DEF ControlTypes
<1>5. CASE ThrottleOn
  <2>1. /\ frame' = [frame EXCEPT !.step = "fill", !.seen = 0] /\ UNCHANGED <<call, eof>>
        /\ frame.at \in DOMAIN stack /\ stack[frame.at] = "ThrottledReader"
    BY <1>5 DEF ThrottleOn, Goto, Running
  <2>2. /\ frame' \in [at : 0..(Len(stack) + 1), step : {"fill"}, seen : {0}]
        /\ frame'.at = frame.at
    BY <1>0, <2>1 DEF ControlTypes
  <2> QED
    BY <1>0, <2>1, <2>2 DEF ControlTypes, Underway
<1>6. CASE ThrottleFills
  <2>1. CASE CanFill
    <3>1. /\ frame' = [frame EXCEPT !.step = "acquire", !.seen = 0] /\ UNCHANGED <<call, eof>>
          /\ frame.at \in DOMAIN stack /\ stack[frame.at] = "ThrottledReader"
          /\ source' = Filled
      BY <1>6, <2>1 DEF ThrottleFills, Goto, Running, Looks
    <3>2. /\ frame' \in [at : 0..(Len(stack) + 1), step : {"acquire"}, seen : {0}]
          /\ frame'.at = frame.at
      BY <1>0, <3>1 DEF ControlTypes
    <3>3. source'.buf > 0 \/ AtEnd'
      <4>1. /\ source'.buf = Rem /\ source'.closed = source.closed
            /\ source'.buf + source'.arrived = source.buf + source.arrived
        BY <1>0, <3>1, FilledIs
      <4>2. source' \in [pos : 0..Total, buf : 0..Capacity, arrived : 0..Total, closed : BOOLEAN]
        BY <1>0, <3>1, FilledIs
      <4>3. Rem \in Nat /\ (Rem = 0 => source.buf = 0 /\ source.arrived = 0)
        BY <1>0, RemBound, Constants
      <4> HIDE DEF Rem
      <4> QED
        BY <2>1, <4>1, <4>2, <4>3, Constants DEF CanFill, AtEnd
    <3> QED
      BY <1>0, <3>1, <3>2, <3>3 DEF ControlTypes, Underway
  <2>2. CASE ~CanFill
    <3>1. ReturnPending /\ frame.at # 0
      BY <1>0, <1>6, <2>2 DEF ThrottleFills, Running
    <3> QED
      BY <1>0, <3>1, HandedOrAnswered
  <2> QED
    BY <2>1, <2>2
\* An answer of the throttle, and one of the delay.
<1>a. ASSUME NEW bucket, NEW grant \in Nat, Yield(bucket, grant), frame.at # 0
      PROVE ControlTypes' /\ Underway'
  <2>1. ReturnReady(Least(grant, call.room), "yes")
    BY <1>a DEF Yield
  <2>2. Least(grant, call.room) \in Int
    BY <1>0, <1>a, Constants DEF ControlTypes, Least
  <2> QED
    BY <1>0, <1>a, <2>1, <2>2, HandedOrAnswered
<1>b. ASSUME NEW timer, HandOut(timer), frame.at # 0
      PROVE ControlTypes' /\ Underway'
  <2>1. ReturnReady(Least(Rem, call.room), "yes")
    BY <1>b DEF HandOut
  <2>2. Least(Rem, call.room) \in Int
    BY <1>0, RemBound, Constants DEF ControlTypes, Least
  <2> QED
    BY <1>0, <1>b, <2>1, <2>2, HandedOrAnswered
<1>7. CASE Acquire
  <2>0. /\ frame.at \in DOMAIN stack /\ stack[frame.at] = "ThrottledReader" /\ frame.at # 0
        /\ source.buf \in Nat
    BY <1>0, <1>7, Constants DEF Acquire, Running, DataTypes
  <2>00. layer.bucket.nap \in Nat
    <3>1. layer.bucket \in Buckets(Rates)
      BY DEF TypeOK, LayerTypes
    <3> QED
      BY <3>1, BucketFields, BucketAssumption, Constants
  <2>1. CASE layer.bucket.nap > 0
    BY <1>0, <1>7, <2>0, <2>1, HandedOrAnswered DEF Acquire
  <2>2. CASE layer.bucket.nap = 0 /\ source.buf = 0
    BY <1>0, <1>7, <2>0, <2>2, HandedOrAnswered DEF Acquire, Shown
  <2>3. CASE layer.bucket.nap = 0 /\ source.buf > 0 /\ knob.rate = 0
    BY <1>7, <1>a, <2>0, <2>3 DEF Acquire, Shown
  <2>4. CASE layer.bucket.nap = 0 /\ source.buf > 0 /\ knob.rate # 0
    <3>1. /\ frame' = [frame EXCEPT !.step = "refill", !.seen = knob.rate]
          /\ UNCHANGED <<call, eof, source>>
      BY <1>7, <2>0, <2>4 DEF Acquire, Shown, Goto, Elsewhere
    <3>2. /\ frame' \in [at : 0..(Len(stack) + 1), step : {"refill"}, seen : Rates \cup {0}]
          /\ frame'.at = frame.at /\ frame'.seen = knob.rate
      BY <1>0, <3>1 DEF ControlTypes, EnvTypes, Knobs
    <3> QED
      BY <1>0, <2>0, <2>4, <3>1, <3>2 DEF ControlTypes, Underway
  <2> QED
    BY <2>0, <2>00, <2>1, <2>2, <2>3, <2>4
<1>8. CASE Grant
  <2> DEFINE bucket == Refilled(layer.bucket, knob.rate)
             grant == Least(source.buf, bucket.budget)
  <2>1. bucket \in Buckets(Rates)
    BY BucketsStay, Constants DEF TypeOK, EnvTypes, LayerTypes, Knobs
  <2>2. frame.at # 0 /\ source.buf \in Nat
    BY <1>0, <1>8, Constants DEF Grant, Running, DataTypes
  <2>3. Yield(bucket, grant) \/ ReturnPending
    BY <1>8 DEF Grant, Shown
  <2> HIDE DEF bucket
  <2>4. grant \in Nat
    BY <2>1, <2>2, BucketFields, Constants DEF Least
  <2> HIDE DEF grant
  <2> QED
    BY <1>0, <1>a, <2>2, <2>3, <2>4, HandedOrAnswered
<1>9. CASE DelayIdles \/ DelayArms \/ DelaySkips \/ DelayWaits \/ DelayOver
  <2>1. frame.at # 0
    BY <1>0, <1>9 DEF DelayIdles, DelayArms, DelaySkips, DelayWaits, DelayOver, Running
  <2>2. \/ ReturnPending \/ HandOut(IdleTimer)
        \/ Back /\ call' = [call EXCEPT !.state = "panicked"] /\ UNCHANGED eof
    BY <1>9 DEF DelayIdles, DelayArms, DelaySkips, DelayWaits, DelayOver
  <2> QED
    BY <1>0, <1>b, <2>1, <2>2, HandedOrAnswered
<1>10. CASE InjectorDelivers \/ CorrupterHits
  <2>1. frame.at # 0
    BY <1>0, <1>10 DEF InjectorDelivers, CorrupterHits, Running
  <2>2. \/ ReturnReady(Least(call.room, layer.buffer), "empty")
        \/ ReturnReady(call.room, "no")
    BY <1>10 DEF InjectorDelivers, CorrupterHits
  <2>3. Least(call.room, layer.buffer) \in Int /\ call.room \in Int
    BY <1>0, Constants DEF ControlTypes, Least, TypeOK, LayerTypes, NoPayload
  <2> QED
    BY <1>0, <2>1, <2>2, <2>3, HandedOrAnswered
<1>11. CASE Fuse \/ InjectorPasses \/ CorrupterMisses \/ ThrottleOff \/ SourceFails
  <2>1. frame.at # 0
    BY <1>0, <1>11 DEF Fuse, InjectorPasses, CorrupterMisses, ThrottleOff, SourceFails, Running, AtSource
  <2>2. TailCall \/ ReturnFailed
    BY <1>11 DEF Fuse, InjectorPasses, CorrupterMisses, ThrottleOff, SourceFails
  <2> QED
    BY <1>0, <2>1, <2>2, HandedOrAnswered
<1>12. CASE SourceReads
  <2>1. frame.at # 0
    BY <1>0, <1>12 DEF SourceReads, AtSource
  <2> DEFINE n == Least(IF source.buf = 0 /\ call.room >= Capacity
                          THEN source.arrived ELSE Rem, call.room)
  <2>2. ReturnPending \/ ReturnReady(n, "yes")
    BY <1>12 DEF SourceReads
  <2>3. n \in Int
    BY <1>0, RemBound, Constants DEF ControlTypes, DataTypes, Least
  <2> HIDE DEF n
  <2> QED
    BY <1>0, <2>1, <2>2, <2>3, HandedOrAnswered
<1> QED
  BY <1>1, <1>2, <1>3, <1>4, <1>5, <1>6, <1>7, <1>8, <1>9, <1>10, <1>11, <1>12 DEF Next, TaskStep

\* The stack and the habits are those of a setup.
Chosen == \E s \in Setups : stack = s.stack /\ habits = s.habits

Sound == TypeOK /\ Underway /\ Chosen

\* The adapters as they are built.
LEMMA SoundInit == Init => Sound
<1> SUFFICES ASSUME Init PROVE Sound
  OBVIOUS
<1>1. PICK s \in Setups : stack = s.stack /\ knob = s.knob /\ left = s.left /\ habits = s.habits
  BY DEF Init
<1>2. EnvTypes /\ Chosen
  BY <1>1, ReadStackAssumption DEF EnvTypes, Chosen
<1>3. LayerTypes
  <2>1. layer = Fresh(knob.rate) /\ knob.rate \in Rates
    BY <1>2 DEF Init, EnvTypes, Knobs
  <2>2. Full(knob.rate) \in Buckets(Rates)
    BY <2>1, FullIsBucket, Constants
  <2> QED
    BY <2>1, <2>2, TimersStay DEF LayerTypes, Fresh
<1>4. ControlTypes
  BY <1>2, Constants DEF Init, ControlTypes, EnvTypes
<1>5. DataTypes
  BY Constants DEF Init, DataTypes
<1>6. HistoryTypes
  <2>1. MeterFull(TopRate) \in Int
    BY Tops, BucketAssumption DEF MeterFull
  <2>2. (Has("ThrottledReader") /\ knob.rate # 0) \in BOOLEAN
    OBVIOUS
  <2>3. knob.delay \in Delays
    BY <1>2 DEF EnvTypes, Knobs
  <2> QED
    BY <2>1, <2>2, <2>3, Tops DEF Init, HistoryTypes
<1>7. Underway
  BY DEF Init, Underway
<1> QED
  BY <1>2, <1>3, <1>4, <1>5, <1>6, <1>7 DEF Sound, TypeOK

\* Every step keeps it so.
LEMMA SoundNext == Sound /\ [Next]_vars => Sound'
<1> SUFFICES ASSUME Sound, [Next]_vars PROVE Sound'
  OBVIOUS
<1>1. EnvTypes' /\ LayerTypes' /\ ControlTypes' /\ Underway' /\ DataTypes' /\ HistoryTypes'
  BY EnvNext, LayerNext, ControlNext, DataNext, HistoryNext DEF Sound
<1>2. Chosen'
  BY EnvNext DEF Sound, Chosen
<1> QED
  BY <1>1, <1>2 DEF Sound, TypeOK

\* Sound is an invariant.
LEMMA SoundAlways == Spec => []Sound
BY SoundInit, SoundNext, PTL DEF Spec

\* Every variable keeps its type, whatever stack, knobs and injections: the
\* bucket's budget stays within the rates, the delay's timer within the
\* durations, and the BufReader within its capacity.
THEOREM TypeCorrect == Spec => []TypeOK
<1>1. Sound => TypeOK
  BY DEF Sound
<1> QED
  BY <1>1, SoundAlways, PTL

-----------------------------------------------------------------------------
(* The owner's bytes.                                                       *)

\* What was given out is a prefix, and stays one.
LEMMA NothingLostNext ==
  ASSUME Sound, NothingLost, [Next]_vars
  PROVE NothingLost'
<1>0. DataTypes /\ source.pos \in Nat /\ got = Bytes(1, source.pos)
  BY Constants DEF Sound, TypeOK, DataTypes, NothingLost
<1>a. ASSUME NEW n \in Nat, source'.pos = source.pos + n, got' = got \o Bytes(source.pos + 1, n)
      PROVE NothingLost'
  BY <1>0, <1>a, BytesJoin DEF NothingLost
<1>1. CASE UNCHANGED <<source, got>>
  BY <1>0, <1>1 DEF NothingLost
<1>2. CASE Arrive \/ Close
  BY <1>0, <1>2 DEF Arrive, Close, DataTypes, NothingLost
<1>3. CASE Looks
  <2>1. source'.pos = source.pos /\ got' = got
    BY <1>0, <1>3, FilledIs DEF Looks
  <2> QED
    BY <1>0, <2>1 DEF NothingLost
<1>4. ASSUME NEW n \in 0..Rem, Copies(n) PROVE NothingLost'
  <2>1. n \in Nat /\ source'.pos = source.pos + n
    BY <1>0, <1>4, CopiesLeave, RemBound
  <2> QED
    BY <1>4, <1>a, <2>1 DEF Copies
<1>5. ASSUME NEW n \in Nat, Directly(n) PROVE NothingLost'
  BY <1>0, <1>5, <1>a, DirectlyLeaves DEF Directly
<1> QED
  BY <1>1, <1>2, <1>3, <1>4, <1>5, Moves DEF Sound

\* The owner is given the peer's bytes once each and in order, through any
\* stack, however it mixes reads, dropped reads and AsyncBufRead.
THEOREM BytesInOrder == Spec => []NothingLost
<1>1. Init => NothingLost
  <2> SUFFICES ASSUME Init PROVE got = Bytes(1, source.pos)
    BY DEF NothingLost
  <2>1. got = <<>> /\ source.pos = 0
    BY DEF Init
  <2>2. Bytes(1, 0) \in Seq(Nat) /\ Len(Bytes(1, 0)) = 0
    <3>1. 1 \in Nat \ {0} /\ 0 \in Nat
      OBVIOUS
    <3> QED
      BY <3>1, BytesAre, Zenon
  <2>3. Bytes(1, 0) = <<>>
    BY <2>2, EmptySeq
  <2> QED
    BY <2>1, <2>3
<1>2. Sound /\ NothingLost /\ [Next]_vars => NothingLost'
  BY NothingLostNext
<1> QED
  BY <1>1, <1>2, SoundAlways, PTL DEF Spec

\* At its end the source stays there.
LEMMA EndStays ==
  ASSUME Sound, AtEnd, [Next]_vars
  PROVE AtEnd'
<1>0. DataTypes /\ source.closed /\ source.buf = 0 /\ source.arrived = 0 /\ Rem = 0
  BY RemBound DEF Sound, TypeOK, AtEnd
<1>1. CASE UNCHANGED source
  BY <1>0, <1>1 DEF AtEnd
<1>2. CASE Arrive \/ Close
  BY <1>0, <1>2 DEF Arrive, Close
<1>3. CASE Looks
  <2>1. /\ source' \in [pos : 0..Total, buf : 0..Capacity, arrived : 0..Total, closed : BOOLEAN]
        /\ source'.buf = Rem /\ source'.closed = source.closed
        /\ source'.buf + source'.arrived = source.buf + source.arrived
    BY <1>0, <1>3, FilledIs DEF Looks
  <2> QED
    BY <1>0, <2>1, Constants DEF AtEnd
<1>4. ASSUME NEW n \in 0..Rem, Copies(n) PROVE AtEnd'
  <2>1. /\ source' \in [pos : 0..Total, buf : 0..Capacity, arrived : 0..Total, closed : BOOLEAN]
        /\ source'.buf = Rem - n /\ source'.closed = source.closed
        /\ source'.buf + source'.arrived + n = source.buf + source.arrived
    BY <1>0, <1>4, CopiesLeave
  <2>2. n = 0
    BY <1>0
  <2> QED
    BY <1>0, <2>1, <2>2, Constants DEF AtEnd
<1>5. ASSUME NEW n \in Nat, Directly(n) PROVE AtEnd'
  BY <1>0, <1>5 DEF Directly
<1> QED
  BY <1>1, <1>2, <1>3, <1>4, <1>5, Moves DEF Sound

\* A read of nothing, past the adapters that make one up, is given only at the
\* end.
LEMMA EofTruthfulNext ==
  ASSUME Sound, EofTruthful, [Next]_vars
  PROVE EofTruthful'
<1>0. /\ DataTypes /\ Rem \in Nat /\ source.buf \in Nat /\ source.arrived \in Nat /\ source.buf <= Rem
      /\ (frame.at # 0 => call.room \in Nat \ {0})
      /\ (Rem = 0 => source.buf = 0 /\ source.arrived = 0)
  BY RemBound, Constants DEF Sound, TypeOK, DataTypes, ControlTypes, Underway
\* An end of file that was given before stays true.
<1>1. CASE eof' = "yes" => eof = "yes"
  BY <1>1, EndStays DEF EofTruthful, AtEnd
<1>2. CASE eof' = "yes" /\ eof # "yes"
  <2>1. SUFFICES AtEnd
    BY EndStays DEF EofTruthful, AtEnd
  <2>a. ASSUME NEW n, eof' = IF n = 0 THEN "yes" ELSE eof PROVE n = 0
    BY <1>2, <2>a
  <2>2. CASE \E bucket, grant : Yield(bucket, grant) /\ grant \in Nat \ {0}
               /\ frame.at # 0
    <3>1. PICK bucket, grant : Yield(bucket, grant) /\ grant \in Nat \ {0}
      BY <2>2
    <3>2. Least(grant, call.room) # 0
      BY <1>0, <2>2, <3>1 DEF Least
    <3>3. eof' = IF Least(grant, call.room) = 0 THEN "yes" ELSE eof
      BY <3>1 DEF Yield, ReturnReady
    <3> QED
      BY <2>a, <3>2, <3>3
  <2>3. CASE \E timer : HandOut(timer) /\ CanFill /\ frame.at # 0
    <3>1. eof' = IF Least(Rem, call.room) = 0 THEN "yes" ELSE eof
      BY <2>3 DEF HandOut, ReturnReady
    <3>2. Least(Rem, call.room) = 0
      BY <2>a, <3>1
    <3>3. Rem = 0
      BY <1>0, <2>3, <3>2 DEF Least
    <3> QED
      BY <1>0, <2>3, <3>3 DEF CanFill, AtEnd
  <2>4. CASE SourceReads
    <3> DEFINE n == Least(IF source.buf = 0 /\ call.room >= Capacity
                            THEN source.arrived ELSE Rem, call.room)
    <3>1. CanFill /\ eof' = IF n = 0 THEN "yes" ELSE eof
      BY <1>2, <2>4 DEF SourceReads, ReturnReady, ReturnPending
    <3>2. n = 0
      BY <2>a, <3>1
    <3>3. frame.at # 0
      BY <2>4 DEF SourceReads, AtSource, Sound, TypeOK, EnvTypes
    <3>4. Rem = 0
      BY <1>0, <3>2, <3>3, Constants DEF Least, Rem
    <3> QED
      BY <1>0, <3>1, <3>4 DEF CanFill, AtEnd
  <2>5. CASE Acquire
    <3>1. Running("ThrottledReader", "acquire") /\ frame.at # 0
      BY <2>5 DEF Acquire, Running, Sound, TypeOK, EnvTypes
    <3>2. CASE source.buf > 0
      <4>1. Yield(layer.bucket, source.buf)
        BY <1>2, <2>5, <3>2 DEF Acquire, Shown, ReturnPending, Goto
      <4> QED
        BY <1>0, <2>2, <3>1, <3>2, <4>1
    <3>3. CASE ~(source.buf > 0)
      BY <3>1, <3>3 DEF Running, Sound, Underway
    <3> QED
      BY <3>2, <3>3
  <2>6. CASE Grant
    <3> DEFINE bucket == Refilled(layer.bucket, knob.rate)
               grant == Least(source.buf, bucket.budget)
    <3>1. bucket \in Buckets(Rates)
      BY BucketsStay, Constants DEF Sound, TypeOK, EnvTypes, LayerTypes, Knobs
    <3>2. Yield(bucket, grant) /\ grant > 0
      BY <1>2, <2>6 DEF Grant, Shown, ReturnPending
    <3> HIDE DEF bucket
    <3>3. grant \in Nat
      BY <1>0, <3>1, BucketFields, Constants DEF Least
    <3>4. frame.at # 0
      BY <2>6 DEF Grant, Running, Sound, TypeOK, EnvTypes
    <3> HIDE DEF grant
    <3> QED
      BY <2>2, <3>2, <3>3, <3>4
  <2>7. CASE DelaySkips \/ DelayOver
    <3>1. frame.at # 0 /\ HandOut(IdleTimer) /\ CanFill
      BY <1>2, <2>7 DEF DelaySkips, DelayOver, Running, Sound, TypeOK, EnvTypes
    <3> QED
      BY <2>3, <3>1
  <2>8. CASE InjectorDelivers \/ CorrupterHits
    BY <1>2, <2>8 DEF InjectorDelivers, CorrupterHits, ReturnReady
  <2>9. SourceReads \/ Acquire \/ Grant \/ DelaySkips \/ DelayOver \/ InjectorDelivers \/ CorrupterHits
    <3>1. CASE UNCHANGED vars
      BY <1>2, <3>1 DEF vars
    <3>2. CASE Environment
      BY <1>2, <3>2 DEF Environment, SetRate, SetDelay, SetCorrupt, Set, Inject, Tick, Arrive, Close,
                        Read, Abandon, FillAndConsume
    <3>3. CASE TaskStep
      BY <1>2, <3>3 DEF TaskStep, Poll, Fuse, InjectorReceives, InjectorPasses, CorrupterMisses,
            ThrottleOff, ThrottleOn, ThrottleFills, DelayIdles, DelayArms, DelayWaits, SourceFails,
            TailCall, ReturnPending, ReturnFailed, Goto
    <3> QED
      BY <3>1, <3>2, <3>3 DEF Next
  <2> QED
    BY <2>4, <2>5, <2>6, <2>7, <2>8, <2>9
<1> QED
  BY <1>1, <1>2

\* A read of nothing that no injected payload explains is the peer's end of
\* file, with everything before it given out.
THEOREM EndOfFileIsTrue == Spec => []EofTruthful
<1>1. Init => EofTruthful
  BY DEF Init, EofTruthful
<1>2. Sound /\ EofTruthful /\ [Next]_vars => EofTruthful'
  BY EofTruthfulNext
<1> QED
  BY <1>1, <1>2, SoundAlways, PTL DEF Spec

-----------------------------------------------------------------------------
(* The throttle.                                                            *)

\* Nothing reads past a throttle: no DelayedReader is stacked above it, and
\* the owner does not use the stack as an AsyncBufRead.
Unbypassed ==
  \A s \in Setups : \A i \in DOMAIN s.stack :
    s.stack[i] = "ThrottledReader" =>
      "fill" \notin s.habits /\ \A j \in DOMAIN s.stack : j < i => s.stack[j] # "DelayedReader"

\* Where the poll can be as long as there has been a limit.
Above(i) == i \in DOMAIN stack /\ stack[i] = "ThrottledReader" /\ frame.at <= i

\* The meter has room for all that the bucket can still claim.
Covered ==
  /\ meter.level >= 0
  /\ meter.valid =>
       /\ knob.rate # 0
       /\ \E i \in Nat : Above(i)
       /\ Claim(layer.bucket, TopRate) <= meter.level

\* A new meter covers a new bucket.
LEMMA CoveredInit == Init => Covered
<1> SUFFICES ASSUME Init PROVE Covered
  OBVIOUS
<1>1. knob.rate \in Rates /\ stack \in Seq(Kinds) /\ frame.at = 0
  BY SoundInit DEF Sound, TypeOK, EnvTypes, Knobs, Init
<1>2. MeterFull(TopRate) >= 0
  BY Tops, BucketAssumption DEF MeterFull
<1>3. Claim(layer.bucket, TopRate) <= MeterFull(TopRate)
  <2>1. layer.bucket = Full(knob.rate) /\ knob.rate \in Nat /\ knob.rate <= TopRate
    BY <1>1, Tops, Constants DEF Init, Fresh
  <2> QED
    BY <2>1, FullClaims, Tops
<1>4. ASSUME meter.valid PROVE knob.rate # 0 /\ \E i \in Nat : Above(i)
  <2>1. Has("ThrottledReader") /\ knob.rate # 0
    BY <1>4 DEF Init
  <2>2. PICK i \in DOMAIN stack : stack[i] = "ThrottledReader"
    BY <2>1 DEF Has, Member
  <2>3. i \in Nat /\ frame.at <= i
    <3>1. DOMAIN stack = 1..Len(stack) /\ Len(stack) \in Nat
      BY <1>1
    <3> QED
      BY <1>1, <2>2, <3>1
  <2> QED
    BY <2>1, <2>2, <2>3 DEF Above
<1>5. meter.level = MeterFull(TopRate)
  BY DEF Init
<1> QED
  BY <1>2, <1>3, <1>4, <1>5 DEF Covered

\* A poll goes down in one step only from the owner or an adapter that lets it
\* through.
LEMMA WhoDescends ==
  ASSUME ControlTypes, [Next]_vars
  PROVE \/ frame'.at \in {0, frame.at}
        \/ Descend /\ (Poll \/ Fuse \/ InjectorPasses \/ CorrupterMisses \/ ThrottleOff)
<1>a. ASSUME NEW next, NEW seen, Goto(next, seen) PROVE frame'.at = frame.at
  BY <1>a DEF Goto, ControlTypes
<1>b. ASSUME Back \/ UNCHANGED frame PROVE frame'.at \in {0, frame.at}
  BY <1>b DEF Back
<1>1. CASE Poll \/ Fuse \/ InjectorPasses \/ CorrupterMisses \/ ThrottleOff
  BY <1>b, <1>1 DEF Poll, Fuse, InjectorPasses, CorrupterMisses, ThrottleOff, TailCall, ReturnFailed
<1>2. CASE InjectorReceives \/ ThrottleOn \/ ThrottleFills
  BY <1>a, <1>b, <1>2 DEF InjectorReceives, ThrottleOn, ThrottleFills, ReturnPending
<1>3. CASE Acquire
  BY <1>a, <1>b, <1>3 DEF Acquire, Yield, ReturnPending, ReturnReady
<1>4. CASE InjectorDelivers \/ CorrupterHits \/ Grant \/ DelayIdles \/ DelayArms \/ DelaySkips
            \/ DelayWaits \/ DelayOver \/ SourceReads \/ SourceFails
  BY <1>b, <1>4 DEF InjectorDelivers, CorrupterHits, Grant, DelayIdles, DelayArms, DelaySkips,
        DelayWaits, DelayOver, SourceReads, SourceFails, Yield, HandOut, ReturnPending, ReturnFailed,
        ReturnReady
<1>5. CASE Environment \/ UNCHANGED vars
  BY <1>b, <1>5 DEF Environment, SetRate, SetDelay, SetCorrupt, Set, Inject, Tick, Arrive, Close,
                    Read, Abandon, FillAndConsume, vars
<1> QED
  BY <1>1, <1>2, <1>3, <1>4, <1>5 DEF Next, TaskStep

\* No poll gets past an adapter that does not let it through.
LEMMA HeldAbove ==
  ASSUME Sound, [Next]_vars, NEW i \in DOMAIN stack, "read" \in ActsOn[stack[i]], frame.at <= i,
         frame.at = i => ~(Poll \/ Fuse \/ InjectorPasses \/ CorrupterMisses \/ ThrottleOff)
  PROVE stack' = stack /\ frame'.at <= i
<1>1. /\ stack' = stack /\ EnvTypes /\ ControlTypes /\ frame.at \in Nat
      /\ i \in Nat
  BY EnvNext DEF Sound, TypeOK, EnvTypes, ControlTypes
<1>2. CASE frame'.at \in {0, frame.at}
  BY <1>1, <1>2
<1>3. CASE Descend /\ frame.at # i
  BY <1>1, <1>3, DescentDown
<1> QED
  BY <1>1, <1>2, <1>3, WhoDescends

\* As long as there is a limit no poll gets past the throttle.
LEMMA AboveStays ==
  ASSUME Sound, [Next]_vars, NEW i \in Nat, Above(i), knob.rate # 0
  PROVE Above(i)'
<1>1. i \in DOMAIN stack /\ stack[i] = "ThrottledReader" /\ frame.at <= i /\ 0 \notin DOMAIN stack
  BY DEF Above, Sound, TypeOK, EnvTypes
<1>2. "read" \in ActsOn[stack[i]]
  BY <1>1 DEF ActsOn, ThrottledReaderActsOn
<1>3. frame.at = i => ~(Poll \/ Fuse \/ InjectorPasses \/ CorrupterMisses \/ ThrottleOff)
  BY <1>1 DEF Poll, Quiet, Fuse, InjectorPasses, CorrupterMisses, ThrottleOff, Running
<1> QED
  BY <1>1, <1>2, <1>3, HeldAbove DEF Above

\* Every step keeps the meter covered.
LEMMA CoveredNext ==
  ASSUME Unbypassed, Sound, Covered, [Next]_vars
  PROVE Covered'
<1>0. /\ layer \in [queue : Seq(0..MaxPayload), buffer : {NoPayload} \cup 0..MaxPayload,
                    bucket : Buckets(Rates), timer : Timers(Delays), bufEmpty : BOOLEAN]
      /\ knob.rate \in Rates /\ TopRate \in Nat /\ Rates \in SUBSET Nat
      /\ meter \in [level : Int, valid : BOOLEAN]
  BY Tops, Constants DEF Sound, TypeOK, LayerTypes, EnvTypes, Knobs, HistoryTypes
<1>00. layer.bucket \in Buckets(Rates)
  BY <1>0
<1>1. CASE ~meter.valid
  <2>1. ~meter'.valid /\ meter'.level >= 0
    <3>1. CASE SetRate
      BY <1>0, <1>1, <3>1 DEF SetRate, Covered
    <3>2. CASE UNCHANGED meter
      BY <1>1, <3>2 DEF Covered
    <3>3. CASE Tick \/ \E n \in 0..Rem : Copies(n)
      BY <1>1, <3>3 DEF Tick, Copies, Covered
    <3> QED
      BY <3>1, <3>2, <3>3, Moves DEF Sound, SetDelay, history, Looks
  <2> QED
    BY <2>1 DEF Covered
<1>2. CASE meter.valid
  <2>1. PICK i \in Nat : Above(i)
    BY <1>2 DEF Covered
  <2>2. knob.rate # 0 /\ Claim(layer.bucket, TopRate) <= meter.level
    BY <1>2 DEF Covered
  <2>3. Above(i)'
    BY <2>1, <2>2, AboveStays
  <2>a. ASSUME meter' = meter, knob'.rate # 0,
               Claim(layer'.bucket, TopRate) <= Claim(layer.bucket, TopRate),
               layer'.bucket \in Buckets(Rates)
        PROVE Covered'
    <3>1. Claim(layer'.bucket, TopRate) \in Nat /\ Claim(layer.bucket, TopRate) \in Nat
      BY <1>0, <1>00, <2>a, ClaimIsNat
    <3> QED
      BY <1>0, <2>2, <2>3, <2>a, <3>1 DEF Covered
  <2>4. CASE SetRate
    <3>1. PICK r \in Rates : /\ knob' = [knob EXCEPT !.rate = r] /\ layer' = layer
                             /\ meter' = IF r = 0 THEN [level |-> 0, valid |-> FALSE] ELSE meter
      BY <2>4 DEF SetRate, Set
    <3>2. CASE r = 0
      BY <3>1, <3>2 DEF Covered
    <3>3. CASE r # 0
      <4>1. knob'.rate = r
        BY <1>0, <3>1 DEF Sound, TypeOK, EnvTypes, Knobs
      <4> QED
        BY <1>00, <2>a, <3>1, <3>3, <4>1, ClaimIsNat, <1>0
    <3> QED
      BY <3>2, <3>3
  <2>5. CASE Tick
    <3>1. Has("ThrottledReader")
      BY <2>1 DEF Above, Has, Member
    <3>2. layer'.bucket = Older(layer.bucket)
      BY <1>0, <2>5, <3>1 DEF Tick
    <3>3. meter' = [meter EXCEPT !.level = Metered(meter.level, TopRate)] /\ knob' = knob
      BY <1>2, <2>5 DEF Tick, env
    <3>4. layer.bucket.budget <= TopRate
      BY <1>0, <1>00, BucketFields, Tops
    <3>5. Claim(Older(layer.bucket), TopRate) <= Metered(meter.level, TopRate)
      BY <1>0, <1>00, <2>2, <3>4, OlderClaims
    <3>6. Claim(Older(layer.bucket), TopRate) \in Nat
      BY <1>0, <1>00, BucketsStay, ClaimIsNat
    <3>7. Metered(meter.level, TopRate) \in Int
      <4>1. 2 * Second * TopRate \in Int
        BY <1>0, BucketAssumption
      <4> QED
        BY <1>0, <4>1 DEF Metered, MeterCap, Least
    <3>8. meter'.level = Metered(meter.level, TopRate)
      BY <1>0, <3>3
    <3> QED
      BY <2>2, <2>3, <3>2, <3>3, <3>5, <3>6, <3>7, <3>8 DEF Covered
  <2>6. CASE Grant
    <3> DEFINE bucket == Refilled(layer.bucket, knob.rate)
               grant == Least(source.buf, bucket.budget)
               n == Least(grant, call.room)
    <3>1. /\ bucket \in Buckets(Rates) /\ Claim(bucket, TopRate) <= Claim(layer.bucket, TopRate)
      BY <1>0, <1>00, BucketsStay, RefilledClaims, Tops
    <3>2. \/ layer' = [layer EXCEPT !.bucket = Napping(bucket, frame.seen)] /\ UNCHANGED meter
          \/ /\ layer' = [layer EXCEPT !.bucket = Spent(bucket, n)]
             /\ meter' = [meter EXCEPT !.level = meter.level - Second * n]
      BY <1>2, <2>6 DEF Grant, Shown, Elsewhere, history, Yield, Copies
    <3>3. knob' = knob
      BY <2>6 DEF Grant, env
    <3> HIDE DEF bucket
    <3>4. n \in Nat /\ n <= bucket.budget /\ source.buf \in Nat /\ call.room \in Nat
      <4>1. source.buf \in Nat /\ call.room \in Nat
        BY Constants DEF Sound, TypeOK, DataTypes, ControlTypes
      <4>2. bucket.budget \in Nat
        BY <1>0, <3>1, BucketFields
      <4> QED
        BY <4>1, <4>2 DEF Least
    <3> HIDE DEF n
    <3>5. CASE layer' = [layer EXCEPT !.bucket = Napping(bucket, frame.seen)] /\ UNCHANGED meter
      <4>1. layer'.bucket = Napping(bucket, frame.seen)
        BY <1>0, <3>5
      <4>2. Claim(Napping(bucket, frame.seen), TopRate) = Claim(bucket, TopRate)
        BY <1>0, <3>1, NappingClaims
      <4>3. LayerTypes'
        BY SoundNext DEF Sound, TypeOK
      <4> QED
        BY <2>2, <2>a, <3>1, <3>3, <3>5, <4>1, <4>2, <4>3 DEF LayerTypes
    <3>6. CASE /\ layer' = [layer EXCEPT !.bucket = Spent(bucket, n)]
               /\ meter' = [meter EXCEPT !.level = meter.level - Second * n]
      <4>1. layer'.bucket = Spent(bucket, n) /\ meter'.level = meter.level - Second * n
            /\ meter'.valid = meter.valid
        BY <1>0, <3>6
      <4>2. Claim(Spent(bucket, n), TopRate) = Claim(bucket, TopRate) - Second * n
        BY <1>0, <3>1, <3>4, SpentClaims
      <4>3. Claim(Spent(bucket, n), TopRate) \in Nat
        BY <1>0, <3>1, <3>4, BucketsStay, ClaimIsNat
      <4>4. Claim(bucket, TopRate) \in Nat /\ Claim(layer.bucket, TopRate) \in Nat /\ Second * n \in Nat
        BY <1>0, <1>00, <3>1, <3>4, ClaimIsNat, BucketAssumption
      <4>5. Claim(Spent(bucket, n), TopRate) <= meter'.level /\ meter'.level >= 0
        BY <1>0, <2>2, <3>1, <4>1, <4>2, <4>3, <4>4
      <4> QED
        BY <2>2, <2>3, <3>3, <4>1, <4>5 DEF Covered
    <3> QED
      BY <3>2, <3>5, <3>6
  \* Nobody else gives the owner bytes of the peer.
  <2>b. PICK s \in Setups : stack = s.stack /\ habits = s.habits
    BY DEF Sound, Chosen
  <2>c. /\ i \in DOMAIN stack /\ stack[i] = "ThrottledReader" /\ frame.at <= i
        /\ DOMAIN stack = 1..Len(stack) /\ frame.at \in Nat /\ Len(stack) \in Nat
        /\ "fill" \notin habits /\ \A j \in DOMAIN stack : j < i => stack[j] # "DelayedReader"
    BY <2>1, <2>b DEF Above, Unbypassed, Sound, TypeOK, EnvTypes, ControlTypes
  <2>7. CASE DelayIdles \/ DelayArms \/ DelaySkips \/ DelayWaits \/ DelayOver
    BY <2>7, <2>c DEF DelayIdles, DelayArms, DelaySkips, DelayWaits, DelayOver, Running
  <2>8. CASE SourceReads
    BY <2>8, <2>c DEF SourceReads, AtSource
  <2>9. CASE FillAndConsume
    BY <2>9, <2>c DEF FillAndConsume
  <2>10. CASE Acquire
    <3>1. UNCHANGED layer /\ Elsewhere
      BY <2>2, <2>10 DEF Acquire
    <3> QED
      BY <1>0, <1>00, <2>2, <2>a, <2>10, <3>1, ClaimIsNat DEF Acquire, Elsewhere, history, env
  <2>11. CASE Next /\ ~SetRate /\ ~Tick /\ ~Grant /\ ~SourceReads /\ ~FillAndConsume /\ ~Acquire
              /\ ~(DelayIdles \/ DelayArms \/ DelaySkips \/ DelayWaits \/ DelayOver)
    <3>1. layer'.bucket = layer.bucket
      BY <1>0, <2>11 DEF Next, TaskStep, Environment, SetDelay, SetCorrupt, Set, Inject, Arrive, Close,
            Read, Abandon, Poll, Fuse, InjectorDelivers, InjectorReceives, InjectorPasses, CorrupterHits,
            CorrupterMisses, ThrottleOff, ThrottleOn, ThrottleFills, SourceFails
    <3>2. meter' = meter
      BY <2>11 DEF Next, TaskStep, Environment, SetDelay, SetCorrupt, Set, Inject, Arrive, Close,
            Read, Abandon, Poll, Fuse, InjectorDelivers, InjectorReceives, InjectorPasses, CorrupterHits,
            CorrupterMisses, ThrottleOff, ThrottleOn, ThrottleFills, SourceFails, Elsewhere, history, Looks
    <3>3. knob'.rate = knob.rate
      <4>1. CASE SetDelay \/ SetCorrupt
        <5>1. \/ \E d \in Delays : knob' = [knob EXCEPT !.delay = d]
              \/ \E c \in Corrupts : knob' = [knob EXCEPT !.corrupt = c]
          BY <4>1 DEF SetDelay, SetCorrupt, Set
        <5> QED
          BY <5>1 DEF Sound, TypeOK, EnvTypes, Knobs
      <4>2. CASE ~(SetDelay \/ SetCorrupt)
        BY <2>11, <4>2 DEF Next, TaskStep, Environment, Inject, Arrive, Close, env,
            Read, Abandon, Poll, Fuse, InjectorDelivers, InjectorReceives, InjectorPasses, CorrupterHits,
            CorrupterMisses, ThrottleOff, ThrottleOn, ThrottleFills, SourceFails
      <4> QED
        BY <4>1, <4>2
    <3> QED
      BY <1>0, <1>00, <2>2, <2>a, <3>1, <3>2, <3>3, ClaimIsNat
  <2>12. CASE UNCHANGED vars
    BY <1>0, <1>00, <2>2, <2>a, <2>12, ClaimIsNat DEF vars, env, history
  <2> QED
    BY <2>4, <2>5, <2>6, <2>7, <2>8, <2>9, <2>10, <2>11, <2>12
<1> QED
  BY <1>1, <1>2

\* In every window of time the owner is given no more than the rates allow,
\* whatever they are and however they change, unless something reads past the
\* throttle: which the code does if a DelayedReader or the owner's poll_fill_buf
\* sits above it.
THEOREM ThroughputIsMetered ==
  ASSUME Unbypassed
  PROVE Spec => []RateMetered
<1>1. Sound /\ Covered /\ [Next]_vars => Covered'
  BY CoveredNext
<1>2. Covered => RateMetered
  BY DEF Covered, RateMetered
<1> QED
  BY <1>1, <1>2, CoveredInit, SoundAlways, PTL DEF Spec
-----------------------------------------------------------------------------
(* The delay.                                                               *)

\* No throttle reads past a delay: none is stacked above it.
Undisturbed ==
  \A s \in Setups : \A d \in DOMAIN s.stack :
    s.stack[d] = "DelayedReader" =>
      \A i \in DOMAIN s.stack : i < d => s.stack[i] # "ThrottledReader"

\* An owner that uses the stack as an AsyncBufRead, too, does so only when the
\* delay is not in the middle of a read: it drops none, and nothing above the
\* delay answers in its place.
Unshared ==
  \A s \in Setups : \A d \in DOMAIN s.stack :
    s.stack[d] = "DelayedReader" /\ "fill" \in s.habits =>
      /\ "abandon" \notin s.habits
      /\ \A i \in DOMAIN s.stack : i < d => s.stack[i] \notin {"ReadInjector", "Corrupter"}

\* The poll is at the DelayedReader or above it.
UpTo(d) == d \in DOMAIN stack /\ stack[d] = "DelayedReader" /\ frame.at <= d

\* When the timer runs out the burst has waited for long enough, and what is
\* left of a buffer that is not taken for empty belongs to a burst that came out
\* before.
Punctual ==
  Has("DelayedReader") =>
    /\ \E d \in DOMAIN stack : UpTo(d)
    /\ burst.low <= knob.delay
    /\ "fill" \notin habits =>
         /\ ~layer.bufEmpty => burst.begun /\ source.buf > 0
         /\ layer.timer.armed =>
              AtEnd \/ (source.buf > 0 /\ burst.since + layer.timer.left >= burst.low)

\* What a timer waits to hand out stays in the buffer.
Kept ==
  Has("DelayedReader") /\ layer.timer.armed =>
    /\ AtEnd \/ source.buf > 0
    /\ "fill" \in habits => call.state # "idle"

\* Nothing that a delay looks at changes.
Unaffected ==
  /\ UNCHANGED <<source, burst, got>>
  /\ layer'.timer = layer.timer /\ layer'.bufEmpty = layer.bufEmpty
  /\ knob'.delay = knob.delay

\* A poll that is not past the delay stays so.
LEMMA UpToStays ==
  ASSUME Sound, [Next]_vars, NEW d, UpTo(d)
  PROVE UpTo(d)'
<1>1. d \in DOMAIN stack /\ stack[d] = "DelayedReader" /\ frame.at <= d /\ 0 \notin DOMAIN stack
  BY DEF UpTo, Sound, TypeOK, EnvTypes
<1>2. "read" \in ActsOn[stack[d]]
  BY <1>1 DEF ActsOn, DelayedReaderActsOn
<1>3. frame.at = d => ~(Poll \/ Fuse \/ InjectorPasses \/ CorrupterMisses \/ ThrottleOff)
  BY <1>1 DEF Poll, Quiet, Fuse, InjectorPasses, CorrupterMisses, ThrottleOff, Running
<1> QED
  BY <1>1, <1>2, <1>3, HeldAbove DEF UpTo

\* All that may happen above a source that is delayed.
LEMMA DelayMoves ==
  ASSUME Undisturbed, Sound, [Next]_vars, NEW d, UpTo(d)
  PROVE \/ Unaffected
        \/ SetDelay \/ Tick \/ Arrive \/ Close \/ FillAndConsume \/ DelayArms
        \/ DelaySkips \/ DelayOver
<1>0. /\ layer \in [queue : Seq(0..MaxPayload), buffer : {NoPayload} \cup 0..MaxPayload,
                    bucket : Buckets(Rates), timer : Timers(Delays), bufEmpty : BOOLEAN]
      /\ knob \in Knobs
  BY DEF Sound, TypeOK, LayerTypes, EnvTypes
<1>1. /\ d \in DOMAIN stack /\ stack[d] = "DelayedReader" /\ frame.at <= d
      /\ DOMAIN stack = 1..Len(stack) /\ frame.at \in Nat /\ Len(stack) \in Nat
      /\ \A i \in DOMAIN stack : i < d => stack[i] # "ThrottledReader"
  <2>1. PICK s \in Setups : stack = s.stack /\ habits = s.habits
    BY DEF Sound, Chosen
  <2> QED
    BY <2>1 DEF UpTo, Undisturbed, Sound, TypeOK, EnvTypes, ControlTypes
<1>2. CASE ThrottleOn \/ ThrottleFills \/ Acquire \/ Grant \/ ThrottleOff \/ SourceReads
  BY <1>1, <1>2 DEF ThrottleOn, ThrottleFills, Acquire, Grant, ThrottleOff, SourceReads, Running, AtSource
<1>3. CASE SetRate \/ SetCorrupt
  <2>1. \/ \E r \in Rates : knob' = [knob EXCEPT !.rate = r]
        \/ \E c \in Corrupts : knob' = [knob EXCEPT !.corrupt = c]
    BY <1>3 DEF SetRate, SetCorrupt, Set
  <2>2. knob'.delay = knob.delay
    BY <1>0, <2>1 DEF Knobs
  <2> QED
    BY <1>3, <2>2 DEF SetRate, SetCorrupt, Set, Unaffected, history
<1>4. CASE Inject \/ InjectorDelivers \/ InjectorReceives
  <2>1. layer'.timer = layer.timer /\ layer'.bufEmpty = layer.bufEmpty
    BY <1>0, <1>4 DEF Inject, InjectorDelivers, InjectorReceives
  <2>2. UNCHANGED <<source, got, burst, knob>>
    BY <1>4 DEF Inject, InjectorDelivers, InjectorReceives, Elsewhere, history, env
  <2> QED
    BY <2>1, <2>2 DEF Unaffected
<1>5. CASE Read \/ Abandon \/ Poll \/ Fuse \/ InjectorPasses \/ CorrupterHits \/ CorrupterMisses
            \/ DelayIdles \/ DelayWaits \/ SourceFails \/ UNCHANGED vars
  <2>1. UNCHANGED <<source, got, burst, knob, layer>>
    BY <1>5 DEF Read, Abandon, Poll, Fuse, InjectorPasses, CorrupterHits, CorrupterMisses, DelayIdles,
                DelayWaits, SourceFails, Elsewhere, history, env, vars
  <2> QED
    BY <2>1 DEF Unaffected
<1> QED
  BY <1>2, <1>3, <1>4, <1>5 DEF Next, TaskStep, Environment

\* The delay hands out the buffer as far as the owner has room, and takes it
\* for empty only if nothing is left.
LEMMA HandsOut ==
  ASSUME Sound, frame.at # 0, HandOut(IdleTimer)
  PROVE /\ ~layer'.timer.armed
        /\ ~layer'.bufEmpty => burst'.begun /\ source'.buf > 0
        /\ burst'.low = Burst.low /\ burst'.since = Burst.since
<1> DEFINE n == Least(Rem, call.room)
<1>1. /\ DataTypes /\ EnvTypes /\ HistoryTypes /\ Rem \in Nat /\ call.room \in Nat \ {0}
  BY RemBound, Constants DEF Sound, TypeOK, ControlTypes, Underway
<1>2. n \in 0..Rem /\ (n # Rem => n > 0)
  BY <1>1 DEF Least
<1>3. /\ Copies(n) /\ layer' = [layer EXCEPT !.timer = IdleTimer, !.bufEmpty = (n = Rem)]
  BY DEF HandOut
<1> HIDE DEF n
<1>4. source'.buf = Rem - n
  BY <1>1, <1>2, <1>3, CopiesLeave
<1>5. ~layer'.timer.armed /\ (layer'.bufEmpty <=> n = Rem)
  BY <1>3 DEF Sound, TypeOK, LayerTypes, IdleTimer
<1>6. /\ burst' = [Burst EXCEPT !.begun = Burst.begun \/ n > 0]
      /\ Burst \in [since : 0..TopDelay, low : Delays, begun : BOOLEAN]
  BY <1>1, <1>3, BurstTyped DEF Copies
<1>7. (burst'.begun <=> Burst.begun \/ n > 0) /\ burst'.low = Burst.low /\ burst'.since = Burst.since
  BY <1>6
<1> QED
  BY <1>1, <1>2, <1>4, <1>5, <1>7

\* The delay's numbers.
LEMMA DelayNumbers ==
  ASSUME Sound
  PROVE /\ layer \in [queue : Seq(0..MaxPayload), buffer : {NoPayload} \cup 0..MaxPayload,
                      bucket : Buckets(Rates), timer : Timers(Delays), bufEmpty : BOOLEAN]
        /\ layer.timer.left \in Nat /\ layer.timer.armed \in BOOLEAN
        /\ knob \in Knobs /\ knob.delay \in Nat
        /\ burst \in [since : 0..TopDelay, low : Delays, begun : BOOLEAN]
        /\ burst.since \in Nat /\ burst.low \in Nat /\ source.buf \in Nat
<1>1. /\ layer \in [queue : Seq(0..MaxPayload), buffer : {NoPayload} \cup 0..MaxPayload,
                    bucket : Buckets(Rates), timer : Timers(Delays), bufEmpty : BOOLEAN]
      /\ knob \in Knobs /\ burst \in [since : 0..TopDelay, low : Delays, begun : BOOLEAN]
      /\ DataTypes
  BY DEF Sound, TypeOK, LayerTypes, EnvTypes, HistoryTypes
<1>2. layer.timer.left \in Nat /\ layer.timer.armed \in BOOLEAN
  <2>1. layer.timer \in Timers(Delays)
    BY <1>1
  <2>2. PICK v \in Delays : layer.timer.left \in 0..v
    BY <2>1 DEF Timers
  <2> QED
    BY <2>1, <2>2 DEF Timers
<1>3. knob.delay \in Nat
  BY <1>1, Constants DEF Knobs
<1>4. burst.since \in Nat /\ burst.low \in Nat
  <2>1. burst.since \in 0..TopDelay /\ burst.low \in Delays
    BY <1>1
  <2>2. burst.since \in Nat
    BY <2>1
  <2>3. burst.low \in Nat
    BY <2>1, Constants
  <2> QED
    BY <2>2, <2>3
<1>5. source.buf \in Nat
  BY <1>1, Constants DEF DataTypes
<1> QED
  BY <1>1, <1>2, <1>3, <1>4, <1>5

\* Every delay starts punctual.
LEMMA PunctualInit == Init => Punctual /\ Kept
<1> SUFFICES ASSUME Init, Has("DelayedReader") PROVE Punctual /\ Kept
  BY DEF Punctual, Kept
<1>1. /\ ~layer.timer.armed /\ layer.bufEmpty /\ burst.low = knob.delay /\ frame.at = 0
  BY DEF Init, Fresh, IdleTimer
<1>2. knob.delay \in Nat /\ stack \in Seq(Kinds)
  BY SoundInit, Constants DEF Sound, TypeOK, EnvTypes, Knobs
<1>3. PICK d \in DOMAIN stack : stack[d] = "DelayedReader"
  BY DEF Has, Member
<1>4. UpTo(d)
  BY <1>1, <1>2, <1>3 DEF UpTo
<1> QED
  BY <1>1, <1>2, <1>4 DEF Punctual, Kept
\* Every step keeps it so.
LEMMA PunctualNext ==
  ASSUME Undisturbed, Sound, Punctual, [Next]_vars
  PROVE Punctual'
<1> SUFFICES ASSUME Has("DelayedReader") PROVE Punctual'
  <2>1. stack' = stack
    BY EnvNext DEF Sound
  <2> QED
    BY <2>1 DEF Punctual, Has
<1>1. PICK d \in DOMAIN stack : UpTo(d)
  BY DEF Punctual
<1>2. d \in DOMAIN stack' /\ UpTo(d)'
  BY <1>1, UpToStays, EnvNext DEF Sound
<1>0. /\ layer \in [queue : Seq(0..MaxPayload), buffer : {NoPayload} \cup 0..MaxPayload,
                    bucket : Buckets(Rates), timer : Timers(Delays), bufEmpty : BOOLEAN]
      /\ knob \in Knobs /\ knob.delay \in Nat
      /\ burst \in [since : 0..TopDelay, low : Delays, begun : BOOLEAN]
      /\ burst.since \in Nat /\ burst.low \in Nat
      /\ layer.timer.left \in Nat /\ layer.timer.armed \in BOOLEAN
      /\ habits' = habits /\ DataTypes /\ HistoryTypes /\ EnvTypes
      /\ source.buf \in Nat
  BY DelayNumbers, EnvNext DEF Sound, TypeOK
<1> DEFINE Low == burst.low <= knob.delay
           Begun == ~layer.bufEmpty => burst.begun /\ source.buf > 0
           Waits == layer.timer.armed =>
                      AtEnd \/ (source.buf > 0 /\ burst.since + layer.timer.left >= burst.low)
<1>3. Low /\ ("fill" \notin habits => Begun /\ Waits)
  BY DEF Punctual
<1>4. SUFFICES Low' /\ ("fill" \notin habits => Begun' /\ Waits')
  BY <1>0, <1>2 DEF Punctual
<1>5. CASE Unaffected
  BY <1>3, <1>5 DEF Unaffected, AtEnd
<1>6. CASE SetDelay
  <2>1. PICK v \in Delays : /\ knob' = [knob EXCEPT !.delay = v] /\ UNCHANGED <<layer, source>>
                            /\ burst' = [burst EXCEPT !.low = Least(burst.low, v)]
    BY <1>6 DEF SetDelay, Set
  <2>2. /\ knob'.delay = v /\ burst'.low = Least(burst.low, v)
        /\ burst'.since = burst.since /\ burst'.begun = burst.begun
    BY <1>0, <2>1 DEF Knobs
  <2>3. v \in Nat
    BY Constants
  <2>4. burst'.low <= v /\ burst'.low <= burst.low /\ burst'.low \in Nat
    BY <1>0, <2>2, <2>3 DEF Least
  <2>5. AtEnd => AtEnd'
    BY <2>1 DEF AtEnd
  <2> QED
    BY <1>0, <1>3, <2>1, <2>2, <2>4, <2>5
<1>7. CASE Tick
  <2>1. /\ layer'.timer = Closer(layer.timer) /\ layer'.bufEmpty = layer.bufEmpty
        /\ UNCHANGED <<source, knob>>
        /\ burst' = [burst EXCEPT !.since = Least(TopDelay, burst.since + 1)]
    BY <1>0, <1>7 DEF Tick, env
  <2>2. /\ burst'.low = burst.low /\ burst'.begun = burst.begun
        /\ burst'.since = Least(TopDelay, burst.since + 1)
    BY <1>0, <2>1
  <2>3. /\ layer'.timer.armed = layer.timer.armed
        /\ layer'.timer.left = IF layer.timer.left = 0 THEN 0 ELSE layer.timer.left - 1
    BY <1>0, <2>1 DEF Closer, Timers
  <2>4. burst.low <= TopDelay /\ TopDelay \in Nat
    BY <1>0, Tops
  <2>5. burst.since + layer.timer.left >= burst.low => burst'.since + layer'.timer.left >= burst'.low
    BY <1>0, <2>2, <2>3, <2>4 DEF Least
  <2>6. AtEnd => AtEnd'
    BY <2>1 DEF AtEnd
  <2> QED
    BY <1>3, <2>1, <2>2, <2>3, <2>5, <2>6
<1>8. CASE Arrive \/ Close
  <2>1. /\ UNCHANGED <<layer, knob, burst>> /\ source'.buf = source.buf
    BY <1>0, <1>8 DEF Arrive, Close, env, history, DataTypes
  <2> QED
    BY <1>3, <2>1, EndStays
<1>b. Burst \in [since : 0..TopDelay, low : Delays, begun : BOOLEAN]
      /\ (Burst = burst \/ (Burst.since = 0 /\ Burst.low = knob.delay /\ Burst.begun = FALSE))
      /\ (source.buf > 0 \/ Rem = 0 => Burst = burst)
  BY <1>0, BurstTyped
<1>9. CASE FillAndConsume
  <2>1. /\ "fill" \in habits /\ knob' = knob /\ \E n \in 1..Rem : Copies(n)
    BY <1>9 DEF FillAndConsume, env
  <2>2. burst'.low = Burst.low
    <3> HIDE DEF Burst
    <3> QED
      BY <1>b, <2>1 DEF Copies
  <2> HIDE DEF Burst
  <2> QED
    BY <1>0, <1>3, <1>b, <2>1, <2>2
<1>10. CASE DelayArms
  <2>1. /\ layer' = [layer EXCEPT !.timer = Armed(knob.delay)] /\ layer.bufEmpty
        /\ CanFill /\ source' = Filled /\ burst' = Burst /\ knob' = knob
    BY <1>10 DEF DelayArms, Looks, env
  <2>2. layer'.timer.left = knob.delay /\ layer'.bufEmpty
    BY <1>0, <2>1 DEF Armed
  <2>3. source'.buf = Rem /\ (Rem = 0 => AtEnd) /\ Rem \in Nat
    BY <1>0, <2>1, FilledIs, RemBound, Constants DEF CanFill, AtEnd
  <2>4. burst'.low <= knob.delay /\ burst'.since \in Nat /\ burst'.low \in Nat
    <3> HIDE DEF Burst
    <3> QED
      BY <1>0, <1>3, <1>b, <2>1, Tops, Constants
  <2>5. burst'.since + layer'.timer.left >= burst'.low
    BY <1>0, <2>2, <2>4
  <2>6. Rem = 0 => AtEnd'
    BY <2>3, EndStays
  <2> QED
    BY <1>0, <2>1, <2>2, <2>3, <2>4, <2>5, <2>6
<1>11. CASE (DelaySkips \/ DelayOver) /\ HandOut(IdleTimer)
  <2>1. frame.at # 0 /\ knob' = knob
    BY <1>11 DEF DelaySkips, DelayOver, Running, env, Sound, TypeOK, EnvTypes
  <2>2. /\ ~layer'.timer.armed
        /\ ~layer'.bufEmpty => burst'.begun /\ source'.buf > 0
        /\ burst'.low = Burst.low
    BY <1>11, <2>1, HandsOut
  <2> HIDE DEF Burst
  <2> QED
    BY <1>0, <1>3, <1>b, <2>1, <2>2
<1>12. CASE DelayOver /\ ~HandOut(IdleTimer)
  <2>1. layer' = [layer EXCEPT !.timer = IdleTimer] /\ UNCHANGED <<source, burst, knob>>
    BY <1>12 DEF DelayOver, Elsewhere, history, env
  <2>2. ~layer'.timer.armed /\ layer'.bufEmpty = layer.bufEmpty
    BY <1>0, <2>1 DEF IdleTimer
  <2> QED
    BY <1>3, <2>1, <2>2
<1> QED
  BY <1>1, <1>5, <1>6, <1>7, <1>8, <1>9, <1>10, <1>11, <1>12, DelayMoves DEF DelaySkips

\* A step that gives the owner bytes past a delay gives it the rest of a burst
\* or one that has waited.
LEMMA GivenPunctually ==
  ASSUME Undisturbed, Sound, Punctual, [Next]_vars,
         Has("DelayedReader"), "fill" \notin habits, Len(got') > Len(got)
  PROVE (burst.begun /\ source.buf > 0) \/ burst'.since >= burst'.low
<1>1. PICK d \in DOMAIN stack : UpTo(d)
  BY DEF Punctual
<1>2. /\ DataTypes /\ EnvTypes /\ HistoryTypes /\ knob.delay \in Nat /\ Len(got) \in Nat
      /\ Rem \in Nat /\ source.buf \in Nat
      /\ burst.since \in Nat /\ burst.low \in Nat /\ layer.timer.left \in Nat
  BY DelayNumbers, RemBound, Constants DEF Sound, TypeOK, DataTypes
<1>3. CASE UNCHANGED got
  BY <1>2, <1>3
<1>4. CASE (DelaySkips \/ DelayOver) /\ HandOut(IdleTimer)
  <2>1. frame.at # 0
    BY <1>4 DEF DelaySkips, DelayOver, Running, Sound, TypeOK, EnvTypes
  <2>2. burst'.low = Burst.low /\ burst'.since = Burst.since
    BY <1>4, <2>1, HandsOut
  <2>b. /\ Burst \in [since : 0..TopDelay, low : Delays, begun : BOOLEAN]
        /\ (Burst = burst \/ (Burst.since = 0 /\ Burst.low = knob.delay))
        /\ (source.buf > 0 \/ Rem = 0 => Burst = burst)
    BY <1>2, BurstTyped
  <2>3. CASE DelaySkips /\ ~layer.bufEmpty
    BY <2>3 DEF Punctual
  <2>4. CASE DelaySkips /\ knob.delay = 0
    <3> HIDE DEF Burst
    <3>1. burst.low = 0 /\ knob.delay = 0
      BY <1>2, <2>4 DEF Punctual
    <3> QED
      BY <1>2, <2>2, <2>b, <3>1
  <2>5. CASE DelayOver
    <3>1. layer.timer.armed /\ layer.timer.left = 0
      BY <2>5 DEF DelayOver, AfterDelay
    <3>2. CASE source.buf > 0 /\ burst.since + layer.timer.left >= burst.low
      BY <1>2, <2>2, <2>b, <3>1, <3>2
    <3>3. CASE AtEnd
      <4>1. Rem = 0
        BY <1>2, <3>3, RemBound DEF AtEnd
      <4>2. Least(Rem, call.room) = 0
        BY <4>1, Constants DEF Least, Sound, TypeOK, ControlTypes
      <4>3. got' = got \o Bytes(source.pos + 1, 0)
        BY <1>4, <4>2 DEF HandOut, Copies
      <4>4. source.pos + 1 \in Nat \ {0} /\ 0 \in Nat
        BY <1>2, Constants DEF DataTypes
      <4>5. Bytes(source.pos + 1, 0) \in Seq(Nat) /\ Len(Bytes(source.pos + 1, 0)) = 0
        BY <4>4, BytesAre, Zenon
      <4>6. Len(got') = Len(got)
        <5>1. got \in Seq(1..Total) /\ 1..Total \subseteq Nat
          BY <1>2 DEF DataTypes
        <5>2. got \in Seq(Nat)
          BY <5>1, SeqMonotonic
        <5> QED
          BY <4>3, <4>5, <5>2
      <4> QED
        BY <1>2, <4>6
    <3> QED
      BY <3>1, <3>2, <3>3 DEF Punctual
  <2> QED
    BY <1>4, <2>3, <2>4, <2>5 DEF DelaySkips
<1>5. UNCHANGED got \/ ((DelaySkips \/ DelayOver) /\ HandOut(IdleTimer))
  BY <1>1, DelayMoves DEF Unaffected, SetDelay, Set, Tick, Arrive, Close, FillAndConsume,
        DelayArms, Looks, DelaySkips, DelayOver, Elsewhere
<1> QED
  BY <1>3, <1>4, <1>5

\* The first byte of a burst comes out no earlier than the lowest delay set
\* since it was buffered: no change of the delay, no dropped read and no end of
\* file in between lets it out.  A throttle above the delay would, and so would
\* an owner's own poll_fill_buf.
THEOREM BurstsAreDelayed ==
  ASSUME Undisturbed
  PROVE Spec => BurstDelayed
<1>1. Init => Punctual
  BY PunctualInit
<1>2. Sound /\ Punctual /\ [Next]_vars => Punctual'
  BY PunctualNext
<1>3. Sound /\ Punctual /\ [Next]_vars =>
        [Has("DelayedReader") /\ "fill" \notin habits /\ Len(got') > Len(got)
           => (burst.begun /\ source.buf > 0) \/ burst'.since >= burst'.low]_vars
  BY GivenPunctually
<1> QED
  BY <1>1, <1>2, <1>3, SoundAlways, PTL DEF Spec, BurstDelayed

\* Nobody takes what a timer waits to hand out.
LEMMA KeptNext ==
  ASSUME Undisturbed, Unshared, Sound, Punctual, Kept, [Next]_vars
  PROVE Kept'
<1> SUFFICES ASSUME Has("DelayedReader") PROVE Kept'
  <2>1. stack' = stack
    BY EnvNext DEF Sound
  <2> QED
    BY <2>1 DEF Kept, Has
<1>1. PICK d \in DOMAIN stack : UpTo(d)
  BY DEF Punctual
<1>2. /\ frame.at \in Nat /\ d \in DOMAIN stack /\ stack[d] = "DelayedReader" /\ frame.at <= d
      /\ d \in Nat /\ 0 \notin DOMAIN stack /\ habits' = habits
      /\ DOMAIN stack = 1..Len(stack) /\ Len(stack) \in Nat
      /\ \A i \in DOMAIN stack : i < d => stack[i] # "ThrottledReader"
      /\ "fill" \in habits =>
           /\ "abandon" \notin habits
           /\ \A i \in DOMAIN stack : i < d => stack[i] \notin {"ReadInjector", "Corrupter"}
  <2>1. PICK s \in Setups : stack = s.stack /\ habits = s.habits
    BY DEF Sound, Chosen
  <2> QED
    BY <1>1, <2>1, EnvNext DEF UpTo, Undisturbed, Unshared, Sound, TypeOK, EnvTypes, ControlTypes
<1>3. /\ layer \in [queue : Seq(0..MaxPayload), buffer : {NoPayload} \cup 0..MaxPayload,
                    bucket : Buckets(Rates), timer : Timers(Delays), bufEmpty : BOOLEAN]
      /\ DataTypes
      /\ call \in [state : {"idle", "pending", "failed", "panicked"}, room : 0..MaxBuf]
      /\ (frame.at # 0 => call.state = "pending")
  BY DEF Sound, TypeOK, LayerTypes, ControlTypes, Underway
<1> DEFINE Held == "fill" \in habits => call.state # "idle"
\* What was kept still is.
<1>a. ASSUME layer.timer.armed, ~FillAndConsume, ~DelayOver, ~DelaySkips, ~DelayArms
      PROVE (AtEnd \/ source.buf > 0)'
  <2>1. AtEnd \/ source.buf > 0
    BY <1>a DEF Kept
  <2>2. source'.buf = source.buf
    BY <1>1, <1>3, <1>a, DelayMoves DEF Unaffected, SetDelay, Set, Tick, Arrive, Close, DataTypes
  <2> QED
    BY <2>1, <2>2, EndStays
\* A read under way is neither dropped nor answered above the delay.
<1>b. ASSUME layer.timer.armed, ~DelayOver, ~DelaySkips, ~DelayArms
      PROVE Held'
  <2>1. SUFFICES ASSUME "fill" \in habits PROVE call'.state # "idle"
    BY <1>2
  <2>2. call.state # "idle"
    BY <1>b, <2>1 DEF Kept
  <2>3. CASE UNCHANGED call
    BY <2>2, <2>3
  <2>4. CASE Read
    BY <2>2, <2>4 DEF Read
  <2>9. CASE Abandon
    BY <1>2, <2>1, <2>9 DEF Abandon
  <2>5. CASE InjectorDelivers \/ CorrupterHits
    <3>1. frame.at \in DOMAIN stack /\ stack[frame.at] \in {"ReadInjector", "Corrupter"}
      BY <2>5 DEF InjectorDelivers, CorrupterHits, Running
    <3>2. frame.at < d
      BY <1>2, <3>1
    <3> QED
      BY <1>2, <2>1, <3>1, <3>2
  <2>6. CASE Acquire \/ Grant \/ SourceReads
    BY <1>2, <2>6 DEF Acquire, Grant, SourceReads, Running, AtSource
  <2>7. CASE ReturnFailed
    BY <1>3, <2>7 DEF ReturnFailed
  <2>8. UNCHANGED call \/ Read \/ Abandon \/ InjectorDelivers \/ CorrupterHits
          \/ Acquire \/ Grant \/ SourceReads \/ ReturnFailed
    <3>1. CASE UNCHANGED vars
      BY <3>1 DEF vars
    <3>2. CASE Environment
      BY <3>2 DEF Environment, SetRate, SetDelay, SetCorrupt, Set, Inject, Tick, Arrive, Close,
                  FillAndConsume
    <3>3. CASE TaskStep
      BY <1>b, <3>3 DEF TaskStep, Poll, Fuse, InjectorReceives, InjectorPasses, CorrupterMisses,
            ThrottleOff, ThrottleOn, ThrottleFills, DelayIdles, DelayWaits, SourceFails, TailCall,
            ReturnPending, Goto
    <3> QED
      BY <3>1, <3>2, <3>3 DEF Next
  <2> QED
    BY <2>3, <2>4, <2>5, <2>6, <2>7, <2>8, <2>9
<1>4. SUFFICES ASSUME layer'.timer.armed PROVE (AtEnd \/ source.buf > 0)' /\ Held'
  BY <1>2 DEF Kept
<1>5. CASE DelayArms
  <2>1. frame.at # 0 /\ call' = call /\ CanFill /\ source' = Filled
    BY <1>2, <1>5 DEF DelayArms, Running, ReturnPending, Looks
  <2>2. source'.buf = Rem /\ (Rem = 0 => AtEnd) /\ Rem \in Nat
    BY <1>3, <2>1, FilledIs, RemBound, Constants DEF CanFill, AtEnd
  <2> QED
    BY <1>3, <2>1, <2>2, EndStays
<1>6. CASE (DelaySkips \/ DelayOver) /\ HandOut(IdleTimer)
  <2>1. frame.at # 0
    BY <1>2, <1>6 DEF DelaySkips, DelayOver, Running
  <2> QED
    BY <1>4, <1>6, <2>1, HandsOut
<1>7. CASE DelayOver /\ ~HandOut(IdleTimer)
  <2>1. layer' = [layer EXCEPT !.timer = IdleTimer]
    BY <1>7 DEF DelayOver
  <2> QED
    BY <1>3, <1>4, <2>1 DEF IdleTimer
<1>8. CASE ~DelayArms /\ ~DelaySkips /\ ~DelayOver
  <2>1. layer'.timer.armed = layer.timer.armed
    <3>1. CASE Tick
      BY <1>3, <3>1, DelayNumbers DEF Tick, Closer, Timers
    <3>2. CASE ~Tick
      BY <1>1, <1>8, <3>2, DelayMoves DEF Unaffected, SetDelay, Set, Arrive, Close, FillAndConsume
    <3> QED
      BY <3>1, <3>2
  <2>2. Held'
    BY <1>4, <1>8, <1>b, <2>1
  <2>3. ~FillAndConsume
    BY <1>4, <2>1 DEF FillAndConsume, Kept
  <2> QED
    BY <1>4, <1>8, <1>a, <2>1, <2>2, <2>3
<1> QED
  BY <1>5, <1>6, <1>7, <1>8 DEF DelaySkips

\* "buffer can't be empty" (delayer.rs): what a delay has seen is still there
\* when its time is over, unless a throttle above it or the owner itself takes it
\* with poll_fill_buf in the middle of the delay: then the read panics.
THEOREM DelaysFindTheirBytes ==
  ASSUME Undisturbed, Unshared
  PROVE Spec => []NeverPanics
<1>1. Init => Punctual /\ Kept /\ NeverPanics
  BY PunctualInit DEF Init, NeverPanics
<1>2. Sound /\ Punctual /\ [Next]_vars => Punctual'
  BY PunctualNext
<1>3. Sound /\ Punctual /\ Kept /\ [Next]_vars => Kept'
  BY KeptNext
<1>4. Sound /\ Kept /\ NeverPanics /\ [Next]_vars => NeverPanics'
  <2> SUFFICES ASSUME Sound, Kept, NeverPanics, [Next]_vars PROVE call'.state # "panicked"
    BY DEF NeverPanics
  <2>1. /\ call \in [state : {"idle", "pending", "failed", "panicked"}, room : 0..MaxBuf]
        /\ call.state # "panicked" /\ DataTypes
    BY DEF NeverPanics, Sound, TypeOK, ControlTypes
  <2>2. CASE DelayOver
    <3>1. Has("DelayedReader") /\ layer.timer.armed
      BY <2>2 DEF DelayOver, Running, AfterDelay, Has, Member
    <3>2. AtEnd \/ source.buf > 0
      BY <3>1 DEF Kept
    <3>3. CanFill
      BY <2>1, <3>2, RemBound, Constants DEF CanFill, AtEnd, DataTypes
    <3> QED
      BY <2>2, <3>3 DEF DelayOver, HandOut, ReturnReady
  <2>3. CASE ~DelayOver
    <3>1. call' \in {call, [call EXCEPT !.state = "failed"], [state |-> "idle", room |-> 0]}
            \/ call'.state = "pending"
      <4>1. CASE UNCHANGED vars
        BY <4>1 DEF vars
      <4>2. CASE Environment
        BY <4>2 DEF Environment, SetRate, SetDelay, SetCorrupt, Set, Inject, Tick, Arrive, Close,
                    Read, Abandon, FillAndConsume
      <4>3. CASE TaskStep /\ ~DelayOver
        BY <4>3 DEF TaskStep, Poll, Fuse, InjectorDelivers, InjectorReceives, InjectorPasses,
              CorrupterHits, CorrupterMisses, ThrottleOff, ThrottleOn, ThrottleFills, Acquire, Grant,
              DelayIdles, DelayArms, DelaySkips, DelayWaits, SourceReads, SourceFails, TailCall,
              ReturnPending, ReturnFailed, ReturnReady, Goto, Yield, HandOut
      <4> QED
        BY <2>3, <4>1, <4>2, <4>3 DEF Next
    <3> QED
      BY <2>1, <3>1
  <2> QED
    BY <2>2, <2>3
<1> QED
  BY <1>1, <1>2, <1>3, <1>4, SoundAlways, PTL DEF Spec
=============================================================================
