--------------------------- MODULE Terminator_proof ---------------------------
(***************************************************************************)
(* Proofs about DynamicProbability and Terminator for any rates, any       *)
(* number of draws and any number of setters, listings and streams.        *)
(***************************************************************************)
EXTENDS Terminator, TLAPS

\* The threshold of a valid rate is a draw; that of 0.0 is 0, so no draw is
\* below it.
LEMMA ThresholdIsADraw ==
  ASSUME NEW r \in 0..Den
  PROVE ThresholdOf(r) \in 0..MaxDraw /\ (r = 0 => ThresholdOf(r) = 0)
<1>1. Draws \in Nat \ {0} /\ Den \in Nat \ {0}
  BY ProbabilityAssumption
<1>2. r * Draws \in Nat /\ (r = 0 => r * Draws = 0)
  BY <1>1
<1>3. ASSUME NEW m \in Nat PROVE m \div Den \in Nat /\ (m = 0 => m \div Den = 0)
  BY <1>1, <1>3
<1> QED
  BY <1>1, <1>2, <1>3 DEF ThresholdOf, MaxDraw

\* The types, that polls of the buffer are among those that went through, and
\* that a poll goes on only with an unblown fuse.
Typed ==
  /\ TypeOK
  /\ \A s \in Setters : spc[s] = "half" => arg[s] \in 0..Den
  /\ \A t \in Streams : buffered[t] <= through[t]
  /\ \A t \in Streams : loaded[t] # NoPoll => ~triggered[t]

\* Nothing set, no fuse blown, nothing polled.
LEMMA TypedInit == Init => Typed
<1>1. 0 \in 0..Den /\ 0 \in 0..MaxDraw /\ 0 \in 0..MaxThrough
  BY ProbabilityAssumption, TerminatorAssumption DEF MaxDraw
<1> QED
  BY <1>1 DEF Init, KnobInit, Typed, TypeOK, KnobTypeOK

\* Steps of the knob, polls and buffered reads keep the types.
LEMMA TypedNext == Typed /\ [Next]_vars => Typed'
<1> SUFFICES ASSUME Typed, [Next]_vars PROVE Typed'
  OBVIOUS
<1> USE DEF Typed, TypeOK, KnobTypeOK
<1>1. CASE UNCHANGED vars
  BY <1>1 DEF vars, knobVars, fuseVars
<1>2. ASSUME NEW s \in Setters, StoreThreshold(s) \/ \E r \in Rates : StoreRate(s, r),
             UNCHANGED fuseVars
      PROVE Typed'
  <2>1. CASE StoreThreshold(s)
    BY <1>2, <2>1, ThresholdIsADraw DEF StoreThreshold, fuseVars
  <2>2. ASSUME NEW r \in Rates, StoreRate(s, r) PROVE Typed'
    BY <1>2, <2>2 DEF StoreRate, Valid, Outdated, fuseVars
  <2> QED
    BY <1>2, <2>1, <2>2
<1>3. ASSUME NEW x \in Listers, List(x), UNCHANGED fuseVars PROVE Typed'
  BY <1>3 DEF List, fuseVars
<1>4. ASSUME NEW t \in Streams, Poll(t) PROVE Typed'
  BY <1>4 DEF Poll, knobVars
<1>5. ASSUME NEW t \in Streams, Decide(t) PROVE Typed'
  <2>1. UNCHANGED <<knobVars, buffered>> /\ ~triggered[t]
    BY <1>5 DEF Decide, Unpolled
  <2>2. loaded' = [loaded EXCEPT ![t] = NoPoll] /\ shownOff' = [shownOff EXCEPT ![t] = FALSE]
    BY <1>5 DEF Decide
  <2>3. CASE triggered' = [triggered EXCEPT ![t] = TRUE] /\ UNCHANGED through
    BY <2>1, <2>2, <2>3 DEF knobVars
  <2>4. CASE Pass(t) /\ UNCHANGED triggered
    <3>1. through' = [through EXCEPT ![t] = through[t] + 1] /\ through[t] + 1 \in 0..MaxThrough
      BY <2>4, TerminatorAssumption DEF Pass
    <3> QED
      BY <2>1, <2>2, <2>4, <3>1 DEF knobVars
  <2> QED
    BY <1>5, <2>3, <2>4 DEF Decide
<1>6. ASSUME NEW t \in Streams, FillBuf(t) PROVE Typed'
  BY <1>6, TerminatorAssumption DEF FillBuf, Pass, knobVars
<1> QED
  BY <1>1, <1>2, <1>3, <1>4, <1>5, <1>6 DEF Next, KnobNext

\* Typed is an invariant.
LEMMA TypedAlways == Spec => []Typed
BY TypedInit, TypedNext, PTL DEF Spec

\* Every variable keeps its type, locked or not.
THEOREM TypeCorrect == Spec => []TypeOK
<1>1. Typed => TypeOK
  BY DEF Typed
<1> QED
  BY <1>1, TypedAlways, PTL

\* A blown fuse stays blown and lets nothing through that is not a buffered
\* read, whatever set() does: this holds without the lock, too.
THEOREM BlownFusesBlock == Spec => BlownFuseBlocks
<1>1. ASSUME Typed, [Next]_vars, NEW t \in Streams, triggered[t]
      PROVE triggered'[t] /\ Unbuffered(t)' = Unbuffered(t)
  <2> USE DEF Typed, TypeOK, Unbuffered
  <2>1. CASE UNCHANGED <<triggered, through, buffered>>
    BY <1>1, <2>1
  <2>2. ASSUME NEW u \in Streams, Decide(u) PROVE triggered'[t] /\ Unbuffered(t)' = Unbuffered(t)
    <3>1. u # t
      BY <1>1, <2>2 DEF Decide, Unpolled
    <3> QED
      BY <1>1, <2>2, <3>1 DEF Decide, Pass
  <2>3. ASSUME NEW u \in Streams, FillBuf(u) PROVE triggered'[t] /\ Unbuffered(t)' = Unbuffered(t)
    BY <1>1, <2>3, TerminatorAssumption DEF FillBuf, Pass
  <2>4. ASSUME NEW u \in Streams, Poll(u) PROVE UNCHANGED <<triggered, through, buffered>>
    BY <2>4 DEF Poll
  <2> QED
    BY <1>1, <2>1, <2>2, <2>3, <2>4 DEF Next, vars, fuseVars
<1>2. Typed /\ [Next]_vars =>
        [\A t \in Streams : triggered[t] => triggered'[t] /\ Unbuffered(t)' = Unbuffered(t)]_vars
  BY <1>1
<1> QED
  BY <1>2, TypedAlways, PTL DEF Spec, BlownFuseBlocks

-----------------------------------------------------------------------------
(* Under the lock.                                                          *)

\* One set() at most is half done, and its rate is the one that is stored.
Exclusive ==
  /\ \A s, t \in Setters : spc[s] = "half" /\ spc[t] = "half" => s = t
  /\ \A s \in Setters : spc[s] = "half" => arg[s] = rateBits

\* A listing that is not stale shows the stored rate, and no set() is half done.
Current == \A x \in Listers : listed[x] # Stale => NoSetHalfway /\ listed[x] = rateBits

\* A poll that began when a listing showed 0.0 has loaded the threshold 0.
PollsOff == \A t \in Streams : shownOff[t] => loaded[t] = 0

Paired == Typed /\ Exclusive /\ SettledPair /\ Current /\ PollsOff

\* new(0.0) stores a pair.
LEMMA PairedInit == Init => Paired
<1>1. 0 \in 0..Den
  BY ProbabilityAssumption
<1>2. ThresholdOf(0) = 0
  BY <1>1, ThresholdIsADraw
<1> QED
  BY <1>2, TypedInit
  DEF Init, KnobInit, Paired, Exclusive, SettledPair, NoSetHalfway, Current, PollsOff

\* A set() that holds the lock finishes the pair before anyone lists it.
LEMMA KnobStep == ASSUME Locked, Paired, KnobNext
                  PROVE Exclusive' /\ SettledPair' /\ Current'
<1>0. KnobTypeOK
  BY DEF Paired, Typed, TypeOK
<1> USE DEF Paired, Exclusive, SettledPair, Current, NoSetHalfway
<1>1. ASSUME NEW s \in Setters, StoreThreshold(s) PROVE Exclusive' /\ SettledPair' /\ Current'
  BY <1>0, <1>1 DEF StoreThreshold, KnobTypeOK
<1>2. ASSUME NEW s \in Setters, NEW r \in Rates, StoreRate(s, r)
      PROVE Exclusive' /\ SettledPair' /\ Current'
  BY <1>0, <1>2 DEF StoreRate, Outdated, KnobTypeOK
<1>3. ASSUME NEW x \in Listers, List(x) PROVE Exclusive' /\ SettledPair' /\ Current'
  BY <1>0, <1>3 DEF List, KnobTypeOK
<1> QED
  BY <1>1, <1>2, <1>3 DEF KnobNext

\* A poll that begins under a listing of 0.0 loads the threshold of 0.0.
LEMMA PollLoadsZero ==
  ASSUME Paired, NEW t \in Streams, Poll(t) PROVE PollsOff'
<1>1. threshold \in 0..MaxDraw /\ loaded \in [Streams -> 0..MaxDraw \cup {NoPoll}]
      /\ shownOff \in [Streams -> BOOLEAN]
  BY DEF Paired, Typed, TypeOK, KnobTypeOK
<1>2. (\E x \in Listers : listed[x] = 0) => threshold = 0
  <2>1. ASSUME NEW x \in Listers, listed[x] = 0 PROVE threshold = 0
    <3>1. rateBits = 0 /\ NoSetHalfway
      BY <2>1 DEF Paired, Current, Stale
    <3>2. 0 \in 0..Den
      BY ProbabilityAssumption
    <3> QED
      BY <3>1, <3>2, ThresholdIsADraw DEF Paired, SettledPair
  <2> QED
    BY <2>1
<1>3. ASSUME NEW u \in Streams, u # t, shownOff'[u] PROVE loaded'[u] = 0
  BY <1>1, <1>3 DEF Poll, Paired, PollsOff
<1>4. shownOff'[t] => loaded'[t] = 0
  BY <1>1, <1>2 DEF Poll
<1> QED
  BY <1>3, <1>4 DEF PollsOff

\* Every step keeps Paired under the lock.
LEMMA PairedNext == ASSUME Locked, Paired, [Next]_vars PROVE Paired'
<1>0. Typed' /\ Typed
  BY TypedNext DEF Paired
<1>1. CASE UNCHANGED vars
  BY <1>0, <1>1
  DEF vars, knobVars, fuseVars, Paired, Exclusive, SettledPair, Current, PollsOff, NoSetHalfway
<1>2. CASE KnobNext /\ UNCHANGED fuseVars
  BY <1>0, <1>2, KnobStep DEF fuseVars, Paired, PollsOff
<1>3. ASSUME UNCHANGED knobVars, PollsOff' PROVE Paired'
  BY <1>0, <1>3 DEF knobVars, Paired, Exclusive, SettledPair, Current, NoSetHalfway
<1>4. ASSUME NEW t \in Streams, Poll(t) PROVE Paired'
  BY <1>3, <1>4, PollLoadsZero DEF Poll
<1>5. ASSUME NEW t \in Streams, Decide(t) PROVE Paired'
  BY <1>0, <1>3, <1>5 DEF Decide, Paired, PollsOff, Typed, TypeOK
<1>6. ASSUME NEW t \in Streams, FillBuf(t) PROVE Paired'
  BY <1>3, <1>6 DEF FillBuf, Paired, PollsOff
<1> QED
  BY <1>1, <1>2, <1>4, <1>5, <1>6 DEF Next

\* Under the lock Paired is an invariant.
LEMMA PairedAlways == ASSUME Locked PROVE Spec => []Paired
<1>1. Paired /\ [Next]_vars => Paired'
  BY PairedNext
<1> QED
  BY <1>1, PairedInit, PTL DEF Spec

\* With all set() calls over, the threshold the data path compares draws with
\* is that of the rate a listing reports.
THEOREM PairSettles == ASSUME Locked PROVE Spec => []SettledPair
<1>1. Paired => SettledPair
  BY DEF Paired
<1> QED
  BY <1>1, PairedAlways, PTL

\* Once a listing has shown 0.0, no operation that begins before the next set()
\* stores blows a fuse.
THEOREM ZeroIsOff == ASSUME Locked PROVE Spec => OffMeansOff
<1>1. ASSUME Paired, [Next]_vars, NEW t \in Streams, shownOff[t]
      PROVE triggered'[t] = triggered[t]
  <2>1. loaded[t] = 0 /\ triggered \in [Streams -> BOOLEAN]
    BY <1>1 DEF Paired, PollsOff, Typed, TypeOK
  <2>2. ASSUME NEW u \in Streams, Decide(u) PROVE triggered'[t] = triggered[t]
    BY <2>1, <2>2 DEF Decide, Hits
  <2> QED
    BY <1>1, <2>2 DEF Next, Poll, FillBuf, vars, fuseVars
<1>2. Paired /\ [Next]_vars =>
        [\A t \in Streams : shownOff[t] => triggered'[t] = triggered[t]]_vars
  BY <1>1
<1> QED
  BY <1>2, PairedAlways, PTL DEF Spec, OffMeansOff
=============================================================================
