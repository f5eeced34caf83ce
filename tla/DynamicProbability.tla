------------------------- MODULE DynamicProbability -------------------------
(***************************************************************************)
(* tokio-netem/src/probability.rs: the runtime-tunable probability.  It is *)
(* two atomics, the rate as f64 bits and the threshold an RNG draw is      *)
(* compared with; set() stores one after the other.  Listings load the     *)
(* rate alone, the data path the threshold alone.                          *)
(*                                                                         *)
(* A rate is a multiple r of 1/Den and a draw one of Draws numbers (2^64   *)
(* in the code), so that rounding and saturation of the threshold are kept.*)
(***************************************************************************)
EXTENDS Integers

CONSTANTS
  Setters,   \* callers of set(), one call each
  Listers,   \* requests that list the rate
  Rates,     \* rates passed to set(), in and out of 0..Den
  Den,       \* the rate 1.0
  Draws,     \* how many values a draw has
  Locked     \* set() and listings are serialised by a reader-writer lock, as
             \* trixter's DashMap shard does; the type itself has none

MaxDraw == Draws - 1
Stale == -1

ASSUME ProbabilityAssumption ==
  /\ Den \in Nat \ {0} /\ Draws \in Nat \ {0}
  /\ Rates \subseteq Int /\ Locked \in BOOLEAN

VARIABLES
  rateBits,   \* probability_rate_bits
  threshold,  \* probability_threshold
  spc,        \* spc[s]: "idle", "half" between the two stores, "ok", "err"
  arg,        \* arg[s]: the rate being set
  listed      \* listed[x]: the rate x was shown, Stale before and as soon as a
              \* set() has begun to store since

knobVars == <<rateBits, threshold, spc, arg, listed>>

\* Mutant: only the upper end of the range is checked.
ValidAtMostOne(r) == r <= Den

\* validate_probability_rate
Valid(r) == r \in 0..Den

\* (p * u64::MAX as f64) as u64: u64::MAX as f64 is 2^64, the cast saturates.
ThresholdOf(r) ==
  LET t == (r * Draws) \div Den IN IF t > MaxDraw THEN MaxDraw ELSE t

KnobTypeOK ==
  /\ rateBits \in 0..Den /\ threshold \in 0..MaxDraw
  /\ spc \in [Setters -> {"idle", "half", "ok", "err"}] /\ arg \in [Setters -> Rates \cup {0}]
  /\ listed \in [Listers -> 0..Den \cup {Stale}]

\* DynamicProbability::new(0.0)
KnobInit ==
  /\ rateBits = 0 /\ threshold = 0
  /\ spc = [s \in Setters |-> "idle"] /\ arg = [s \in Setters |-> 0]
  /\ listed = [x \in Listers |-> Stale]

NoSetHalfway == \A s \in Setters : spc[s] # "half"
Outdated == [x \in Listers |-> Stale]

\* Mutant: the bits are stored before the rate is validated.
StoreRateFirst(s, r) ==
  /\ spc[s] = "idle"
  /\ Locked => NoSetHalfway
  /\ arg' = [arg EXCEPT ![s] = r]
  /\ spc' = [spc EXCEPT ![s] = IF Valid(r) THEN "half" ELSE "err"]
  /\ rateBits' = r /\ listed' = Outdated
  /\ UNCHANGED threshold

\* set(): an invalid rate changes nothing; a valid one is stored as bits ...
StoreRate(s, r) ==
  /\ spc[s] = "idle"
  /\ Locked => NoSetHalfway
  /\ arg' = [arg EXCEPT ![s] = r]
  /\ IF Valid(r)
       THEN spc' = [spc EXCEPT ![s] = "half"] /\ rateBits' = r /\ listed' = Outdated
       ELSE spc' = [spc EXCEPT ![s] = "err"] /\ UNCHANGED <<rateBits, listed>>
  /\ UNCHANGED threshold

\* ... and then as a threshold.
StoreThreshold(s) ==
  /\ spc[s] = "half"
  /\ threshold' = ThresholdOf(arg[s])
  /\ spc' = [spc EXCEPT ![s] = "ok"]
  /\ UNCHANGED <<rateBits, arg, listed>>

\* ApiState::all: probability(), under the shard's read lock.
List(x) ==
  /\ Locked => NoSetHalfway
  /\ listed' = [listed EXCEPT ![x] = rateBits]
  /\ UNCHANGED <<rateBits, threshold, spc, arg>>

KnobNext ==
  \/ \E s \in Setters : StoreThreshold(s) \/ \E r \in Rates : StoreRate(s, r)
  \/ \E x \in Listers : List(x)

-----------------------------------------------------------------------------

\* With no set() under way rate and threshold belong together, however many
\* set() calls met before.  This needs Locked: two set() calls without a lock can
\* leave the rate of one with the threshold of the other, for all the Release
\* and Acquire orderings that probability.rs counts on.
SettledPair == NoSetHalfway => threshold = ThresholdOf(rateBits)
=============================================================================
