------------------------------ MODULE LeakyBucket ------------------------------
(***************************************************************************)
(* The leaky bucket of throttler.rs as a value: `budget` bytes may pass    *)
(* now, `age` is the time since last_update, `nap` what is left of the     *)
(* sleep (0 also when it is not sleeping).                                 *)
(*                                                                         *)
(* Time is counted in ticks.  An age of one second fills the bucket at any *)
(* rate, so it is not counted further.                                     *)
(***************************************************************************)
EXTENDS Naturals, Adapters

CONSTANTS
  Second,    \* ticks in a second
  NapCap,    \* the longest sleep, 100 ms in the code
  NapBytes   \* a sleep ends when about so many bytes have accrued, 1024

ASSUME BucketAssumption ==
  Second \in Nat \ {0} /\ NapCap \in Nat \ {0} /\ NapBytes \in Nat

Buckets(rates) ==
  [budget : UNION {0..r : r \in rates}, age : 0..Second, nap : 0..NapCap]

\* LeakyBucket::new
Full(rate) == [budget |-> rate, age |-> 0, nap |-> 0]

Added(bucket, rate) == (bucket.age * rate) \div Second

\* Mutant: last_update is set even if nothing was added.
RefilledForgetful(bucket, rate) ==
  [bucket EXCEPT !.budget = Least(@ + Added(bucket, rate), rate), !.age = 0]

\* Mutant: last_update is not set.
RefilledTwice(bucket, rate) ==
  IF Added(bucket, rate) = 0 THEN bucket
  ELSE [bucket EXCEPT !.budget = Least(@ + Added(bucket, rate), rate)]

\* update_budget(): whole bytes only, the rest of the time is forgotten; an
\* addition of nothing leaves even a budget above the rate as it is.
Refilled(bucket, rate) ==
  IF Added(bucket, rate) = 0 THEN bucket
  ELSE [bucket EXCEPT !.budget = Least(@ + Added(bucket, rate), rate), !.age = 0]

\* poll_acquire()'s sleep, for an empty bucket at a rate that is not 0.
Napping(bucket, rate) ==
  LET accrual == (NapBytes * Second) \div rate
  IN [bucket EXCEPT !.nap = Least(NapCap, IF accrual = 0 THEN 1 ELSE accrual)]

\* Mutant: the subtraction does not saturate.
SpentBelow(bucket, n) == [bucket EXCEPT !.budget = @ - n]

\* consume(): more than the budget passes when the rate becomes 0 in mid-call.
Spent(bucket, n) == [bucket EXCEPT !.budget = IF @ > n THEN @ - n ELSE 0]

\* A tick passes.
Older(bucket) ==
  [bucket EXCEPT !.age = Least(Second, @ + 1), !.nap = IF @ = 0 THEN 0 ELSE @ - 1]

-----------------------------------------------------------------------------
(* A meter that fills at `top`, the highest rate, and can hold two seconds *)
(* of it; every byte takes `Second` units out.  One second is what the     *)
(* bucket holds.  The other is a last_update up to a second old: time that *)
(* passed at a low rate is paid out at a high one.                         *)

MeterCap(top) == 2 * Second * top
MeterFull(top) == Second * top
Metered(meter, top) == Least(MeterCap(top), meter + top)
=============================================================================
