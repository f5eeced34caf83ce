--------------------------- MODULE LeakyBucket_proof ---------------------------
(***************************************************************************)
(* What the bucket's operations return, for every rate, budget and age,    *)
(* and what a bucket can still claim of the meter.                         *)
(***************************************************************************)
EXTENDS LeakyBucket, Integers, TLAPS

\* What a bucket lets through if it is asked now, at the rate `top`, in the
\* meter's units.
Claim(bucket, top) == Second * bucket.budget + top * bucket.age

-----------------------------------------------------------------------------
(* Types.                                                                   *)

\* The fields of a bucket.
LEMMA BucketFields ==
  ASSUME NEW rates \in SUBSET Nat, NEW bucket \in Buckets(rates)
  PROVE /\ bucket.budget \in Nat /\ bucket.age \in 0..Second /\ bucket.nap \in 0..NapCap
        /\ \E r \in rates : bucket.budget <= r
        /\ bucket = [budget |-> bucket.budget, age |-> bucket.age, nap |-> bucket.nap]
<1>1. /\ bucket.budget \in UNION {0..r : r \in rates}
      /\ bucket.age \in 0..Second /\ bucket.nap \in 0..NapCap
      /\ bucket = [budget |-> bucket.budget, age |-> bucket.age, nap |-> bucket.nap]
  BY DEF Buckets
<1>2. PICK r \in rates : bucket.budget \in 0..r
  BY <1>1
<1> QED
  BY <1>1, <1>2

\* What makes a bucket.
LEMMA MakesBucket ==
  ASSUME NEW rates \in SUBSET Nat, NEW r \in rates, NEW budget \in 0..r,
         NEW age \in 0..Second, NEW nap \in 0..NapCap
  PROVE [budget |-> budget, age |-> age, nap |-> nap] \in Buckets(rates)
<1>1. budget \in UNION {0..q : q \in rates}
  OBVIOUS
<1> QED
  BY <1>1 DEF Buckets

\* What accrues is a whole number of bytes, never more than the time is worth.
LEMMA AddedBound ==
  ASSUME NEW rates \in SUBSET Nat, NEW bucket \in Buckets(rates), NEW rate \in Nat
  PROVE Added(bucket, rate) \in Nat /\ Second * Added(bucket, rate) <= bucket.age * rate
<1>1. bucket.age \in Nat /\ Second \in Nat \ {0}
  BY BucketFields, BucketAssumption
<1>2. bucket.age * rate \in Nat
  BY <1>1
<1>3. \A m \in Nat, s \in Nat \ {0} : m \div s \in Nat /\ s * (m \div s) <= m
  BY Z3
<1> QED
  BY <1>1, <1>2, <1>3 DEF Added

\* The age and the nap replaced.
LEMMA TwoFields ==
  ASSUME NEW rates \in SUBSET Nat, NEW bucket \in Buckets(rates), NEW x, NEW y
  PROVE [bucket EXCEPT !.age = x, !.nap = y]
             = [budget |-> bucket.budget, age |-> x, nap |-> y]
<1> DEFINE b == bucket.budget
           n == bucket.nap
<1>1. bucket = [budget |-> b, age |-> bucket.age, nap |-> n]
  BY BucketFields
<1> HIDE DEF b, n
<1>2. [bucket EXCEPT !.age = x] = [budget |-> b, age |-> x, nap |-> n]
  BY <1>1
<1>3. [bucket EXCEPT !.age = x, !.nap = y] = [[bucket EXCEPT !.age = x] EXCEPT !.nap = y]
  OBVIOUS
<1>4. [[budget |-> b, age |-> x, nap |-> n] EXCEPT !.nap = y] = [budget |-> b, age |-> x, nap |-> y]
  OBVIOUS
<1> QED
  BY <1>2, <1>3, <1>4 DEF b

\* A refilled bucket as a record.
LEMMA RefilledIs ==
  ASSUME NEW rates \in SUBSET Nat, NEW bucket \in Buckets(rates), NEW rate \in rates
  PROVE \/ Added(bucket, rate) = 0 /\ Refilled(bucket, rate) = bucket
        \/ Refilled(bucket, rate) =
             [budget |-> Least(bucket.budget + Added(bucket, rate), rate), age |-> 0,
              nap |-> bucket.nap]
<1>1. CASE Added(bucket, rate) = 0
  BY <1>1 DEF Refilled
<1>2. CASE Added(bucket, rate) # 0
  <2> DEFINE x == Least(bucket.budget + Added(bucket, rate), rate)
             zero == 0
  <2>1. Refilled(bucket, rate) = [bucket EXCEPT !.budget = x, !.age = zero]
    BY <1>2 DEF Refilled
  <2> HIDE DEF x, zero
  <2>2. [bucket EXCEPT !.budget = x, !.age = zero] = [budget |-> x, age |-> zero, nap |-> bucket.nap]
    <3> DEFINE g == bucket.age
               n == bucket.nap
               one == [bucket EXCEPT !.budget = x]
    <3>1. bucket = [budget |-> bucket.budget, age |-> g, nap |-> n]
      BY BucketFields
    <3> HIDE DEF g, n
    <3>2. one = [budget |-> x, age |-> g, nap |-> n]
      BY <3>1
    <3>3. [bucket EXCEPT !.budget = x, !.age = zero] = [one EXCEPT !.age = zero]
      OBVIOUS
    <3> HIDE DEF one
    <3>4. [one EXCEPT !.age = zero] = [budget |-> x, age |-> zero, nap |-> n]
      BY <3>2
    <3> QED
      BY <3>3, <3>4 DEF n
  <2>3. Refilled(bucket, rate) = [budget |-> x, age |-> zero, nap |-> bucket.nap]
    BY <2>1, <2>2
  <2> QED
    BY <2>3 DEF x, zero
<1> QED
  BY <1>1, <1>2

\* A new bucket is one.
LEMMA FullIsBucket ==
  ASSUME NEW rates \in SUBSET Nat, NEW rate \in rates
  PROVE Full(rate) \in Buckets(rates)
<1>1. rate \in 0..rate
  OBVIOUS
<1>2. 0 \in 0..Second /\ 0 \in 0..NapCap
  BY BucketAssumption
<1> QED
  BY <1>1, <1>2, MakesBucket DEF Full

\* Every operation returns a bucket.
LEMMA BucketsStay ==
  ASSUME NEW rates \in SUBSET Nat, NEW bucket \in Buckets(rates)
  PROVE /\ \A rate \in rates : Refilled(bucket, rate) \in Buckets(rates)
        /\ \A rate \in Nat \ {0} : Napping(bucket, rate) \in Buckets(rates)
        /\ \A n \in Nat : Spent(bucket, n) \in Buckets(rates)
        /\ Older(bucket) \in Buckets(rates)
<1>0. /\ bucket.budget \in Nat /\ bucket.age \in 0..Second /\ bucket.nap \in 0..NapCap
      /\ bucket = [budget |-> bucket.budget, age |-> bucket.age, nap |-> bucket.nap]
      /\ Second \in Nat \ {0} /\ NapCap \in Nat \ {0} /\ NapBytes \in Nat
  BY BucketFields, BucketAssumption
<1>1. PICK r \in rates : bucket.budget \in 0..r
  BY BucketFields
<1>2. ASSUME NEW rate \in rates PROVE Refilled(bucket, rate) \in Buckets(rates)
  <2>1. Least(bucket.budget + Added(bucket, rate), rate) \in 0..rate /\ 0 \in 0..Second
    BY <1>0, AddedBound DEF Least
  <2>2. [budget |-> Least(bucket.budget + Added(bucket, rate), rate), age |-> 0,
         nap |-> bucket.nap] \in Buckets(rates)
    BY <1>0, <2>1, MakesBucket
  <2> QED
    BY <2>2, RefilledIs
<1>3. ASSUME NEW rate \in Nat \ {0} PROVE Napping(bucket, rate) \in Buckets(rates)
  <2> DEFINE accrual == (NapBytes * Second) \div rate
             nap == Least(NapCap, IF accrual = 0 THEN 1 ELSE accrual)
  <2>1. accrual \in Nat
    <3>1. NapBytes * Second \in Nat
      BY <1>0
    <3>2. \A m \in Nat, s \in Nat \ {0} : m \div s \in Nat
      BY Z3
    <3> QED
      BY <3>1, <3>2
  <2>2. nap \in 0..NapCap
    <3> HIDE DEF accrual
    <3> QED
      BY <1>0, <2>1 DEF Least
  <2>3. Napping(bucket, rate) = [budget |-> bucket.budget, age |-> bucket.age, nap |-> nap]
    BY <1>0 DEF Napping
  <2> HIDE DEF nap
  <2> QED
    BY <1>0, <1>1, <2>2, <2>3, MakesBucket
<1>4. ASSUME NEW n \in Nat PROVE Spent(bucket, n) \in Buckets(rates)
  <2> DEFINE budget == IF bucket.budget > n THEN bucket.budget - n ELSE 0
  <2>1. Spent(bucket, n) = [budget |-> budget, age |-> bucket.age, nap |-> bucket.nap]
    BY <1>0 DEF Spent
  <2>2. budget \in 0..r
    BY <1>1
  <2> HIDE DEF budget
  <2> QED
    BY <1>0, <2>1, <2>2, MakesBucket
<1>5. Older(bucket) \in Buckets(rates)
  <2> DEFINE age == Least(Second, bucket.age + 1)
             nap == IF bucket.nap = 0 THEN 0 ELSE bucket.nap - 1
  <2>1. Older(bucket) = [budget |-> bucket.budget, age |-> age, nap |-> nap]
    <3>1. Older(bucket) = [bucket EXCEPT !.age = age, !.nap = nap]
      BY DEF Older
    <3> HIDE DEF age, nap
    <3>2. [bucket EXCEPT !.age = age, !.nap = nap]
            = [budget |-> bucket.budget, age |-> age, nap |-> nap]
      BY TwoFields
    <3> QED
      BY <3>1, <3>2
  <2>2. age \in 0..Second /\ nap \in 0..NapCap
    BY <1>0 DEF Least
  <2> HIDE DEF age, nap
  <2> QED
    BY <1>1, <2>1, <2>2, MakesBucket
<1> QED
  BY <1>2, <1>3, <1>4, <1>5

-----------------------------------------------------------------------------
(* Claims.                                                                  *)

\* A full bucket claims a second's worth of its rate.
LEMMA FullClaims ==
  ASSUME NEW top \in Nat, NEW rate \in Nat, rate <= top
  PROVE Claim(Full(rate), top) <= MeterFull(top)
<1>1. Claim(Full(rate), top) = Second * rate
  BY BucketAssumption DEF Claim, Full
<1>2. Second * rate <= Second * top
  BY BucketAssumption
<1> QED
  BY <1>1, <1>2 DEF MeterFull

\* A claim is a number of units.
LEMMA ClaimIsNat ==
  ASSUME NEW rates \in SUBSET Nat, NEW bucket \in Buckets(rates), NEW top \in Nat
  PROVE Claim(bucket, top) \in Nat
<1>1. bucket.budget \in Nat /\ bucket.age \in Nat /\ Second \in Nat
  BY BucketFields, BucketAssumption
<1>2. Second * bucket.budget \in Nat /\ top * bucket.age \in Nat
  BY <1>1
<1> QED
  BY <1>2 DEF Claim

\* Refilling turns age into budget, without gain: at whatever rate.
LEMMA RefilledClaims ==
  ASSUME NEW rates \in SUBSET Nat, NEW bucket \in Buckets(rates), NEW rate \in rates,
         NEW top \in Nat, rate <= top
  PROVE Claim(Refilled(bucket, rate), top) <= Claim(bucket, top)
<1> DEFINE a == Added(bucket, rate)
           b == bucket.budget
           g == bucket.age
<1>1. b \in Nat /\ g \in Nat /\ Second \in Nat \ {0} /\ rate \in Nat
  BY BucketFields, BucketAssumption
<1>2. a \in Nat /\ Second * a <= g * rate
  BY AddedBound
<1>3. g * rate <= top * g
  <2> HIDE DEF g
  <2> QED
    BY <1>1
<1>4. CASE Refilled(bucket, rate) = bucket
  BY <1>4, <1>1, ClaimIsNat
<1>5. CASE Refilled(bucket, rate) = [budget |-> Least(b + a, rate), age |-> 0, nap |-> bucket.nap]
  <2> DEFINE c == Least(b + a, rate)
  <2>1. c \in Nat /\ c <= b + a
    <3> HIDE DEF a, b
    <3> QED
      BY <1>1, <1>2 DEF Least
  <2>2. Claim(Refilled(bucket, rate), top) = Second * c
    <3> HIDE DEF a, b, c
    <3>1. top * 0 = 0 /\ Second * c \in Nat
      BY <1>1, <2>1
    <3>2. Claim(Refilled(bucket, rate), top) = Second * c + top * 0
      BY <1>5 DEF Claim, c
    <3> QED
      BY <3>1, <3>2
  <2>3. Second * c <= Second * b + Second * a
    <3> HIDE DEF a, b, c
    <3>1. Second * c <= Second * (b + a)
      BY <1>1, <1>2, <2>1
    <3> QED
      BY <1>1, <1>2, <2>1, <3>1
  <2>4. Second * c <= Second * b + top * g
    <3>1. /\ Second * c \in Nat /\ Second * b \in Nat /\ Second * a \in Nat
          /\ g * rate \in Nat /\ top * g \in Nat
      <4> HIDE DEF a, b, c, g
      <4> QED
        BY <1>1, <1>2, <2>1
    <3> HIDE DEF a, b, c, g
    <3> QED
      BY <1>2, <1>3, <2>3, <3>1
  <2> QED
    BY <2>2, <2>4 DEF Claim
<1> QED
  BY <1>4, <1>5, RefilledIs

\* What passes is taken off the claim, as long as the budget covers it.
LEMMA SpentClaims ==
  ASSUME NEW rates \in SUBSET Nat, NEW bucket \in Buckets(rates), NEW top \in Nat,
         NEW n \in Nat, n <= bucket.budget
  PROVE Claim(Spent(bucket, n), top) = Claim(bucket, top) - Second * n
<1> DEFINE b == bucket.budget
           g == bucket.age
<1>1. b \in Nat /\ g \in Nat /\ Second \in Nat \ {0}
  BY BucketFields, BucketAssumption
<1>2. Spent(bucket, n).budget = b - n /\ Spent(bucket, n).age = g
  BY BucketFields DEF Spent
<1>3. Second * (b - n) = Second * b - Second * n
  <2> HIDE DEF b
  <2> QED
    BY <1>1
<1>4. Second * b \in Nat /\ Second * n \in Nat /\ top * g \in Nat
  <2> HIDE DEF b, g
  <2> QED
    BY <1>1
<1>5. Second * (b - n) + top * g = (Second * b + top * g) - Second * n
  <2> HIDE DEF b, g
  <2> QED
    BY <1>3, <1>4
<1> QED
  BY <1>2, <1>5 DEF Claim

\* A sleep claims nothing.
LEMMA NappingClaims ==
  ASSUME NEW rates \in SUBSET Nat, NEW bucket \in Buckets(rates), NEW rate, NEW top
  PROVE Claim(Napping(bucket, rate), top) = Claim(bucket, top)
BY BucketFields DEF Claim, Napping

\* As time passes the meter gains no less than the claim.
LEMMA OlderClaims ==
  ASSUME NEW rates \in SUBSET Nat, NEW bucket \in Buckets(rates), NEW top \in Nat,
         bucket.budget <= top, NEW level \in Int, Claim(bucket, top) <= level
  PROVE Claim(Older(bucket), top) <= Metered(level, top)
<1> DEFINE b == bucket.budget
           g == bucket.age
           h == Least(Second, g + 1)
<1>1. b \in Nat /\ b <= top /\ g \in Nat /\ g <= Second /\ Second \in Nat \ {0}
  BY BucketFields, BucketAssumption
<1>2. Older(bucket).budget = b /\ Older(bucket).age = h
  BY BucketFields DEF Older
<1>3. h \in Nat /\ h <= Second /\ h <= g + 1
  <2> HIDE DEF g
  <2> QED
    BY <1>1 DEF Least
<1>4. top * h <= top * g + top
  <2> HIDE DEF g, h
  <2>1. top * h <= top * (g + 1)
    BY <1>1, <1>3
  <2> QED
    BY <1>1, <2>1
<1>5. top * h <= Second * top /\ Second * b <= Second * top
  <2> HIDE DEF b, h
  <2> QED
    BY <1>1, <1>3
<1>6. /\ Second * b \in Nat /\ top * g \in Nat /\ top * h \in Nat /\ Second * top \in Nat
      /\ 2 * Second * top = Second * top + Second * top
  <2> HIDE DEF b, g, h
  <2> QED
    BY <1>1, <1>3
<1>7. Second * b + top * g <= level
  BY DEF Claim
<1>8. Second * b + top * h <= Least(2 * Second * top, level + top)
  <2> HIDE DEF b, g, h
  <2> QED
    BY <1>4, <1>5, <1>6, <1>7 DEF Least
<1> QED
  BY <1>2, <1>8 DEF Claim, Metered, MeterCap
=============================================================================
