---------------------------- MODULE TokenBucket -----------------------------
(***************************************************************************)
(* TokenBucket (resource.rs), driven by a sender that replenishes it with  *)
(* the time that passed, charges what it can and waits for what it cannot, *)
(* beside the bucket of the resource contract, which is full or earns      *)
(* continuously.  A second has Second instants (in the code nanoseconds);  *)
(* an instant earns `rate` parts of a token of Second parts.  A charge of  *)
(* units needs them all.                                                   *)
(***************************************************************************)
EXTENDS Integers

CONSTANTS
  Second,              \* instants in a second
  MaxRate,
  MaxCharge,           \* the largest record's charge
  MaxElapsed,          \* bound on the time between two calls
  MaxEarned            \* bound that stands for u64: more overflows

ASSUME BucketAssumption ==
  /\ {Second, MaxCharge, MaxElapsed, MaxEarned} \subseteq Nat \ {0}
  /\ MaxRate \in Nat

VARIABLES
  bucket,    \* TokenBucket
  contract   \* parts of a token in the contract's bucket

bucketVars == <<bucket, contract>>

Bigger(a, b) == IF a >= b THEN a ELSE b
Smaller(a, b) == IF a <= b THEN a ELSE b

NewBucket(rate, charge) ==
  LET capacity == Bigger(rate, charge) IN
  [rate |-> rate, capacity |-> capacity, tokens |-> capacity, remainder |-> 0]

BucketInit ==
  /\ \E rate \in 0..MaxRate, charge \in 1..MaxCharge : bucket = NewBucket(rate, charge)
  /\ contract = bucket.capacity * Second

\* Mutant: the part of a token that was earned is earned again each time.
ReplenishedRounding(b, elapsed) ==
  [b EXCEPT !.tokens = Smaller(b.capacity,
              @ + (b.rate * elapsed + b.remainder + Second - 1) \div Second)]

\* replenish.  What is earned beyond the capacity is lost, its remainder is
\* not; when it overflows only the remainder is assigned.
Replenished(b, elapsed) ==
  LET numerator == b.rate * elapsed + b.remainder
      earned    == numerator \div Second IN
  [b EXCEPT !.remainder = numerator % Second,
            !.tokens = IF earned > MaxEarned THEN @ ELSE Smaller(b.capacity, @ + earned)]

\* Mutant: the wait is rounded down.
TimeUntilFloor(b, units) == ((units - b.tokens) * Second - b.remainder) \div b.rate

\* time_until, of a charge that is possible and not possible now.
TimeUntil(b, units) ==
  LET owed == (units - b.tokens) * Second - b.remainder IN
  (owed + b.rate - 1) \div b.rate

Never(b, units) == units > b.capacity \/ (b.rate = 0 /\ units > b.tokens)

Replenish(elapsed) ==
  /\ bucket' = Replenished(bucket, elapsed)
  /\ contract' = Smaller(bucket.capacity * Second, contract + bucket.rate * elapsed)

Charge(units) ==
  /\ units <= bucket.tokens
  /\ bucket' = [bucket EXCEPT !.tokens = @ - units]
  /\ contract' = contract - units * Second

BucketNext ==
  \/ \E elapsed \in 0..MaxElapsed : Replenish(elapsed)
  \/ \E units \in 1..Bigger(MaxRate, MaxCharge) : Charge(units)

BucketSpec == BucketInit /\ [][BucketNext]_bucketVars

\* The wait that time_until names is enough for the charge, and one instant
\* less is not: nothing wakes with the charge short, and nothing oversleeps.
WaitExact ==
  \A units \in 1..Bigger(MaxRate, MaxCharge) :
    units > bucket.tokens /\ ~Never(bucket, units) =>
      LET wait == TimeUntil(bucket, units) IN
      /\ wait > 0
      /\ wait * bucket.rate < MaxEarned * Second => Replenished(bucket, wait).tokens >= units
      /\ Replenished(bucket, wait - 1).tokens < units

\* Over every stretch of time the charges stay within the contract's bucket
\* (vivid-protocol-1.5-security-and-resource-model.md:300-305), but for less
\* than one token: a full bucket keeps the remainder it had earned.
PacedWithinAToken == contract > -Second
=============================================================================
