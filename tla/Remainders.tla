----------------------------- MODULE Remainders -----------------------------
(***************************************************************************)
(* How the remainder of a counter changes when it counts: acks, commits    *)
(* and transactions are due when it is 0.                                  *)
(***************************************************************************)
EXTENDS Integers, TLAPS

\* The remainder of a multiple and a rest is the rest.
LEMMA Remainder ==
  ASSUME NEW q \in Int, NEW k \in Nat \ {0}, NEW r \in 0..(k - 1)
  PROVE  (k * q + r) % k = r
OBVIOUS

\* A remainder grows by one, until it would be the divisor and is 0 again.
LEMMA NextRemainder ==
  ASSUME NEW n \in Nat, NEW k \in Nat \ {0}
  PROVE  /\ n % k \in 0..(k - 1)
         /\ (n % k) + 1 < k => (n + 1) % k = (n % k) + 1
         /\ (n % k) + 1 >= k => (n + 1) % k = 0
<1> DEFINE q == n \div k
           r == n % k
<1>1. q \in Int /\ r \in 0..(k - 1)
  OBVIOUS
<1>2. n - r = k * q
  OBVIOUS
<1> HIDE DEF q, r
<1>3. n + 1 = k * q + (r + 1)
  BY <1>1, <1>2
<1>4. ASSUME r + 1 < k PROVE (n + 1) % k = r + 1
  BY <1>1, <1>3, <1>4, Remainder
<1>5. ASSUME r + 1 >= k PROVE (n + 1) % k = 0
  <2>1. r + 1 = k
    BY <1>1, <1>5
  <2>2. n + 1 = k * (q + 1) + 0
    BY <1>1, <1>3, <2>1
  <2>3. q + 1 \in Int /\ 0 \in 0..(k - 1)
    BY <1>1
  <2> QED BY <2>2, <2>3, Remainder
<1> QED BY <1>1, <1>4, <1>5 DEF r
=============================================================================
