--------------------------- MODULE ScheduleProofs ---------------------------
(***************************************************************************)
(* The schedule of a variable value, for any number of values and any      *)
(* durations: the period divides every duration, the intervals partition   *)
(* a cycle, and the value does not change within a period. The functions   *)
(* of ValueIndicator are recursive. Induction is the least counterexample. *)
(***************************************************************************)
EXTENDS ValueIndicator, Remainders, SequencesExt, SequenceTheorems,
        WellFoundedInduction, TLAPS

\* Every set of numbers has a least one.
LEMMA LeastNumber ==
  ASSUME NEW T \in SUBSET Nat, T # {}
  PROVE  \E x \in T : \A y \in T : x <= y
<1>1. PICK x \in T : \A y \in T : ~(<<y, x>> \in OpToRel(<, Nat))
  BY WFMin, NatLessThanWellFounded, Zenon
<1>2. ASSUME NEW y \in T PROVE x <= y
  <2>1. x \in Nat /\ y \in Nat
    OBVIOUS
  <2>2. ~(<<y, x>> \in {ss \in Nat \X Nat : ss[1] < ss[2]})
    BY <1>1 DEF OpToRel
  <2>3. <<y, x>> \in Nat \X Nat
    BY <2>1
  <2>4. ~(<<y, x>>[1] < <<y, x>>[2])
    BY <2>2, <2>3, Zenon
  <2> QED BY <2>1, <2>4
<1> QED BY <1>2

\* A set that has 0 and the successor of each of its numbers has all numbers.
LEMMA Induction ==
  ASSUME NEW S, 0 \in S, \A n \in Nat : n \in S => n + 1 \in S
  PROVE  Nat \subseteq S
<1> SUFFICES ASSUME Nat \ S # {} PROVE FALSE
  OBVIOUS
<1>1. PICK x \in Nat \ S : \A y \in Nat \ S : x <= y
  BY LeastNumber
<1>2. x # 0 /\ x - 1 \in Nat
  BY <1>1
<1>3. x - 1 \in S
  BY <1>1, <1>2
<1> QED BY <1>1, <1>2, <1>3

\* A function defined by its first value and by each value from the one before.
Recursive(f, m, n, V, base, step) ==
  /\ f \in [m..n -> V]
  /\ f[m] = base
  /\ \A i \in (m + 1)..n : f[i] = step[i][f[i - 1]]

\* There is such a function, for any steps.
LEMMA Recursion ==
  ASSUME NEW m \in Nat, NEW n \in Nat, m <= n, NEW V, NEW base \in V,
         NEW step \in [(m + 1)..n -> [V -> V]]
  PROVE  \E f : Recursive(f, m, n, V, base, step)
<1> DEFINE S == {k \in Nat : m + k <= n => \E f : Recursive(f, m, m + k, V, base, step)}
<1>1. 0 \in S
  <2>1. Recursive([i \in m..m |-> base], m, m, V, base, step)
    BY DEF Recursive
  <2> QED BY <2>1
<1>2. ASSUME NEW k \in Nat, k \in S, m + (k + 1) <= n
      PROVE  \E f : Recursive(f, m, m + (k + 1), V, base, step)
  <2>1. PICK f : Recursive(f, m, m + k, V, base, step)
    BY <1>2
  <2> DEFINE last == m + (k + 1)
             value == step[last][f[last - 1]]
             g == [i \in m..last |-> IF i = last THEN value ELSE f[i]]
  <2>2. last \in (m + 1)..n /\ last - 1 \in m..(m + k) /\ last - 1 = m + k
    BY <1>2
  <2>3. f[last - 1] \in V
    BY <2>1, <2>2 DEF Recursive
  <2>4. value \in V
    BY <2>2, <2>3
  <2>5. g \in [m..last -> V]
    BY <2>1, <2>2, <2>4 DEF Recursive
  <2>6. g[m] = base
    BY <2>1, <2>2 DEF Recursive
  <2>7. ASSUME NEW i \in (m + 1)..last PROVE g[i] = step[i][g[i - 1]]
    <3>1. i - 1 \in m..(m + k) /\ g[i - 1] = f[i - 1]
      BY <2>2
    <3>2. CASE i = last
      BY <3>1, <3>2
    <3>3. CASE i # last
      <4>1. i \in (m + 1)..(m + k) /\ g[i] = f[i]
        BY <2>2, <3>3
      <4> QED BY <2>1, <3>1, <4>1 DEF Recursive
    <3> QED BY <3>2, <3>3
  <2>8. Recursive(g, m, last, V, base, step)
    BY <2>5, <2>6, <2>7 DEF Recursive
  <2> QED BY <2>8
<1>3. \A k \in Nat : k \in S => k + 1 \in S
  BY <1>2
<1>4. n - m \in S
  <2> HIDE DEF S
  <2> QED BY <1>1, <1>3, Induction
<1> QED BY <1>4

-----------------------------------------------------------------------------
(***************************************************************************)
(* gcd                                                                     *)
(***************************************************************************)
\* g is gcd for first arguments up to n.
GcdUpTo(g, n) ==
  /\ g \in [0..n -> [Nat -> Nat]]
  /\ \A a \in 0..n, b \in Nat : g[a][b] = IF a = 0 THEN b ELSE g[b % a][a]

\* The recursion goes down.
LEMMA GcdGoesDown ==
  ASSUME NEW a \in Nat \ {0}, NEW b \in Nat
  PROVE  b % a \in 0..(a - 1)
OBVIOUS

\* There is a divisor function as far as any number...
LEMMA GcdUpToExists == \A n \in Nat : \E g : GcdUpTo(g, n)
<1> DEFINE S == {n \in Nat : \E g : GcdUpTo(g, n)}
<1>1. 0 \in S
  <2>1. GcdUpTo([a \in 0..0 |-> [b \in Nat |-> b]], 0)
    BY DEF GcdUpTo
  <2> QED BY <2>1
<1>2. ASSUME NEW n \in Nat, n \in S PROVE n + 1 \in S
  <2>1. PICK g : GcdUpTo(g, n)
    BY <1>2
  <2> DEFINE top == [b \in Nat |-> g[b % (n + 1)][n + 1]]
             h == [a \in 0..(n + 1) |-> IF a = n + 1 THEN top ELSE g[a]]
  <2>2. top \in [Nat -> Nat]
    <3>1. ASSUME NEW b \in Nat PROVE g[b % (n + 1)][n + 1] \in Nat
      <4>1. b % (n + 1) \in 0..n
        BY GcdGoesDown, n + 1 \in Nat \ {0}
      <4>2. g[b % (n + 1)] \in [Nat -> Nat]
        BY <2>1, <4>1 DEF GcdUpTo
      <4> QED BY <4>2, n + 1 \in Nat
    <3> QED BY <3>1
  <2>3. h \in [0..(n + 1) -> [Nat -> Nat]]
    <3> HIDE DEF top
    <3>1. ASSUME NEW a \in 0..n PROVE g[a] \in [Nat -> Nat]
      BY <2>1 DEF GcdUpTo
    <3>2. ASSUME NEW a \in 0..(n + 1) PROVE (IF a = n + 1 THEN top ELSE g[a]) \in [Nat -> Nat]
      BY <2>2, <3>1
    <3> QED BY <3>2
  <2>4. ASSUME NEW a \in 0..(n + 1), NEW b \in Nat
        PROVE  h[a][b] = IF a = 0 THEN b ELSE h[b % a][a]
    <3>1. CASE a = 0
      <4>1. h[a] = g[a] /\ a \in 0..n
        BY <3>1
      <4> QED BY <2>1, <3>1, <4>1 DEF GcdUpTo
    <3>2. CASE a # 0
      <4>1. b % a \in 0..(a - 1)
        BY <3>2, GcdGoesDown
      <4>2. b % a \in 0..n /\ b % a # n + 1
        BY <4>1
      <4>3. h[b % a] = g[b % a]
        BY <4>2
      <4>4. CASE a = n + 1
        <5>1. h[a] = top
          BY <4>4
        <5> QED BY <3>2, <4>3, <4>4, <5>1
      <4>5. CASE a # n + 1
        <5>1. a \in 0..n /\ h[a] = g[a]
          BY <4>5
        <5> QED BY <2>1, <3>2, <4>3, <5>1 DEF GcdUpTo
      <4> QED BY <4>4, <4>5
    <3> QED BY <3>1, <3>2
  <2>5. GcdUpTo(h, n + 1)
    <3> HIDE DEF h
    <3> QED BY <2>3, <2>4 DEF GcdUpTo
  <2> HIDE DEF h
  <2> QED BY <2>5
<1> HIDE DEF S
<1>3. Nat \subseteq S
  BY <1>1, <1>2, Induction
<1> QED BY <1>3 DEF S

\* ... and they agree where both are defined.
LEMMA GcdUpToUnique ==
  ASSUME NEW n \in Nat, NEW m \in Nat, NEW g, NEW h, GcdUpTo(g, n), GcdUpTo(h, m)
  PROVE  \A a \in (0..n) \cap (0..m) : g[a] = h[a]
<1> DEFINE T == {a \in (0..n) \cap (0..m) : g[a] # h[a]}
<1> SUFFICES ASSUME T # {} PROVE FALSE
  OBVIOUS
<1>1. PICK a \in T : \A c \in T : a <= c
  <2>1. T \in SUBSET Nat
    OBVIOUS
  <2> HIDE DEF T
  <2> QED BY <2>1, LeastNumber
<1>2. a \in 0..n /\ a \in 0..m /\ a \in Nat /\ g[a] # h[a]
  BY <1>1
<1>3. g[a] \in [Nat -> Nat] /\ h[a] \in [Nat -> Nat]
  BY <1>2 DEF GcdUpTo
<1>4. ASSUME NEW b \in Nat PROVE g[a][b] = h[a][b]
  <2>1. CASE a = 0
    BY <1>2, <2>1 DEF GcdUpTo
  <2>2. CASE a # 0
    <3>1. b % a \in 0..(a - 1)
      BY <1>2, <2>2, GcdGoesDown
    <3>2. b % a \in (0..n) \cap (0..m) /\ b % a < a
      BY <1>2, <3>1
    <3>3. g[b % a] = h[b % a]
      BY <1>1, <1>2, <3>2
    <3>4. g[a][b] = g[b % a][a] /\ h[a][b] = h[b % a][a]
      BY <1>2, <2>2 DEF GcdUpTo
    <3> QED BY <3>3, <3>4
  <2> QED BY <2>1, <2>2
<1>5. g[a] = h[a]
  <2>1. g[a] = [b \in Nat |-> g[a][b]] /\ h[a] = [b \in Nat |-> h[a][b]]
    BY <1>3
  <2> QED BY <1>4, <2>1
<1> QED BY <1>2, <1>5

\* gcd is what its definition says.
LEMMA GcdEquation ==
  /\ gcd \in [Nat -> [Nat -> Nat]]
  /\ \A a, b \in Nat : gcd[a][b] = IF a = 0 THEN b ELSE gcd[b % a][a]
<1> DEFINE part(n) == CHOOSE g : GcdUpTo(g, n)
           f == [a \in Nat |-> part(a)[a]]
           F(x) == [a \in Nat |-> [b \in Nat |-> IF a = 0 THEN b ELSE x[b % a][a]]]
<1>1. ASSUME NEW n \in Nat PROVE GcdUpTo(part(n), n)
  BY GcdUpToExists
<1> HIDE DEF part
<1>2. ASSUME NEW a \in Nat
      PROVE  /\ f[a] = part(a)[a] /\ f[a] \in [Nat -> Nat]
             /\ \A b \in Nat : f[a][b] = IF a = 0 THEN b ELSE part(a)[b % a][a]
  <2>1. GcdUpTo(part(a), a) /\ a \in 0..a /\ f[a] = part(a)[a]
    BY <1>1
  <2> HIDE DEF f
  <2> QED BY <2>1 DEF GcdUpTo
<1>3. ASSUME NEW a \in Nat, NEW b \in Nat
      PROVE  f[a][b] = IF a = 0 THEN b ELSE f[b % a][a]
  <2>1. CASE a = 0
    BY <1>2, <2>1
  <2>2. CASE a # 0
    <3>1. b % a \in 0..(a - 1)
      BY <2>2, GcdGoesDown
    <3>2. b % a \in Nat /\ b % a \in (0..a) \cap (0..(b % a))
      BY <3>1
    <3>3. part(a)[b % a] = part(b % a)[b % a]
      BY <1>1, <3>2, GcdUpToUnique
    <3>4. f[a][b] = part(a)[b % a][a] /\ f[b % a] = part(b % a)[b % a]
      BY <1>2, <2>2, <3>2
    <3> HIDE DEF f
    <3> QED BY <2>2, <3>3, <3>4
  <2> QED BY <2>1, <2>2
<1>4. f \in [Nat -> [Nat -> Nat]]
  BY <1>2
<1> HIDE DEF f
<1>5. f = F(f)
  <2>1. ASSUME NEW a \in Nat PROVE f[a] = F(f)[a]
    <3>1. f[a] = [b \in Nat |-> f[a][b]]
      BY <1>4
    <3> QED BY <1>3, <3>1
  <2> QED BY <1>4, <2>1
<1>6. gcd = F(gcd)
  <2>1. gcd = CHOOSE x : x = F(x)
    BY DEF gcd
  <2>2. \E x : x = F(x)
    BY <1>5, Zenon
  <2> HIDE DEF F
  <2> QED BY <2>1, <2>2
<1> HIDE DEF F
<1>7. ASSUME NEW a \in Nat, NEW b \in Nat
      PROVE  gcd[a][b] = IF a = 0 THEN b ELSE gcd[b % a][a]
  BY <1>6 DEF F
<1>8. DOMAIN gcd = Nat /\ gcd = [a \in Nat |-> gcd[a]]
  BY <1>6 DEF F
<1>9. ASSUME NEW a \in Nat PROVE gcd[a] = [b \in Nat |-> gcd[a][b]]
  BY <1>6 DEF F
<1> DEFINE T == {a \in Nat : gcd[a] \notin [Nat -> Nat]}
<1>10. T = {}
  <2> SUFFICES ASSUME T # {} PROVE FALSE
    OBVIOUS
  <2>1. PICK a \in T : \A c \in T : a <= c
    BY LeastNumber, T \in SUBSET Nat
  <2>2. a \in Nat /\ gcd[a] \notin [Nat -> Nat]
    BY <2>1
  <2>3. ASSUME NEW b \in Nat PROVE gcd[a][b] \in Nat
    <3>1. CASE a = 0
      BY <1>7, <2>2, <3>1
    <3>2. CASE a # 0
      <4>1. b % a \in 0..(a - 1)
        BY <2>2, <3>2, GcdGoesDown
      <4>2. gcd[b % a] \in [Nat -> Nat]
        BY <2>1, <2>2, <4>1
      <4> QED BY <1>7, <2>2, <3>2, <4>2
    <3> QED BY <3>1, <3>2
  <2> QED BY <1>9, <2>2, <2>3
<1>11. ASSUME NEW a \in Nat PROVE gcd[a] \in [Nat -> Nat]
  BY <1>10
<1> QED BY <1>7, <1>8, <1>11

Divides(d, n) == \E k \in Nat : n = d * k

\* The recursion keeps common divisors.
LEMMA DividesRemainder ==
  ASSUME NEW a \in Nat \ {0}, NEW b \in Nat, NEW d \in Nat, Divides(d, a), Divides(d, b % a)
  PROVE  Divides(d, b)
<1> DEFINE q == b \div a
           r == b % a
<1>1. q \in Nat /\ r \in Nat /\ b = a * q + r
  OBVIOUS
<1> HIDE DEF q, r
<1>2. PICK k \in Nat : a = d * k
  BY DEF Divides
<1>3. PICK l \in Nat : r = d * l
  BY DEF Divides, r
<1>4. b = d * (k * q + l) /\ k * q + l \in Nat
  BY <1>1, <1>2, <1>3
<1> QED BY <1>4 DEF Divides

\* A divisor of a divisor is a divisor.
LEMMA DividesTransitive ==
  ASSUME NEW c \in Nat, NEW d \in Nat, NEW n \in Nat, Divides(c, d), Divides(d, n)
  PROVE  Divides(c, n)
<1>1. PICK k \in Nat : d = c * k
  BY DEF Divides
<1>2. PICK l \in Nat : n = d * l
  BY DEF Divides
<1>3. n = c * (k * l) /\ k * l \in Nat
  BY <1>1, <1>2
<1> QED BY <1>3 DEF Divides

\* What divides two numbers divides their sum.
LEMMA DividesSum ==
  ASSUME NEW d \in Nat, NEW m \in Nat, NEW n \in Nat, Divides(d, m), Divides(d, n)
  PROVE  Divides(d, m + n)
<1>1. PICK k \in Nat : m = d * k
  BY DEF Divides
<1>2. PICK l \in Nat : n = d * l
  BY DEF Divides
<1>3. m + n = d * (k + l) /\ k + l \in Nat
  BY <1>1, <1>2
<1> QED BY <1>3 DEF Divides

\* gcd divides both its arguments.
LEMMA GcdDivides ==
  ASSUME NEW b \in Nat, NEW a \in Nat \ {0}
  PROVE  /\ gcd[a][b] \in Nat \ {0}
         /\ Divides(gcd[a][b], a) /\ Divides(gcd[a][b], b)
<1> DEFINE Right(x, y) == /\ gcd[x][y] \in Nat \ {0}
                          /\ Divides(gcd[x][y], x) /\ Divides(gcd[x][y], y)
           T == {x \in Nat : x # 0 /\ \E y \in Nat : ~Right(x, y)}
<1>1. T = {}
  <2> SUFFICES ASSUME T # {} PROVE FALSE
    OBVIOUS
  <2>1. PICK x \in T : \A z \in T : x <= z
    BY LeastNumber, T \in SUBSET Nat
  <2>2. PICK y \in Nat : ~Right(x, y)
    BY <2>1
  <2>3. x \in Nat \ {0}
    BY <2>1
  <2> DEFINE r == y % x
  <2>4. r \in 0..(x - 1) /\ r \in Nat
    <3>1. y % x \in 0..(x - 1)
      BY <2>3, GcdGoesDown
    <3> HIDE DEF T
    <3> QED BY <2>3, <3>1
  <2>5. gcd[x][y] = gcd[r][x]
    BY <2>3, GcdEquation
  <2>6. CASE r = 0
    <3>1. gcd[x][y] = x
      BY <2>3, <2>4, <2>5, <2>6, GcdEquation
    <3>2. Divides(x, x) /\ Divides(x, r)
      BY <2>3, <2>6 DEF Divides
    <3>3. Divides(x, y)
      BY <2>3, <3>2, DividesRemainder
    <3> QED BY <2>2, <2>3, <3>1, <3>2, <3>3
  <2>7. CASE r # 0
    <3>1. r \notin T
      BY <2>1, <2>3, <2>4
    <3>2. Right(r, x)
      BY <2>3, <2>4, <2>7, <3>1
    <3>3. /\ gcd[x][y] \in Nat \ {0}
          /\ Divides(gcd[x][y], x) /\ Divides(gcd[x][y], r)
      BY <2>5, <3>2
    <3>4. Divides(gcd[x][y], y)
      BY <2>3, <3>3, DividesRemainder
    <3> QED BY <2>2, <3>3, <3>4
  <2> QED BY <2>6, <2>7
<1> QED BY <1>1

-----------------------------------------------------------------------------
(***************************************************************************)
(* The period and the ends of the intervals.                               *)
(***************************************************************************)
Schedules == Seq(Definitions) \ {<<>>}

\* The durations of a schedule are numbers from 1 on.
LEMMA Durations ==
  ASSUME NEW s \in Schedules
  PROVE  /\ Len(s) \in Nat \ {0}
         /\ \A i \in 1..Len(s) : s[i].duration \in Nat \ {0} /\ s[i].value \in Nat
<1>1. s \in Seq(Definitions) /\ s # <<>>
  BY DEF Schedules
<1>2. Len(s) \in Nat \ {0}
  BY <1>1
<1>3. ASSUME NEW i \in 1..Len(s)
      PROVE  s[i].duration \in Nat \ {0} /\ s[i].value \in Nat
  <2>1. s[i] \in Definitions
    BY <1>1
  <2> QED BY <2>1 DEF Definitions
<1> QED BY <1>2, <1>3

\* The updates are due at every end of an interval: the period divides every
\* duration.
LEMMA PeriodDivides ==
  ASSUME NEW s \in Schedules
  PROVE  /\ Period(s) \in Nat \ {0}
         /\ \A i \in 1..Len(s) : Divides(Period(s), s[i].duration)
<1> DEFINE n == Len(s)
           F(x) == [i \in 1..n |->
                      IF i = 1 THEN s[1].duration ELSE gcd[s[i].duration][x[i - 1]]]
           of == CHOOSE x : x = F(x)
           step == [i \in 2..n |-> [b \in Nat |-> gcd[s[i].duration][b]]]
<1>1. n \in Nat \ {0} /\ \A i \in 1..n : s[i].duration \in Nat \ {0}
  BY Durations
<1> HIDE DEF n
<1>2. Period(s) = of[n]
  BY DEF Period, n
<1>3. step \in [(1 + 1)..n -> [Nat -> Nat]]
  <2>1. ASSUME NEW i \in 2..n, NEW b \in Nat PROVE gcd[s[i].duration][b] \in Nat
    <3>1. s[i].duration \in Nat
      BY <1>1
    <3> QED BY <3>1, GcdEquation
  <2>2. 1 + 1 = 2
    OBVIOUS
  <2> QED BY <2>1, <2>2
<1>4. PICK f : Recursive(f, 1, n, Nat, s[1].duration, step)
  <2>1. 1 \in Nat /\ 1 <= n /\ n \in Nat /\ s[1].duration \in Nat
    BY <1>1
  <2> HIDE DEF step
  <2> QED BY <1>3, <2>1, Recursion
<1>5. f = F(f)
  <2>1. f \in [1..n -> Nat]
    BY <1>4 DEF Recursive
  <2>2. ASSUME NEW i \in 1..n PROVE f[i] = F(f)[i]
    <3>1. CASE i = 1
      BY <1>4, <3>1 DEF Recursive
    <3>2. CASE i # 1
      <4>1. i \in (1 + 1)..n /\ i - 1 \in 1..n
        BY <1>1, <3>2
      <4>2. f[i] = step[i][f[i - 1]] /\ f[i - 1] \in Nat
        BY <1>4, <2>1, <4>1 DEF Recursive
      <4> QED BY <3>2, <4>1, <4>2
    <3> QED BY <3>1, <3>2
  <2> QED BY <2>1, <2>2
<1>6. of = F(of)
  <2> HIDE DEF F
  <2> QED BY <1>5
<1> HIDE DEF of
<1>7. /\ of[1] = s[1].duration
      /\ \A i \in 2..n : of[i] = gcd[s[i].duration][of[i - 1]]
  BY <1>1, <1>6
<1> DEFINE Good(i) == /\ of[i] \in Nat \ {0}
                      /\ \A j \in 1..i : Divides(of[i], s[j].duration)
           S == {k \in Nat : k + 1 <= n => Good(k + 1)}
<1>8. 0 \in S
  <2>1. s[1].duration \in Nat \ {0} /\ Divides(s[1].duration, s[1].duration)
    BY <1>1 DEF Divides
  <2> QED BY <1>7, <2>1
<1>9. ASSUME NEW k \in Nat, k \in S, (k + 1) + 1 <= n PROVE Good((k + 1) + 1)
  <2> DEFINE i == (k + 1) + 1
             d == s[i].duration
  <2>1. Good(k + 1) /\ i \in 2..n /\ i - 1 = k + 1
    BY <1>1, <1>9
  <2>2. of[i] = gcd[d][of[k + 1]] /\ d \in Nat \ {0} /\ of[k + 1] \in Nat
    BY <1>1, <1>7, <2>1
  <2>3. of[i] \in Nat \ {0} /\ Divides(of[i], d) /\ Divides(of[i], of[k + 1])
    BY <2>2, GcdDivides
  <2>4. ASSUME NEW j \in 1..i PROVE Divides(of[i], s[j].duration)
    <3>1. CASE j = i
      BY <2>3, <3>1
    <3>2. CASE j # i
      <4>1. j \in 1..(k + 1) /\ j \in 1..n
        BY <1>1, <2>1, <3>2
      <4>2. Divides(of[k + 1], s[j].duration) /\ s[j].duration \in Nat
        BY <1>1, <2>1, <4>1
      <4> QED BY <2>2, <2>3, <4>2, DividesTransitive
    <3> QED BY <3>1, <3>2
  <2> QED BY <2>3, <2>4
<1>10. n - 1 \in S
  <2>1. \A k \in Nat : k \in S => k + 1 \in S
    BY <1>9
  <2> HIDE DEF S
  <2> QED BY <1>1, <1>8, <2>1, Induction
<1>11. Good(n)
  BY <1>1, <1>10
<1> QED BY <1>2, <1>11 DEF n

\* Every interval ends its duration after the one before.
LEMMA EndEquation ==
  ASSUME NEW s \in Schedules
  PROVE  /\ End(s, 0) = 0
         /\ \A i \in 0..Len(s) : End(s, i) \in Nat
         /\ \A i \in 1..Len(s) : End(s, i) = End(s, i - 1) + s[i].duration
<1> DEFINE n == Len(s)
           F(x) == [j \in 0..n |-> IF j = 0 THEN 0 ELSE x[j - 1] + s[j].duration]
           end == CHOOSE x : x = F(x)
           step == [j \in 1..n |-> [b \in Nat |-> b + s[j].duration]]
<1>1. n \in Nat \ {0} /\ \A i \in 1..n : s[i].duration \in Nat \ {0}
  BY Durations
<1> HIDE DEF n
<1>2. \A i : End(s, i) = end[i]
  BY DEF End, n
<1>3. step \in [(0 + 1)..n -> [Nat -> Nat]]
  <2>1. ASSUME NEW j \in 1..n, NEW b \in Nat PROVE b + s[j].duration \in Nat
    BY <1>1
  <2>2. 0 + 1 = 1
    OBVIOUS
  <2> QED BY <2>1, <2>2
<1>4. PICK f : Recursive(f, 0, n, Nat, 0, step)
  <2>1. 0 \in Nat /\ 0 <= n /\ n \in Nat
    BY <1>1
  <2> HIDE DEF step
  <2> QED BY <1>3, <2>1, Recursion
<1>5. f = F(f)
  <2>1. f \in [0..n -> Nat]
    BY <1>4 DEF Recursive
  <2>2. ASSUME NEW i \in 0..n PROVE f[i] = F(f)[i]
    <3>1. CASE i = 0
      BY <1>4, <3>1 DEF Recursive
    <3>2. CASE i # 0
      <4>1. i \in (0 + 1)..n /\ i - 1 \in 0..n
        BY <1>1, <3>2
      <4>2. f[i] = step[i][f[i - 1]] /\ f[i - 1] \in Nat
        BY <1>4, <2>1, <4>1 DEF Recursive
      <4> QED BY <3>2, <4>1, <4>2
    <3> QED BY <3>1, <3>2
  <2> QED BY <2>1, <2>2
<1>6. end = F(end)
  <2> HIDE DEF F
  <2> QED BY <1>5
<1> HIDE DEF end
<1>7. end[0] = 0 /\ \A i \in 1..n : end[i] = end[i - 1] + s[i].duration
  BY <1>1, <1>6
<1> DEFINE S == {k \in Nat : k <= n => end[k] \in Nat}
<1>8. ASSUME NEW k \in Nat, k \in S, k + 1 <= n PROVE end[k + 1] \in Nat
  <2>1. k + 1 \in 1..n /\ (k + 1) - 1 = k /\ end[k] \in Nat
    BY <1>1, <1>8
  <2> QED BY <1>1, <1>7, <2>1
<1>9. Nat \subseteq S
  <2>1. 0 \in S
    BY <1>7
  <2>2. \A k \in Nat : k \in S => k + 1 \in S
    BY <1>8
  <2> HIDE DEF S
  <2> QED BY <2>1, <2>2, Induction
<1>10. \A i \in 0..n : end[i] \in Nat
  BY <1>1, <1>9
<1> QED BY <1>2, <1>7, <1>10 DEF n

\* The ends are in order and multiples of the period.
LEMMA EndOrder ==
  ASSUME NEW s \in Schedules, NEW j \in 0..Len(s)
  PROVE  /\ Divides(Period(s), End(s, j))
         /\ \A i \in 0..j : End(s, i) <= End(s, j)
         /\ j # 0 => End(s, j) # 0
<1> DEFINE n == Len(s)
           Good(k) == /\ Divides(Period(s), End(s, k))
                      /\ \A i \in 0..k : End(s, i) <= End(s, k)
                      /\ k # 0 => End(s, k) # 0
           S == {k \in Nat : k <= n => Good(k)}
<1>1. n \in Nat \ {0} /\ \A i \in 1..n : s[i].duration \in Nat \ {0}
  BY Durations
<1>2. /\ Period(s) \in Nat /\ End(s, 0) = 0
      /\ \A i \in 1..n : Divides(Period(s), s[i].duration)
      /\ \A i \in 0..n : End(s, i) \in Nat
      /\ \A i \in 1..n : End(s, i) = End(s, i - 1) + s[i].duration
  BY PeriodDivides, EndEquation
<1> HIDE DEF n
<1>3. 0 \in S
  BY <1>2 DEF Divides
<1>4. ASSUME NEW k \in Nat, k \in S, k + 1 <= n PROVE Good(k + 1)
  <2>1. k + 1 \in 1..n /\ (k + 1) - 1 = k /\ k \in 0..n /\ Good(k)
    BY <1>1, <1>4
  <2>2. /\ End(s, k + 1) = End(s, k) + s[k + 1].duration
        /\ s[k + 1].duration \in Nat \ {0} /\ End(s, k) \in Nat
        /\ Divides(Period(s), s[k + 1].duration)
    BY <1>1, <1>2, <2>1
  <2>3. Divides(Period(s), End(s, k + 1))
    BY <1>2, <2>1, <2>2, DividesSum
  <2>4. ASSUME NEW i \in 0..(k + 1) PROVE End(s, i) <= End(s, k + 1)
    <3>1. CASE i = k + 1
      BY <2>2, <3>1
    <3>2. CASE i # k + 1
      <4>1. i \in 0..k /\ i \in 0..n
        BY <1>1, <2>1, <3>2
      <4> QED BY <1>2, <2>1, <2>2, <4>1
    <3> QED BY <3>1, <3>2
  <2>5. End(s, k + 1) # 0
    BY <2>2
  <2> QED BY <2>3, <2>4, <2>5
<1>5. Nat \subseteq S
  <2>1. \A k \in Nat : k \in S => k + 1 \in S
    BY <1>4
  <2> HIDE DEF S
  <2> QED BY <1>3, <2>1, Induction
<1> QED BY <1>1, <1>5 DEF n

\* Every moment of a cycle is in one interval...
LEMMA InSomeInterval ==
  ASSUME NEW s \in Schedules, NEW t \in Nat, t < End(s, Len(s))
  PROVE  \E i \in 1..Len(s) : IsIn(s, i, t)
<1> DEFINE T == {k \in 0..Len(s) : t < End(s, k)}
<1>1. /\ Len(s) \in Nat \ {0} /\ End(s, 0) = 0 /\ \A k \in 0..Len(s) : End(s, k) \in Nat
  BY Durations, EndEquation
<1>2. PICK i \in T : \A k \in T : i <= k
  <2>1. T \in SUBSET Nat /\ Len(s) \in T
    BY <1>1
  <2> HIDE DEF T
  <2> QED BY <2>1, LeastNumber
<1>3. i \in 1..Len(s) /\ i - 1 \in 0..Len(s) /\ i - 1 \notin T
  BY <1>1, <1>2
<1>4. End(s, i - 1) <= t /\ t < End(s, i)
  BY <1>1, <1>2, <1>3
<1> QED BY <1>3, <1>4 DEF IsIn

\* ... and in no other.
LEMMA InOneInterval ==
  ASSUME NEW s \in Schedules, NEW t \in Nat, NEW i \in 1..Len(s), NEW j \in 1..Len(s),
         IsIn(s, i, t), IsIn(s, j, t)
  PROVE  i = j
<1>1. /\ Len(s) \in Nat /\ \A k \in 0..Len(s) : End(s, k) \in Nat
  BY Durations, EndEquation
<1>2. ASSUME NEW k \in 1..Len(s), NEW l \in 1..Len(s), IsIn(s, k, t), IsIn(s, l, t), k < l
      PROVE  FALSE
  <2>1. k \in 0..(l - 1) /\ l - 1 \in 0..Len(s) /\ k \in 0..Len(s)
    BY <1>1, <1>2
  <2>2. End(s, k) <= End(s, l - 1)
    BY <2>1, EndOrder
  <2>3. End(s, k) \in Nat /\ End(s, l - 1) \in Nat
    BY <1>1, <2>1
  <2>4. t < End(s, k) /\ End(s, l - 1) <= t
    BY <1>2 DEF IsIn
  <2> QED BY <2>2, <2>3, <2>4
<1> QED BY <1>1, <1>2

\* updateValueIfNecessary sets the value of the interval the time is in.
LEMMA ValueOfInterval ==
  ASSUME NEW s \in Schedules, NEW t \in Nat, NEW current, NEW i \in 1..Len(s),
         IsIn(s, i, t % End(s, Len(s)))
  PROVE  ValueOf(s, t, current) = s[i].value
<1> DEFINE e == t % End(s, Len(s))
           first(k) == IsIn(s, k, e) /\ \A j \in 1..(k - 1) : ~IsIn(s, j, e)
<1>1. Len(s) \in Nat \ {0} /\ End(s, Len(s)) \in Nat \ {0}
  BY Durations, EndEquation, EndOrder
<1>2. e \in Nat
  BY <1>1
<1>3. \A k \in 1..Len(s) : IsIn(s, k, e) => k = i
  <2> HIDE DEF e
  <2> QED BY <1>2, InOneInterval DEF e
<1>4. first(i)
  <2>1. ASSUME NEW j \in 1..(i - 1) PROVE ~IsIn(s, j, e)
    <3>1. j \in 1..Len(s) /\ j # i
      BY <1>1
    <3> QED BY <1>3, <3>1
  <2> QED BY <2>1
<1>5. (CHOOSE k \in 1..Len(s) : first(k)) = i
  <2>1. \A k \in 1..Len(s) : first(k) => k = i
    BY <1>3
  <2> HIDE DEF first
  <2> QED BY <1>4, <2>1
<1>6. ValueOf(s, t, current) =
        IF \E k \in 1..Len(s) : first(k)
          THEN s[CHOOSE k \in 1..Len(s) : first(k)].value
          ELSE current
  BY DEF ValueOf
<1> HIDE DEF first
<1> QED BY <1>4, <1>5, <1>6

\* Within a period nothing changes: a late update still finds the value that was
\* due, as long as the next update is not due.
LEMMA SamePeriod ==
  ASSUME NEW s \in Schedules, NEW k \in Nat, NEW t \in Nat, NEW u \in Nat,
         Period(s) * k <= t, t < Period(s) * (k + 1),
         Period(s) * k <= u, u < Period(s) * (k + 1),
         NEW i \in 1..Len(s), IsIn(s, i, t % End(s, Len(s)))
  PROVE  IsIn(s, i, u % End(s, Len(s)))
<1> DEFINE P == Period(s)
           E == End(s, Len(s))
<1>1. /\ Len(s) \in Nat \ {0} /\ P \in Nat \ {0} /\ E \in Nat \ {0}
      /\ i - 1 \in 0..Len(s) /\ i \in 0..Len(s)
  <2>1. Len(s) \in Nat \ {0} /\ P \in Nat \ {0}
    BY Durations, PeriodDivides
  <2>2. Len(s) \in 0..Len(s) /\ i - 1 \in 0..Len(s) /\ i \in 0..Len(s)
    BY <2>1
  <2>3. E \in Nat \ {0}
    BY <2>1, <2>2, EndEquation, EndOrder
  <2> QED BY <2>1, <2>2, <2>3
<1>ends. Divides(P, E) /\ Divides(P, End(s, i - 1)) /\ Divides(P, End(s, i))
  <2>1. Len(s) \in 0..Len(s)
    BY <1>1
  <2> QED BY <1>1, <2>1, EndOrder
<1>2. PICK m \in Nat : E = P * m
  BY <1>ends DEF Divides
<1>3. PICK a \in Nat : End(s, i - 1) = P * a
  BY <1>ends DEF Divides
<1>4. PICK b \in Nat : End(s, i) = P * b
  BY <1>ends DEF Divides
<1> HIDE DEF P, E
<1>5. m # 0
  BY <1>1, <1>2
<1> DEFINE q == k \div m
           r == k % m
<1>6. q \in Nat /\ r \in 0..(m - 1) /\ k = m * q + r
  BY <1>5
<1> HIDE DEF q, r
<1>7. ASSUME NEW v \in Nat, P * k <= v, v < P * (k + 1)
      PROVE  v % E = P * r + (v - P * k) /\ v - P * k \in 0..(P - 1)
  <2> DEFINE d == v - P * k
  <2>1. P * (k + 1) = P * k + P /\ P * k \in Nat
    BY <1>1
  <2>2. d \in 0..(P - 1)
    BY <1>1, <1>7, <2>1
  <2>3. P * k = E * q + P * r
    BY <1>1, <1>2, <1>6
  <2>4. P * r + P <= E /\ P * r \in Nat
    <3>1. m - (r + 1) \in Nat /\ m = (r + 1) + (m - (r + 1))
      BY <1>6
    <3>2. P * m = (P * r + P) + P * (m - (r + 1)) /\ P * (m - (r + 1)) \in Nat
      BY <1>1, <1>6, <3>1
    <3>3. P * r \in Nat
      BY <1>1, <1>6
    <3> QED BY <1>1, <1>2, <3>2, <3>3
  <2>5. P * r + d \in 0..(E - 1) /\ v = E * q + (P * r + d)
    <3>1. E * q \in Nat /\ v = P * k + d
      BY <1>1, <1>6, <2>1
    <3>2. \A x, y \in Nat, w \in 0..(P - 1) :
            x + P <= E => x + w \in 0..(E - 1) /\ (y + x) + w = y + (x + w)
      BY <1>1
    <3> HIDE DEF d
    <3>3. P * r + d \in 0..(E - 1) /\ (E * q + P * r) + d = E * q + (P * r + d)
      BY <2>2, <2>4, <3>1, <3>2, Zenon
    <3>4. v = (E * q + P * r) + d
      BY <2>3, <3>1, Zenon
    <3> QED BY <3>3, <3>4, Zenon
  <2>6. (E * q + (P * r + d)) % E = P * r + d
    BY <1>1, <1>6, <2>5, Remainder
  <2> QED BY <2>2, <2>5, <2>6
<1>8. /\ t % E = P * r + (t - P * k) /\ t - P * k \in 0..(P - 1)
      /\ u % E = P * r + (u - P * k) /\ u - P * k \in 0..(P - 1)
  BY <1>7 DEF P
<1>9. P * a <= t % E /\ t % E < P * b
  BY <1>3, <1>4 DEF IsIn, E
<1>10. P * a <= u % E
  <2>1. ASSUME a > r PROVE FALSE
    <3>1. P * a = (P * r + P) + P * (a - (r + 1)) /\ P * (a - (r + 1)) \in Nat /\ P * r \in Nat
      BY <1>1, <1>6, <2>1
    <3>2. \A x, z \in Nat, d \in 0..(P - 1) : ~((x + P) + z <= x + d)
      BY <1>1
    <3> QED BY <1>8, <1>9, <3>1, <3>2, Zenon
  <2>2. P * r = P * a + P * (r - a) /\ P * (r - a) \in Nat /\ P * a \in Nat
    BY <1>1, <1>6, <2>1
  <2>3. \A x, z \in Nat, d \in 0..(P - 1) : x <= (x + z) + d
    BY <1>1
  <2> QED BY <1>8, <2>2, <2>3, Zenon
<1>11. u % E < P * b
  <2>1. ASSUME b <= r PROVE FALSE
    <3>1. P * r = P * b + P * (r - b) /\ P * (r - b) \in Nat /\ P * b \in Nat
      BY <1>1, <1>6, <2>1
    <3>2. \A x, z \in Nat, d \in 0..(P - 1) : ~((x + z) + d < x)
      BY <1>1
    <3> QED BY <1>8, <1>9, <3>1, <3>2, Zenon
  <2>2. P * b = (P * r + P) + P * (b - (r + 1)) /\ P * (b - (r + 1)) \in Nat /\ P * r \in Nat
    BY <1>1, <1>6, <2>1
  <2>3. \A x, z \in Nat, d \in 0..(P - 1) : x + d < (x + P) + z
    BY <1>1
  <2> QED BY <1>8, <2>2, <2>3, Zenon
<1> QED BY <1>3, <1>4, <1>10, <1>11 DEF IsIn, E

-----------------------------------------------------------------------------
(***************************************************************************)
(* The schedule written out, one value for each unit of time.              *)
(***************************************************************************)
Runs(s) == [i \in DOMAIN s |-> [d \in 1..s[i].duration |-> s[i].value]]

\* Written out it is as long as a cycle, and has the value of an interval at each
\* moment of the interval.
LEMMA WrittenOut ==
  ASSUME NEW s \in Schedules
  PROVE  /\ FlattenSeq(Runs(s)) \in Seq(Nat)
         /\ Len(FlattenSeq(Runs(s))) = End(s, Len(s))
         /\ \A i \in 1..Len(s), x \in Nat :
              IsIn(s, i, x) => FlattenSeq(Runs(s))[x + 1] = s[i].value
<1> DEFINE n == Len(s)
           V == Seq(Nat)
           seqs == Runs(s)
           F(x) == [i \in 1..Len(seqs) |-> IF i = 1 THEN seqs[i] ELSE x[i - 1] \o seqs[i]]
           flatten == CHOOSE x : x = F(x)
           step == [i \in 2..n |-> [b \in V |-> b \o seqs[i]]]
<1>1. n \in Nat \ {0} /\ \A i \in 1..n : s[i].duration \in Nat \ {0} /\ s[i].value \in Nat
  BY Durations
<1>2. DOMAIN s = 1..n
  BY DEF Schedules
<1> HIDE DEF n
<1>3. ASSUME NEW i \in 1..n
      PROVE  /\ seqs[i] = [d \in 1..s[i].duration |-> s[i].value]
             /\ seqs[i] \in V /\ Len(seqs[i]) = s[i].duration
  <2>1. seqs[i] = [d \in 1..s[i].duration |-> s[i].value]
    BY <1>2 DEF Runs
  <2> HIDE DEF seqs
  <2> QED BY <1>1, <2>1
<1>runs. \A i \in 1..n : seqs[i] \in V
  BY <1>3
<1>4. seqs \in Seq(V) /\ Len(seqs) = n
  <2>1. seqs = [i \in 1..n |-> seqs[i]]
    BY <1>2 DEF Runs
  <2> HIDE DEF seqs, V
  <2> QED BY <1>1, <1>3, <2>1
<1>5. FlattenSeq(seqs) = flatten[n]
  BY <1>1, <1>4 DEF FlattenSeq
<1> HIDE DEF seqs
<1>6. step \in [(1 + 1)..n -> [V -> V]]
  <2>1. ASSUME NEW i \in 2..n, NEW b \in V PROVE b \o seqs[i] \in V
    <3>1. i \in 1..n
      BY <1>1
    <3> QED BY <1>runs, <3>1, ConcatProperties
  <2>2. 1 + 1 = 2
    OBVIOUS
  <2> HIDE DEF V
  <2> QED BY <2>1, <2>2
<1>7. PICK f : Recursive(f, 1, n, V, seqs[1], step)
  <2>1. 1 \in Nat /\ 1 <= n /\ n \in Nat /\ seqs[1] \in V
    <3> HIDE DEF V
    <3> QED BY <1>1, <1>runs
  <2> HIDE DEF step, V
  <2> QED BY <1>6, <2>1, Recursion
<1>8. f = F(f)
  <2> HIDE DEF V
  <2>1. f \in [1..n -> V]
    BY <1>7 DEF Recursive
  <2>2. ASSUME NEW i \in 1..n PROVE f[i] = F(f)[i]
    <3>1. CASE i = 1
      BY <1>4, <1>7, <3>1 DEF Recursive
    <3>2. CASE i # 1
      <4>1. i \in (1 + 1)..n /\ i - 1 \in 1..n
        BY <1>1, <3>2
      <4>2. f[i] = step[i][f[i - 1]] /\ f[i - 1] \in V
        BY <1>7, <2>1, <4>1 DEF Recursive
      <4> QED BY <1>4, <3>2, <4>1, <4>2
    <3> QED BY <3>1, <3>2
  <2> QED BY <1>4, <2>1, <2>2
<1>9. flatten = F(flatten)
  <2> HIDE DEF F
  <2> QED BY <1>8
<1> HIDE DEF flatten
<1>10. /\ flatten[1] = seqs[1]
       /\ \A i \in 2..n : flatten[i] = flatten[i - 1] \o seqs[i]
  <2>1. flatten = [i \in 1..n |-> IF i = 1 THEN seqs[i] ELSE flatten[i - 1] \o seqs[i]]
    BY <1>4, <1>9
  <2>2. 1 \in 1..n /\ \A i \in 2..n : i \in 1..n /\ i # 1
    BY <1>1
  <2> QED BY <2>1, <2>2, Zenon
<1>11. /\ End(s, 0) = 0 /\ \A i \in 0..n : End(s, i) \in Nat
       /\ \A i \in 1..n : End(s, i) = End(s, i - 1) + s[i].duration
  BY EndEquation DEF n
<1> DEFINE Good(k) == /\ flatten[k] \in Seq(Nat) /\ Len(flatten[k]) = End(s, k)
                      /\ \A j \in 1..k, x \in Nat :
                           IsIn(s, j, x) => flatten[k][x + 1] = s[j].value
           S == {k \in Nat : k + 1 <= n => Good(k + 1)}
<1>12. Good(1)
  <2>1. 1 \in 1..n /\ 1 - 1 = 0
    BY <1>1
  <2>2. End(s, 1) = s[1].duration
    BY <1>1, <1>11, <2>1
  <2>3. ASSUME NEW x \in Nat, IsIn(s, 1, x) PROVE flatten[1][x + 1] = s[1].value
    <3>1. x + 1 \in 1..s[1].duration
      BY <1>1, <2>1, <2>2, <2>3 DEF IsIn
    <3>2. seqs[1] = [d \in 1..s[1].duration |-> s[1].value]
      BY <1>3, <2>1
    <3> QED BY <1>10, <3>1, <3>2
  <2>4. flatten[1] \in Seq(Nat) /\ Len(flatten[1]) = End(s, 1)
    BY <1>3, <1>10, <2>1, <2>2
  <2>5. ASSUME NEW j \in 1..1 PROVE j = 1
    OBVIOUS
  <2> QED BY <2>3, <2>4, <2>5
<1>13. ASSUME NEW k \in Nat, k \in S, (k + 1) + 1 <= n PROVE Good((k + 1) + 1)
  <2> DEFINE i == (k + 1) + 1
             a == flatten[k + 1]
             b == seqs[i]
  <2>1. /\ Good(k + 1) /\ i \in 2..n /\ i - 1 = k + 1 /\ i \in 1..n /\ k + 1 \in 1..n
        /\ k + 1 \in 0..n /\ i \in Nat
    BY <1>1, <1>13
  <2>2. /\ flatten[i] = a \o b /\ a \in Seq(Nat) /\ b \in Seq(Nat)
        /\ Len(a) = End(s, k + 1) /\ Len(b) = s[i].duration
        /\ \A d \in 1..s[i].duration : b[d] = s[i].value
    BY <1>3, <1>10, <2>1
  <2>3. End(s, i) = End(s, k + 1) + s[i].duration /\ End(s, k + 1) \in Nat
    BY <1>11, <2>1
  <2> HIDE DEF a, b
  <2>4. flatten[i] \in Seq(Nat) /\ Len(flatten[i]) = End(s, i)
    <3>1. a \o b \in Seq(Nat) /\ Len(a \o b) = Len(a) + Len(b)
      BY <2>2, ConcatProperties
    <3> HIDE DEF i
    <3> QED BY <2>2, <2>3, <3>1, Zenon
  <2>5. ASSUME NEW j \in 1..i, NEW x \in Nat, IsIn(s, j, x)
        PROVE  flatten[i][x + 1] = s[j].value
    <3>1. CASE j = i
      <4>1. End(s, k + 1) <= x /\ x < End(s, i)
        BY <2>1, <2>5, <3>1 DEF IsIn
      <4>2. /\ (x + 1) - Len(a) \in 1..s[i].duration
            /\ x + 1 \in (Len(a) + 1)..(Len(a) + Len(b))
        BY <1>1, <2>1, <2>2, <2>3, <4>1
      <4>3. (a \o b)[x + 1] = b[(x + 1) - Len(a)]
        <5>1. x + 1 \in 1..(Len(a) + Len(b)) /\ ~(x + 1 <= Len(a))
          BY <2>2, <2>3, <4>2
        <5> QED BY <2>2, <5>1, ConcatProperties
      <4> QED BY <2>2, <3>1, <4>2, <4>3
    <3>2. CASE j # i
      <4>1. j \in 1..(k + 1) /\ j \in 0..(k + 1) /\ j \in 0..n
        BY <1>1, <2>1, <3>2
      <4>2. x < End(s, j) /\ End(s, j) \in Nat
        BY <1>11, <2>5, <4>1 DEF IsIn
      <4>3. End(s, j) <= End(s, k + 1)
        BY <2>1, <4>1, EndOrder DEF n
      <4>4. x + 1 \in 1..Len(a)
        BY <2>2, <2>3, <4>2, <4>3
      <4>5. (a \o b)[x + 1] = a[x + 1]
        BY <2>2, <4>4
      <4>6. a[x + 1] = s[j].value
        BY <2>1, <2>5, <4>1 DEF a
      <4> QED BY <2>2, <4>5, <4>6
    <3> QED BY <3>1, <3>2
  <2> QED BY <2>4, <2>5
<1>14. n - 1 \in S
  <2>1. \A k \in Nat : k \in S => k + 1 \in S
    <3> HIDE DEF Good
    <3> QED BY <1>13
  <2>2. 0 \in S
    <3> HIDE DEF Good
    <3> QED BY <1>12
  <2> HIDE DEF S
  <2> QED BY <1>1, <2>1, <2>2, Induction
<1>15. Good(n)
  BY <1>1, <1>14
<1> QED BY <1>5, <1>15 DEF n, seqs
=============================================================================
