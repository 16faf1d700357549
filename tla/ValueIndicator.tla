--------------------------- MODULE ValueIndicator ---------------------------
(***************************************************************************)
(* VariableValueIndicator: the values of --variable-rate, each for a number*)
(* of seconds, over and over again. A schedule is the sequence of the      *)
(* definitions; validate has accepted them.                                *)
(***************************************************************************)
EXTENDS Integers, Sequences

\* A rate is the time between two messages, and this is the rate 0.
Stopped == 0

Definitions == [value : Nat, duration : Nat \ {0}]

\* gcd(int, int)
gcd[a \in Nat] == [b \in Nat |-> IF a = 0 THEN b ELSE gcd[b % a][a]]

\* Mutant: the first duration is the period.
FirstDuration(s) == s[1].duration

\* gcd(int[], int) of the durations: the period of the scheduled update.
Period(s) ==
  LET of[i \in 1..Len(s)] ==
        IF i = 1 THEN s[1].duration ELSE gcd[s[i].duration][of[i - 1]]
  IN  of[Len(s)]

\* intervals: end of each, the start is the end of the one before.
End(s, i) ==
  LET end[j \in 0..Len(s)] == IF j = 0 THEN 0 ELSE end[j - 1] + s[j].duration IN end[i]

\* Interval.isIn
IsIn(s, i, t) == End(s, i - 1) <= t /\ t < End(s, i)

\* updateValueIfNecessary: the value of the first interval the time is in, and no
\* other value if there is none.
ValueOf(s, t, current) ==
  LET elapsed == t % End(s, Len(s))
      first(i) == IsIn(s, i, elapsed) /\ \A j \in 1..(i - 1) : ~IsIn(s, j, elapsed)
  IN  IF \E i \in 1..Len(s) : first(i)
        THEN s[CHOOSE i \in 1..Len(s) : first(i)].value
        ELSE current
=============================================================================
