----------------------------- MODULE RateLimiter -----------------------------
(***************************************************************************)
(* RateLimiterUtils.RateLimiter: a SmoothBursty limiter as a value. Its    *)
(* clock, and so the time of the next free ticket, are in whole            *)
(* microseconds. An interval is a fraction: it is counted in parts of a    *)
(* microsecond. stored is storedPermits * stableIntervalMicros, the unused *)
(* time that was saved up, in the same parts. A rate never changes during  *)
(* the life of a limiter: a new rate, a new limiter.                       *)
(***************************************************************************)
EXTENDS Integers

CONSTANTS
  Second,  \* maxBurstSeconds = 1.0: permits of one second can be saved up
  Parts    \* the parts of a microsecond

ASSUME SecondAssumption == Second \in Nat \ {0} /\ Parts \in Nat \ {0}

Smaller(a, b) == IF a <= b THEN a ELSE b
Larger(a, b) == IF a >= b THEN a ELSE b

\* A time, in parts.
InParts(t) == Parts * t

Limiters == [interval : Nat \ {0}, stored : Nat, next : Nat]

\* create, setRate: no permit is stored, the first one is free.
Create(i, t) == [interval |-> i, stored |-> 0, next |-> t]

\* Mutant: what is saved up has no limit.
ResyncUnlimited(l, t) ==
  IF t > l.next THEN [l EXCEPT !.stored = @ + InParts(t - l.next), !.next = t] ELSE l

\* resync: the time since the next free ticket was not used.
Resync(l, t) ==
  IF t > l.next
    THEN [l EXCEPT !.stored = Smaller(InParts(Second), @ + InParts(t - l.next)), !.next = t]
    ELSE l

\* storedPermitsToSpend
ToSpend(l) == Smaller(l.interval, l.stored)

\* Mutant: a permit waits for itself too, saved up or not.
ReserveInFull(l) ==
  [l EXCEPT !.next = @ + (2 * l.interval) \div Parts, !.stored = @ - ToSpend(l)]

\* Mutant: a whole permit is taken from the store, even if there is less.
ReserveOverdraw(l) ==
  [l EXCEPT !.next = @ + (l.interval - ToSpend(l)) \div Parts, !.stored = @ - l.interval]

\* reserveEarliestAvailable(1): the permit is granted at l.next, the caller after
\* this one waits for what was not saved up. The wait is cut to whole
\* microseconds, and the rest of it is lost.
Reserve(l) ==
  [interval |-> l.interval, stored |-> l.stored - ToSpend(l),
   next |-> l.next + (l.interval - ToSpend(l)) \div Parts]

\* What of an interval can be lost that way, and what is paid for a permit at
\* least. An interval of whole microseconds loses nothing, one of less than a
\* microsecond everything.
Lost(i) == IF i % Parts = 0 THEN 0 ELSE Smaller(i, Parts - 1)
Price(i) == i - Lost(i)
=============================================================================
