-------------------------- MODULE ThroughputProofs --------------------------
(***************************************************************************)
(* The rate of a producer, the schedule of the rate and the sums of the    *)
(* reports, for every schedule, any number of agents and any delays.       *)
(***************************************************************************)
EXTENDS Throughput, ScheduleProofs, FiniteSetTheorems, TLAPS

-----------------------------------------------------------------------------
(***************************************************************************)
(* Times in parts of a microsecond, and what the cut of a wait to whole    *)
(* microseconds loses.                                                     *)
(***************************************************************************)
LEMMA InPartsType ==
  /\ \A t \in Int : InParts(t) \in Int
  /\ \A t \in Nat : InParts(t) \in Nat
  /\ InParts(0) = 0 /\ InParts(1) = Parts /\ Parts \in Nat \ {0}
BY SecondAssumption DEF InParts

LEMMA InPartsSum ==
  ASSUME NEW s \in Int, NEW t \in Int
  PROVE  InParts(s + t) = InParts(s) + InParts(t)
BY SecondAssumption DEF InParts

LEMMA InPartsDifference ==
  ASSUME NEW s \in Int, NEW t \in Int
  PROVE  InParts(s - t) = InParts(s) - InParts(t)
BY SecondAssumption DEF InParts

LEMMA InPartsNext ==
  ASSUME NEW t \in Int
  PROVE  InParts(t + 1) = InParts(t) + Parts
BY SecondAssumption DEF InParts

LEMMA InPartsOrder ==
  ASSUME NEW s \in Int, NEW t \in Int, s <= t
  PROVE  InParts(s) <= InParts(t)
<1>1. t - s \in Nat
  OBVIOUS
<1>2. InParts(t - s) \in Nat /\ InParts(s) \in Int /\ InParts(t) \in Int
  BY <1>1, InPartsType
<1>3. InParts(t - s) = InParts(t) - InParts(s)
  BY InPartsDifference
<1> QED BY <1>2, <1>3

\* The whole microseconds of a time in parts.
LEMMA WholePart ==
  ASSUME NEW x \in Nat
  PROVE  /\ x \div Parts \in Nat
         /\ InParts(x \div Parts) <= x /\ x < InParts(x \div Parts) + Parts
         /\ x % Parts = x - InParts(x \div Parts)
BY SecondAssumption DEF InParts

\* They are the only ones, and a time without a rest is a time of whole ones.
LEMMA WholeOnly ==
  ASSUME NEW k \in Nat
  PROVE  InParts(k) \div Parts = k /\ InParts(k) % Parts = 0
<1> DEFINE q == InParts(k) \div Parts
<1>1. InParts(k) \in Nat /\ Parts \in Nat \ {0}
  BY InPartsType
<1>2. /\ q \in Nat /\ InParts(q) <= InParts(k) /\ InParts(k) < InParts(q) + Parts
      /\ InParts(k) % Parts = InParts(k) - InParts(q)
  BY <1>1, WholePart
<1> HIDE DEF q
<1>3. InParts(q + 1) = InParts(q) + Parts /\ InParts(k + 1) = InParts(k) + Parts
      /\ InParts(q) \in Nat
  BY <1>2, InPartsType, InPartsNext
<1>4. ASSUME q >= k + 1 PROVE FALSE
  <2>1. InParts(k + 1) <= InParts(q)
    BY <1>2, <1>4, InPartsOrder
  <2> QED BY <1>1, <1>2, <1>3, <2>1
<1>5. ASSUME q + 1 <= k PROVE FALSE
  <2>1. InParts(q + 1) <= InParts(k)
    BY <1>2, <1>5, InPartsOrder
  <2> QED BY <1>1, <1>2, <1>3, <2>1
<1>6. q = k
  BY <1>2, <1>4, <1>5
<1> QED BY <1>1, <1>2, <1>6 DEF q

LEMMA LostFacts ==
  ASSUME NEW i \in Nat
  PROVE  /\ Lost(i) \in Nat /\ Lost(i) <= i /\ Price(i) \in Nat /\ Price(i) + Lost(i) = i
         /\ i % Parts # 0 => Price(i) = Larger(0, i - (Parts - 1))
         /\ i % Parts = 0 => Price(i) = i
<1> DEFINE rest == i % Parts
<1>1. Parts \in Nat \ {0} /\ Lost(i) = (IF rest = 0 THEN 0 ELSE Smaller(i, Parts - 1))
      /\ Price(i) = i - Lost(i)
  BY InPartsType DEF Lost, Price
<1> HIDE DEF rest
<1>2. CASE rest = 0
  BY <1>1, <1>2 DEF rest
<1>3. CASE rest # 0
  <2>1. Lost(i) = Smaller(i, Parts - 1)
    BY <1>1, <1>3
  <2>2. Lost(i) \in Nat /\ Lost(i) <= i /\ Price(i) = Larger(0, i - (Parts - 1))
    BY <1>1, <2>1 DEF Smaller, Larger
  <2> QED BY <1>1, <1>3, <2>2 DEF rest
<1> QED BY <1>2, <1>3

-----------------------------------------------------------------------------
(***************************************************************************)
(* The limiter. Position is where it is on the axis of time, in parts,     *)
(* once it is resynchronized at time t: every permit moves it by its price *)
(* or more. With an interval of whole microseconds only whole ones are     *)
(* saved up, and nothing is lost.                                          *)
(***************************************************************************)
Whole(l) == l.interval % Parts = 0 => \E k \in Nat : l.stored = InParts(k)

SomeLimiters ==
  {l \in [interval : Nat \ {0}, stored : 0..InParts(Second), next : Nat] : Whole(l)}

Position(l, t) ==
  IF t > l.next
    THEN InParts(t) - Smaller(InParts(Second), l.stored + InParts(t - l.next))
    ELSE InParts(l.next) - l.stored

\* What is known of the fields.
LEMMA LimiterFacts ==
  ASSUME NEW l \in SomeLimiters
  PROVE  /\ l = [interval |-> l.interval, stored |-> l.stored, next |-> l.next]
         /\ l.interval \in Nat \ {0} /\ l.next \in Nat /\ InParts(l.next) \in Nat
         /\ l.stored \in Nat /\ l.stored <= InParts(Second)
         /\ Second \in Nat /\ InParts(Second) \in Nat
         /\ Lost(l.interval) \in Nat /\ Price(l.interval) \in Nat
         /\ Price(l.interval) + Lost(l.interval) = l.interval
         /\ Price(l.interval) <= l.interval
<1>1. /\ l \in [interval : Nat \ {0}, stored : 0..InParts(Second), next : Nat]
      /\ Second \in Nat /\ InParts(Second) \in Nat
  BY SecondAssumption, InPartsType DEF SomeLimiters
<1>2. l.interval \in Nat /\ l.next \in Nat
  BY <1>1
<1>3. InParts(l.next) \in Nat
  BY <1>2, InPartsType
<1>4. /\ Lost(l.interval) \in Nat /\ Price(l.interval) \in Nat
      /\ Price(l.interval) + Lost(l.interval) = l.interval
  BY <1>2, LostFacts
<1> QED BY <1>1, <1>2, <1>3, <1>4

\* A new limiter is where the time is.
LEMMA CreatePosition ==
  ASSUME NEW i \in Nat \ {0}, NEW t \in Nat
  PROVE  /\ Create(i, t) \in SomeLimiters
         /\ Create(i, t).interval = i /\ Create(i, t).next = t
         /\ Position(Create(i, t), t) = InParts(t)
<1>1. InParts(0) = 0 /\ InParts(t) \in Nat /\ InParts(Second) \in Nat
  BY InPartsType, SecondAssumption
<1>2. Create(i, t) = [interval |-> i, stored |-> 0, next |-> t]
  BY DEF Create
<1>3. Whole(Create(i, t))
  BY <1>1, <1>2 DEF Whole
<1> QED BY <1>1, <1>2, <1>3 DEF SomeLimiters, Position

\* Time moves a limiter forward, which is at most a second behind and not ahead
\* of the later of the time and its next free ticket.
LEMMA PositionBounds ==
  ASSUME NEW l \in SomeLimiters, NEW t \in Nat
  PROVE  /\ Position(l, t) \in Int
         /\ Position(l, t) >= InParts(t) - InParts(Second)
         /\ Position(l, t) <= InParts(Larger(l.next, t))
         /\ Position(l, t + 1) >= Position(l, t)
<1>1. /\ l.next \in Nat /\ InParts(l.next) \in Nat /\ InParts(Second) \in Nat
      /\ l.stored \in Nat /\ l.stored <= InParts(Second)
  BY LimiterFacts
<1>2. /\ InParts(t) \in Nat /\ InParts(t + 1) = InParts(t) + Parts /\ Parts \in Nat \ {0}
      /\ InParts(t - l.next) = InParts(t) - InParts(l.next)
      /\ InParts((t + 1) - l.next) = InParts(t + 1) - InParts(l.next)
      /\ t <= l.next => InParts(t) <= InParts(l.next)
      /\ l.next <= t => InParts(l.next) <= InParts(t)
      /\ l.next <= t + 1 => InParts(l.next) <= InParts(t + 1)
  <2>1. /\ InParts(t) \in Nat /\ InParts(t + 1) = InParts(t) + Parts /\ Parts \in Nat \ {0}
    BY InPartsType, InPartsNext
  <2>2. /\ InParts(t - l.next) = InParts(t) - InParts(l.next)
        /\ InParts((t + 1) - l.next) = InParts(t + 1) - InParts(l.next)
    <3>1. t \in Int /\ t + 1 \in Int /\ l.next \in Int
      BY <1>1
    <3> QED BY <3>1, InPartsDifference, Zenon
  <2>3. /\ t <= l.next => InParts(t) <= InParts(l.next)
        /\ l.next <= t => InParts(l.next) <= InParts(t)
        /\ l.next <= t + 1 => InParts(l.next) <= InParts(t + 1)
    BY <1>1, InPartsOrder
  <2> QED BY <2>1, <2>2, <2>3
<1> DEFINE saved(u) == Smaller(InParts(Second), l.stored + InParts(u - l.next))
<1>3. CASE t > l.next
  <2>1. Position(l, t) = InParts(t) - saved(t) /\ Position(l, t + 1) = InParts(t + 1) - saved(t + 1)
    BY <1>1, <1>3 DEF Position
  <2>2. Larger(l.next, t) = t
    BY <1>1, <1>3 DEF Larger
  <2> QED BY <1>1, <1>2, <1>3, <2>1, <2>2 DEF Smaller
<1>4. CASE t = l.next
  <2>1. Position(l, t) = InParts(t) - l.stored /\ Position(l, t + 1) = InParts(t + 1) - saved(t + 1)
    BY <1>1, <1>4 DEF Position
  <2>2. Larger(l.next, t) = t
    BY <1>1, <1>4 DEF Larger
  <2> QED BY <1>1, <1>2, <1>4, <2>1, <2>2 DEF Smaller
<1>5. CASE t < l.next
  <2>1. /\ Position(l, t) = InParts(l.next) - l.stored
        /\ Position(l, t + 1) = InParts(l.next) - l.stored
    BY <1>1, <1>5 DEF Position
  <2>2. Larger(l.next, t) = l.next
    BY <1>1, <1>5 DEF Larger
  <2> QED BY <1>1, <1>2, <1>5, <2>1, <2>2
<1> QED BY <1>1, <1>3, <1>4, <1>5

\* resync does not move it.
LEMMA ResyncPosition ==
  ASSUME NEW l \in SomeLimiters, NEW t \in Nat
  PROVE  /\ Resync(l, t) \in SomeLimiters
         /\ Resync(l, t).interval = l.interval
         /\ Resync(l, t).next = Larger(l.next, t)
         /\ InParts(Resync(l, t).next) - Resync(l, t).stored = Position(l, t)
<1>0. /\ l.next \in Nat /\ InParts(Second) \in Nat /\ l.interval \in Nat \ {0}
      /\ l.stored \in Nat /\ l.stored <= InParts(Second) /\ Second \in Nat
      /\ l = [interval |-> l.interval, stored |-> l.stored, next |-> l.next]
  BY LimiterFacts
<1>1. CASE t > l.next
  <2> DEFINE saved == Smaller(InParts(Second), l.stored + InParts(t - l.next))
  <2>1. saved \in 0..InParts(Second)
    <3>1. InParts(t - l.next) \in Nat
      BY <1>0, <1>1, InPartsType
    <3> QED BY <1>0, <3>1 DEF Smaller
  <2>2. Resync(l, t) = [interval |-> l.interval, stored |-> saved, next |-> t]
    BY <1>0, <1>1 DEF Resync
  <2>3. Position(l, t) = InParts(t) - saved
    BY <1>1 DEF Position
  <2>4. l.interval % Parts = 0 => \E k \in Nat : saved = InParts(k)
    <3> SUFFICES ASSUME l.interval % Parts = 0 PROVE \E k \in Nat : saved = InParts(k)
      OBVIOUS
    <3>1. PICK k \in Nat : l.stored = InParts(k)
      BY DEF SomeLimiters, Whole
    <3>2. k + (t - l.next) \in Nat /\ InParts(k + (t - l.next)) = l.stored + InParts(t - l.next)
      BY <1>0, <1>1, <3>1, InPartsSum
    <3> QED BY <1>0, <3>2 DEF Smaller
  <2> HIDE DEF saved
  <2>5. Whole(Resync(l, t))
    BY <2>2, <2>4 DEF Whole
  <2> QED BY <1>0, <2>3, <1>1, <2>1, <2>2, <2>5 DEF SomeLimiters, Larger
<1>2. CASE ~(t > l.next)
  <2>1. Resync(l, t) = l
    BY <1>2 DEF Resync
  <2> QED BY <1>0, <1>2, <2>1 DEF Position, Larger
<1> QED BY <1>1, <1>2

\* A reservation moves it by the price of a permit or more, and the next free
\* ticket by an interval at most.
LEMMA ReservePosition ==
  ASSUME NEW l \in SomeLimiters
  PROVE  /\ Reserve(l) \in SomeLimiters
         /\ Reserve(l).interval = l.interval
         /\ Reserve(l).next >= l.next
         /\ InParts(Reserve(l).next) <= InParts(l.next) + l.interval
         /\ InParts(Reserve(l).next) - Reserve(l).stored
              >= InParts(l.next) - l.stored + Price(l.interval)
<1> DEFINE spent == ToSpend(l)
           fresh == l.interval - spent
           wait == fresh \div Parts
<1>0. /\ l.next \in Nat /\ InParts(l.next) \in Nat /\ InParts(Second) \in Nat
      /\ l.interval \in Nat \ {0} /\ l.stored \in Nat /\ l.stored <= InParts(Second)
  BY LimiterFacts
<1>1. spent \in Nat /\ spent <= l.stored /\ spent <= l.interval /\ fresh \in Nat
  BY <1>0 DEF ToSpend, Smaller
<1>2. Reserve(l) = [interval |-> l.interval, stored |-> l.stored - spent,
                   next |-> l.next + wait]
  BY DEF Reserve
<1>3. wait \in Nat /\ InParts(wait) <= fresh /\ fresh < InParts(wait) + Parts
  <2> HIDE DEF fresh
  <2> QED BY <1>1, WholePart
<1>4. InParts(l.next + wait) = InParts(l.next) + InParts(wait) /\ InParts(wait) \in Nat
      /\ Parts \in Nat
  <2> HIDE DEF wait
  <2>1. l.next \in Int /\ wait \in Int
    BY <1>0, <1>3
  <2>2. InParts(l.next + wait) = InParts(l.next) + InParts(wait)
    BY <2>1, InPartsSum, Zenon
  <2> QED BY <1>3, <2>2, InPartsType
<1>5. CASE l.interval % Parts = 0
  <2>1. PICK k \in Nat : l.stored = InParts(k)
    BY <1>5 DEF SomeLimiters, Whole
  <2>2. PICK i \in Nat : l.interval = InParts(i)
    <3>1. l.interval \div Parts \in Nat /\ l.interval = InParts(l.interval \div Parts)
      <4>1. /\ l.interval \div Parts \in Nat
            /\ l.interval % Parts = l.interval - InParts(l.interval \div Parts)
        BY <1>0, WholePart
      <4>2. InParts(l.interval \div Parts) \in Nat
        BY <4>1, InPartsType
      <4> QED BY <1>0, <1>5, <4>1, <4>2
    <3> QED BY <3>1
  <2> DEFINE m == IF l.interval <= l.stored THEN i ELSE k
  <2>3. m \in Nat /\ spent = InParts(m)
    BY <2>1, <2>2 DEF ToSpend, Smaller
  <2> HIDE DEF m, spent
  <2>4. m <= i /\ m <= k
    <3>1. ASSUME NEW j \in Nat, InParts(m) <= InParts(j) PROVE m <= j
      <4>1. CASE j + 1 <= m
        <5>1. /\ InParts(j + 1) <= InParts(m) /\ InParts(j + 1) = InParts(j) + Parts
          BY <2>3, <4>1, InPartsOrder, InPartsNext
        <5>2. InParts(j) \in Nat /\ InParts(m) \in Nat /\ Parts \in Nat \ {0}
          BY <2>3, InPartsType
        <5> QED BY <3>1, <5>1, <5>2
      <4> QED BY <2>3, <4>1
    <3>2. InParts(m) <= InParts(i) /\ InParts(m) <= InParts(k)
      BY <1>1, <2>1, <2>2, <2>3
    <3> QED BY <2>1, <2>2, <3>1, <3>2
  <2>5. /\ i - m \in Nat /\ k - m \in Nat
        /\ fresh = InParts(i - m) /\ l.stored - spent = InParts(k - m)
    <3>1. i \in Int /\ k \in Int /\ m \in Int /\ i - m \in Nat /\ k - m \in Nat
      BY <2>1, <2>2, <2>3, <2>4
    <3>2. InParts(i - m) = InParts(i) - InParts(m) /\ InParts(k - m) = InParts(k) - InParts(m)
      BY <3>1, InPartsDifference, Zenon
    <3> QED BY <2>1, <2>2, <2>3, <3>1, <3>2
  <2>6. wait = i - m
    BY <2>5, WholeOnly
  <2>7. InParts(wait) = fresh
    BY <2>5, <2>6
  <2>8. Price(l.interval) = l.interval
    BY <1>0, <1>5, LostFacts
  <2> HIDE DEF fresh, wait
  <2>9. fresh = l.interval - spent
    BY DEF fresh
  <2>10. Whole(Reserve(l))
    BY <1>2, <2>5 DEF Whole
  <2> QED BY <1>0, <1>1, <1>2, <1>3, <1>4, <2>7, <2>8, <2>9, <2>10 DEF SomeLimiters
<1>6. CASE l.interval % Parts # 0
  <2>1. Price(l.interval) = Larger(0, l.interval - (Parts - 1))
    BY <1>0, <1>6, LostFacts
  <2> HIDE DEF fresh, wait
  <2>2. fresh = l.interval - spent
    BY DEF fresh
  <2> HIDE DEF spent
  <2>3. Whole(Reserve(l))
    BY <1>2, <1>6 DEF Whole
  <2> QED BY <1>0, <1>1, <1>2, <1>3, <1>4, <2>1, <2>2, <2>3 DEF SomeLimiters, Larger
<1> QED BY <1>5, <1>6

\* Together: what acquire does to the limiter.
LEMMA AcquirePosition ==
  ASSUME NEW l \in SomeLimiters, NEW t \in Nat
  PROVE  LET r == Reserve(Resync(l, t)) IN
         /\ r \in SomeLimiters /\ r.interval = l.interval
         /\ InParts(r.next) <= InParts(Larger(l.next, t)) + l.interval
         /\ Position(r, t) \in Int
         /\ Position(r, t) >= Position(l, t) + Price(l.interval)
<1> DEFINE m == Resync(l, t)
           r == Reserve(m)
<1>1. m \in SomeLimiters /\ m.interval = l.interval /\ m.next = Larger(l.next, t)
      /\ InParts(m.next) - m.stored = Position(l, t)
  BY ResyncPosition
<1>2. r \in SomeLimiters /\ r.interval = m.interval
      /\ r.next >= m.next /\ InParts(r.next) <= InParts(m.next) + m.interval
      /\ InParts(r.next) - r.stored >= InParts(m.next) - m.stored + Price(m.interval)
  BY <1>1, ReservePosition
<1> HIDE DEF m, r
<1>3. r.next >= t
  <2>1. l.next \in Nat /\ r.next \in Nat
    BY <1>2, LimiterFacts
  <2> QED BY <1>1, <1>2, <2>1 DEF Larger
<1>4. Position(r, t) = InParts(r.next) - r.stored
  <2>1. r.next \in Nat
    BY <1>2, LimiterFacts
  <2> QED BY <1>3, <2>1 DEF Position
<1>5. Position(r, t) \in Int
  BY <1>2, PositionBounds
<1> QED BY <1>1, <1>2, <1>4, <1>5 DEF m, r

-----------------------------------------------------------------------------
(***************************************************************************)
(* The inductive invariant. A producer that sleeps for a permit, or is     *)
(* about to publish, has paid for a message that is not published yet; one *)
(* message more may have been paid for before the window began.            *)
(***************************************************************************)
Places ==
  {"new", "added", "reset", "received", "time", "loop", "asleep", "publish", "paused", "total"}

RateTypes ==
  /\ setup \in Setups /\ now \in Nat /\ value \in Nat
  /\ limiter \in [Producers -> SomeLimiters]
  /\ agent \in [Agents -> [at : Places, wake : Nat]]
  /\ window \in [Producers -> [start : Nat, credit : {0, Second}, cost : Nat]]
  /\ stray \in [Producers -> Nat]

Held(p) == IF agent[p].at \in {"asleep", "publish"} THEN Price(limiter[p].interval) ELSE 0

\* What is published and held is what the limiter has moved since the window began.
Accounted(p) ==
  window[p].cost + Held(p)
    <= Position(limiter[p], now) - InParts(window[p].start) + InParts(window[p].credit)
         + limiter[p].interval

\* The next free ticket is one interval ahead, or two while a producer sleeps.
Ahead(p) ==
  \/ InParts(limiter[p].next) <= InParts(now) + limiter[p].interval
  \/ /\ agent[p].at = "asleep"
     /\ InParts(limiter[p].next) <= InParts(now) + 2 * limiter[p].interval
     /\ InParts(limiter[p].next) <= InParts(agent[p].wake) + limiter[p].interval

\* Who is about to publish when the rate becomes 0 has not published since.
Stopping(p) ==
  /\ stray[p] <= 1
  /\ (value = Stopped /\ agent[p].at = "publish") => stray[p] = 0

RateInv ==
  /\ RateTypes
  /\ ~Variable => value # Stopped
  /\ \A p \in Producers : Accounted(p) /\ Ahead(p) /\ Stopping(p)

\* The value of a schedule is a number, or the value there was before.
LEMMA ValueOfType ==
  ASSUME NEW s \in Seq(Definitions), NEW t, NEW current \in Nat
  PROVE  ValueOf(s, t, current) \in Nat
<1> DEFINE elapsed == t % End(s, Len(s))
           first(i) == IsIn(s, i, elapsed) /\ \A j \in 1..(i - 1) : ~IsIn(s, j, elapsed)
           chosen == CHOOSE i \in 1..Len(s) : first(i)
<1>1. CASE \E i \in 1..Len(s) : first(i)
  <2>1. chosen \in 1..Len(s)
    <3> HIDE DEF first
    <3> QED BY <1>1
  <2>2. ValueOf(s, t, current) = s[chosen].value
    BY <1>1 DEF ValueOf
  <2> HIDE DEF chosen
  <2>3. s[chosen] \in Definitions
    BY <2>1
  <2> QED BY <2>2, <2>3 DEF Definitions
<1>2. CASE ~ \E i \in 1..Len(s) : first(i)
  <2>1. ValueOf(s, t, current) = current
    BY <1>2 DEF ValueOf
  <2> QED BY <2>1
<1> QED BY <1>1, <1>2

LEMMA RateInit == Init => RateInv
<1> SUFFICES ASSUME Init PROVE RateInv
  OBVIOUS
<1>1. /\ setup \in SetupRecords /\ Schedule # <<>>
      /\ Len(Schedule) = 1 => Schedule[1].value # Stopped
  BY ThroughputAssumption DEF Init, Schedule, Limited
<1>2. Schedule \in Seq(Definitions) /\ Len(Schedule) \in Nat \ {0}
  BY <1>1 DEF SetupRecords, Schedule
<1>3. value \in Nat
  <2>1. Schedule[1] \in Definitions
    BY <1>2
  <2> QED BY <2>1 DEF Init, Definitions
<1>4. FirstInterval \in Nat \ {0}
  <2>1. InParts(Second) \in Nat \ {0}
    BY SecondAssumption DEF InParts
  <2> QED BY <1>3, <2>1 DEF FirstInterval, Stopped
<1>5. /\ Create(FirstInterval, 0) \in SomeLimiters
      /\ Create(FirstInterval, 0).interval = FirstInterval
      /\ Create(FirstInterval, 0).next = 0
      /\ Position(Create(FirstInterval, 0), 0) = 0 /\ InParts(0) = 0
  BY <1>4, CreatePosition, InPartsType
<1>6. RateTypes
  BY <1>3, <1>5 DEF Init, RateTypes, Window, Places
<1>7. ~Variable => value # Stopped
  <2>1. ASSUME NEW n \in Nat \ {0} PROVE ~(n > 1) => n = 1
    OBVIOUS
  <2>2. ~(Len(Schedule) > 1) => Len(Schedule) = 1
    BY <1>2, <2>1
  <2>3. ~Variable => Len(Schedule) = 1
    BY <2>2 DEF Variable
  <2> QED BY <1>1, <2>3 DEF Init
<1>8. ASSUME NEW p \in Producers PROVE Accounted(p) /\ Ahead(p) /\ Stopping(p)
  <2>1. limiter[p] = Create(FirstInterval, 0) /\ agent[p] = [at |-> "new", wake |-> 0]
        /\ window[p] = [start |-> 0, credit |-> 0, cost |-> 0] /\ stray[p] = 0 /\ now = 0
    BY DEF Init, Window, Agents
  <2> QED BY <1>4, <1>5, <2>1 DEF Accounted, Ahead, Stopping, Held
<1> QED BY <1>6, <1>7, <1>8 DEF RateInv

\* What the invariant says of one producer.
LEMMA ProducerFacts ==
  ASSUME RateInv, NEW p \in Producers
  PROVE  /\ limiter[p] \in SomeLimiters /\ agent[p] \in [at : Places, wake : Nat]
         /\ p \in Agents /\ now \in Nat /\ Position(limiter[p], now) \in Int
         /\ limiter[p].interval \in Nat \ {0} /\ Price(limiter[p].interval) \in Nat
         /\ limiter[p].next \in Nat /\ InParts(limiter[p].next) \in Nat /\ InParts(now) \in Nat
         /\ window[p].start \in Nat /\ window[p].credit \in Nat /\ window[p].cost \in Nat
         /\ InParts(window[p].start) \in Nat /\ InParts(window[p].credit) \in Nat
         /\ stray[p] \in Nat
         /\ Accounted(p) /\ Ahead(p) /\ Stopping(p)
<1>1. limiter[p] \in SomeLimiters /\ now \in Nat
  BY DEF RateInv, RateTypes
<1>2. Position(limiter[p], now) \in Int
  BY <1>1, PositionBounds
<1>3. /\ limiter[p].interval \in Nat \ {0} /\ Price(limiter[p].interval) \in Nat
      /\ limiter[p].next \in Nat /\ InParts(limiter[p].next) \in Nat
  BY <1>1, LimiterFacts
<1>4. window[p].start \in Nat /\ window[p].credit \in Nat /\ window[p].cost \in Nat
  BY SecondAssumption DEF RateInv, RateTypes
<1>5. /\ InParts(window[p].start) \in Nat /\ InParts(window[p].credit) \in Nat
      /\ InParts(now) \in Nat
  BY <1>1, <1>4, InPartsType
<1> QED BY <1>1, <1>2, <1>3, <1>4, <1>5 DEF RateInv, RateTypes, Agents

\* A step that leaves the variables of the invariant alone.
LEMMA RateUnchanged ==
  ASSUME RateInv, UNCHANGED <<setup, now, value, producerVars>>
  PROVE  RateInv'
<1>1. RateTypes' /\ (~Variable => value # Stopped)'
  BY DEF RateInv, RateTypes, producerVars, Variable, Schedule
<1>2. ASSUME NEW p \in Producers PROVE (Accounted(p) /\ Ahead(p) /\ Stopping(p))'
  BY DEF RateInv, producerVars, Accounted, Ahead, Stopping, Held
<1> QED BY <1>1, <1>2 DEF RateInv

\* A step of an agent that does not go to sleep and publishes what it has paid for.
LEMMA AgentMoves ==
  ASSUME RateInv, NEW a \in Agents, NEW r \in [at : Places \ {"asleep"}, wake : Nat],
         agent' = [agent EXCEPT ![a] = r],
         UNCHANGED <<setup, now, value, limiter, window, stray>>,
         agent[a].at = "asleep" => now >= agent[a].wake,
         r.at = "publish" => agent[a].at = "asleep" /\ value # Stopped
  PROVE  RateInv'
<1>1. RateTypes' /\ (~Variable => value # Stopped)'
  BY DEF RateInv, RateTypes, Variable, Schedule
<1>2. ASSUME NEW p \in Producers PROVE (Accounted(p) /\ Ahead(p) /\ Stopping(p))'
  <2>1. /\ limiter[p] \in SomeLimiters /\ agent[p] \in [at : Places, wake : Nat]
        /\ p \in Agents /\ now \in Nat /\ Position(limiter[p], now) \in Int
        /\ limiter[p].interval \in Nat /\ Price(limiter[p].interval) \in Nat
        /\ limiter[p].next \in Nat /\ InParts(limiter[p].next) \in Nat /\ InParts(now) \in Nat
        /\ window[p].cost \in Nat
        /\ InParts(window[p].start) \in Nat /\ InParts(window[p].credit) \in Nat
    BY ProducerFacts
  <2>2. Accounted(p) /\ Ahead(p) /\ Stopping(p)
    BY DEF RateInv
  <2>3. CASE p = a
    <3>1. agent'[p] = r
      BY <2>1, <2>3 DEF RateInv, RateTypes
    <3>2. Accounted(p)'
      <4>1. Held(p)' <= Held(p) /\ Held(p) \in Nat /\ Held(p)' \in Nat
        BY <2>1, <2>3, <3>1 DEF Held
      <4> QED BY <2>1, <2>2, <4>1 DEF Accounted
    <3>3. Ahead(p)'
      <4>1. agent[p].at = "asleep" => InParts(agent[p].wake) <= InParts(now)
        BY <2>1, <2>3, InPartsOrder
      <4>2. InParts(agent[p].wake) \in Nat
        BY <2>1, InPartsType
      <4> QED BY <2>1, <2>2, <2>3, <3>1, <4>1, <4>2 DEF Ahead
    <3>4. Stopping(p)'
      BY <2>2, <2>3, <3>1 DEF Stopping
    <3> QED BY <3>2, <3>3, <3>4
  <2>4. CASE p # a
    <3>1. agent'[p] = agent[p]
      BY <2>1, <2>4 DEF RateInv, RateTypes
    <3> QED BY <2>2, <3>1 DEF Accounted, Ahead, Stopping, Held
  <2> QED BY <2>3, <2>4
<1> QED BY <1>1, <1>2 DEF RateInv

\* Time goes on.
LEMMA TickStep ==
  ASSUME RateInv, Tick
  PROVE  RateInv'
<1> USE DEF Tick, rateVars, producerVars
<1>1. RateTypes' /\ (~Variable => value # Stopped)'
  BY DEF RateInv, RateTypes, Variable, Schedule
<1>2. ASSUME NEW p \in Producers PROVE (Accounted(p) /\ Ahead(p) /\ Stopping(p))'
  <2>1. /\ limiter[p] \in SomeLimiters /\ agent[p] \in [at : Places, wake : Nat]
        /\ now \in Nat /\ Position(limiter[p], now) \in Int
        /\ limiter[p].interval \in Nat /\ Price(limiter[p].interval) \in Nat
        /\ InParts(limiter[p].next) \in Nat /\ InParts(now) \in Nat
        /\ window[p].cost \in Nat
        /\ InParts(window[p].start) \in Nat /\ InParts(window[p].credit) \in Nat
        /\ Accounted(p) /\ Ahead(p) /\ Stopping(p)
    BY ProducerFacts
  <2>2. /\ Position(limiter[p], now + 1) \in Int
        /\ Position(limiter[p], now + 1) >= Position(limiter[p], now)
    BY <2>1, PositionBounds
  <2>3. Held(p) \in Nat /\ Held(p)' = Held(p)
    BY <2>1 DEF Held
  <2>4. Accounted(p)'
    BY <2>1, <2>2, <2>3 DEF Accounted
  <2>5. Ahead(p)'
    <3>1. InParts(now + 1) = InParts(now) + Parts /\ Parts \in Nat
      BY <2>1, InPartsNext, InPartsType
    <3> QED BY <2>1, <3>1 DEF Ahead
  <2>6. Stopping(p)'
    BY <2>1 DEF Stopping
  <2> QED BY <2>4, <2>5, <2>6
<1> QED BY <1>1, <1>2 DEF RateInv

\* The rate changes: nobody has published since.
LEMMA UpdateValueStep ==
  ASSUME RateInv, UpdateValue
  PROVE  RateInv'
<1> USE DEF UpdateValue
<1>1. setup \in Setups /\ Setups \subseteq SetupRecords
  BY ThroughputAssumption DEF RateInv, RateTypes
<1>2. Schedule \in Seq(Definitions)
  BY <1>1 DEF SetupRecords, Schedule
<1>3. value' \in Nat
  BY <1>2, ValueOfType DEF RateInv, RateTypes
<1>4. stray' \in [Producers -> Nat]
  BY DEF RateInv, RateTypes
<1>5. RateTypes' /\ (~Variable => value # Stopped)'
  BY <1>3, <1>4 DEF RateInv, RateTypes, Variable, Schedule
<1>6. ASSUME NEW p \in Producers PROVE (Accounted(p) /\ Ahead(p) /\ Stopping(p))'
  <2>1. Accounted(p) /\ Ahead(p) /\ Stopping(p)
    BY DEF RateInv
  <2>2. Accounted(p)' /\ Ahead(p)'
    BY <2>1 DEF Accounted, Ahead, Held
  <2>3. Stopping(p)'
    BY <2>1 DEF Stopping
  <2> QED BY <2>2, <2>3
<1> QED BY <1>5, <1>6 DEF RateInv

\* A new limiter, and a new window with it.
LEMMA ValueChangedStep ==
  ASSUME RateInv, NEW p \in Producers, ValueChanged(p)
  PROVE  RateInv'
<1> USE DEF ValueChanged
<1>1. CASE value = Stopped
  BY <1>1, RateUnchanged DEF producerVars
<1>2. CASE value # Stopped
  <2>1. value \in Nat \ {0} /\ now \in Nat
    BY <1>2 DEF RateInv, RateTypes, Stopped
  <2>2. /\ Create(value, now) \in SomeLimiters
        /\ Create(value, now).interval = value /\ Create(value, now).next = now
        /\ Position(Create(value, now), now) = InParts(now)
        /\ Price(value) \in Nat /\ Price(value) <= value
        /\ InParts(now) \in Nat /\ InParts(0) = 0
    <3>1. Price(value) \in Nat /\ Lost(value) \in Nat /\ Price(value) + Lost(value) = value
      BY <2>1, LostFacts
    <3>2. InParts(now) \in Nat /\ InParts(0) = 0
      BY <2>1, InPartsType
    <3>3. Price(value) <= value
      BY <2>1, <3>1
    <3> QED BY <2>1, <3>1, <3>2, <3>3, CreatePosition
  <2>3. RateTypes' /\ (~Variable => value # Stopped)'
    <3>1. limiter' \in [Producers -> SomeLimiters]
      BY <1>2, <2>2 DEF RateInv, RateTypes
    <3>2. Window(0) \in [start : Nat, credit : {0, Second}, cost : Nat]
      BY <2>1 DEF Window
    <3>3. window' \in [Producers -> [start : Nat, credit : {0, Second}, cost : Nat]]
      BY <1>2, <3>2 DEF RateInv, RateTypes
    <3> QED BY <1>2, <3>1, <3>3 DEF RateInv, RateTypes, Variable, Schedule
  <2>4. ASSUME NEW q \in Producers PROVE (Accounted(q) /\ Ahead(q) /\ Stopping(q))'
    <3>1. Accounted(q) /\ Ahead(q) /\ Stopping(q)
      BY DEF RateInv
    <3>2. Stopping(q)'
      BY <3>1 DEF Stopping
    <3>3. CASE q = p
      <4>1. limiter'[q] = Create(value, now)
            /\ window'[q] = [start |-> now, credit |-> 0, cost |-> 0]
        BY <1>2, <3>3 DEF RateInv, RateTypes, Window
      <4>2. Accounted(q)'
        BY <2>1, <2>2, <4>1 DEF Accounted, Held
      <4>3. Ahead(q)'
        BY <2>1, <2>2, <4>1 DEF Ahead
      <4> QED BY <3>2, <4>2, <4>3
    <3>4. CASE q # p
      <4>1. limiter'[q] = limiter[q] /\ window'[q] = window[q]
        BY <1>2, <3>4 DEF RateInv, RateTypes
      <4> QED BY <3>1, <3>2, <4>1 DEF Accounted, Ahead, Held
    <3> QED BY <3>3, <3>4
  <2> QED BY <2>3, <2>4 DEF RateInv
<1> QED BY <1>1, <1>2

\* A window that begins now: the limiter is a second behind at most.
LEMMA ObserveStep ==
  ASSUME RateInv, NEW p \in Producers, Observe(p)
  PROVE  RateInv'
<1> USE DEF Observe, rateVars
<1>1. RateTypes' /\ (~Variable => value # Stopped)'
  BY SecondAssumption DEF RateInv, RateTypes, Variable, Schedule, Window
<1>2. ASSUME NEW q \in Producers PROVE (Accounted(q) /\ Ahead(q) /\ Stopping(q))'
  <2>1. /\ limiter[q] \in SomeLimiters /\ now \in Nat /\ Position(limiter[q], now) \in Int
        /\ InParts(now) \in Nat
        /\ Accounted(q) /\ Ahead(q) /\ Stopping(q)
    BY ProducerFacts
  <2>2. Ahead(q)' /\ Stopping(q)'
    BY <2>1 DEF Ahead, Stopping
  <2>3. CASE q = p
    <3>1. window'[q] = [start |-> now, credit |-> Second, cost |-> 0]
      BY <2>3 DEF RateInv, RateTypes, Window
    <3>2. Position(limiter[q], now) >= InParts(now) - InParts(Second)
      BY <2>1, PositionBounds
    <3>3. /\ limiter[q].interval \in Nat /\ Price(limiter[q].interval) \in Nat
          /\ Price(limiter[q].interval) <= limiter[q].interval /\ InParts(Second) \in Nat
      BY <2>1, LimiterFacts
    <3>4. Held(q)' \in {0, Price(limiter[q].interval)}
      BY DEF Held
    <3>5. Accounted(q)'
      BY <2>1, <3>1, <3>2, <3>3, <3>4 DEF Accounted
    <3> QED BY <2>2, <3>5
  <2>4. CASE q # p
    <3>1. window'[q] = window[q]
      BY <2>4 DEF RateInv, RateTypes
    <3> QED BY <2>1, <2>2, <3>1 DEF Accounted, Held
  <2> QED BY <2>3, <2>4
<1> QED BY <1>1, <1>2 DEF RateInv

\* A permit is paid for: the limiter moves by the interval that is now held.
LEMMA AcquireStep ==
  ASSUME RateInv, NEW p \in Producers, Acquire(p)
  PROVE  RateInv'
<1> USE DEF Acquire, rateVars
<1> DEFINE l == limiter[p]
           m == Resync(l, now)
           r == Reserve(m)
<1>1. /\ l \in SomeLimiters /\ agent[p] \in [at : Places, wake : Nat]
      /\ p \in Agents /\ now \in Nat /\ Position(l, now) \in Int
      /\ l.interval \in Nat /\ Price(l.interval) \in Nat
      /\ l.next \in Nat /\ InParts(l.next) \in Nat /\ InParts(now) \in Nat
      /\ window[p].cost \in Nat
      /\ InParts(window[p].start) \in Nat /\ InParts(window[p].credit) \in Nat
      /\ Accounted(p) /\ Ahead(p) /\ Stopping(p)
  BY ProducerFacts
<1>2. m \in SomeLimiters /\ m.next = Larger(l.next, now)
  BY <1>1, ResyncPosition
<1>3. /\ r \in SomeLimiters /\ r.interval = l.interval
      /\ InParts(r.next) <= InParts(Larger(l.next, now)) + l.interval
      /\ Position(r, now) \in Int /\ Position(r, now) >= Position(l, now) + Price(l.interval)
  BY <1>1, AcquirePosition
<1>4. /\ limiter' = [limiter EXCEPT ![p] = r]
      /\ agent' = [agent EXCEPT ![p] = [at |-> "asleep", wake |-> m.next]]
      /\ agent[p].at = "loop"
  OBVIOUS
<1> HIDE DEF m, r
<1>5. limiter'[p] = r /\ agent'[p] = [at |-> "asleep", wake |-> m.next]
  BY <1>1, <1>4 DEF RateInv, RateTypes
<1>6. RateTypes' /\ (~Variable => value # Stopped)'
  <2>1. [at |-> "asleep", wake |-> m.next] \in [at : Places, wake : Nat]
    BY <1>2, LimiterFacts DEF Places
  <2>2. agent' \in [Agents -> [at : Places, wake : Nat]]
    BY <1>4, <2>1 DEF RateInv, RateTypes
  <2>3. limiter' \in [Producers -> SomeLimiters]
    BY <1>3, <1>4 DEF RateInv, RateTypes
  <2> QED BY <2>2, <2>3 DEF RateInv, RateTypes, Variable, Schedule
<1>7. ASSUME NEW q \in Producers PROVE (Accounted(q) /\ Ahead(q) /\ Stopping(q))'
  <2>1. CASE q = p
    <3>1. Held(p) = 0 /\ Held(p)' = Price(l.interval)
      BY <1>3, <1>4, <1>5 DEF Held
    <3>2. Accounted(p)'
      BY <1>1, <1>3, <1>5, <3>1 DEF Accounted
    <3>3. InParts(l.next) <= InParts(now) + l.interval
      BY <1>1, <1>4 DEF Ahead
    <3>4. Ahead(p)'
      <4>1. InParts(Larger(l.next, now)) <= InParts(now) + l.interval
        BY <1>1, <3>3 DEF Larger
      <4>2. InParts(r.next) \in Nat /\ InParts(m.next) \in Nat
        BY <1>2, <1>3, LimiterFacts
      <4>3. /\ InParts(r.next) <= InParts(now) + 2 * l.interval
            /\ InParts(r.next) <= InParts(m.next) + l.interval
        BY <1>1, <1>2, <1>3, <4>1, <4>2
      <4> QED BY <1>3, <1>5, <4>3 DEF Ahead
    <3>5. Stopping(p)'
      BY <1>1, <1>5 DEF Stopping
    <3> QED BY <2>1, <3>2, <3>4, <3>5
  <2>2. CASE q # p
    <3>1. limiter'[q] = limiter[q] /\ agent'[q] = agent[q]
      BY <1>4, <2>2 DEF RateInv, RateTypes, Agents
    <3>2. Accounted(q) /\ Ahead(q) /\ Stopping(q)
      BY DEF RateInv
    <3> QED BY <3>1, <3>2 DEF Accounted, Ahead, Stopping, Held
  <2> QED BY <2>1, <2>2
<1> QED BY <1>6, <1>7 DEF RateInv

\* What was held is published.
LEMMA PublishStep ==
  ASSUME RateInv, NEW p \in Producers, Publish(p)
  PROVE  RateInv'
<1> USE DEF Publish, Move, rateVars
<1>1. /\ limiter[p] \in SomeLimiters /\ agent[p] \in [at : Places, wake : Nat]
      /\ p \in Agents /\ now \in Nat /\ Position(limiter[p], now) \in Int
      /\ limiter[p].interval \in Nat /\ Price(limiter[p].interval) \in Nat
      /\ window[p].cost \in Nat
      /\ InParts(window[p].start) \in Nat /\ InParts(window[p].credit) \in Nat
      /\ stray[p] \in Nat
      /\ Accounted(p) /\ Ahead(p) /\ Stopping(p)
  BY ProducerFacts
<1>2. /\ agent'[p] = [agent[p] EXCEPT !.at = "total"] /\ agent[p].at = "publish"
      /\ window'[p] = [window[p] EXCEPT !.cost = @ + Price(limiter[p].interval)]
      /\ stray'[p] = IF value = Stopped THEN stray[p] + 1 ELSE stray[p]
  BY <1>1 DEF RateInv, RateTypes
<1>3. /\ window'[p].cost = window[p].cost + Price(limiter[p].interval)
      /\ window'[p].start = window[p].start /\ window'[p].credit = window[p].credit
      /\ agent'[p].at = "total"
  BY <1>1, <1>2 DEF RateInv, RateTypes
<1>4. RateTypes' /\ (~Variable => value # Stopped)'
  <2>1. agent' \in [Agents -> [at : Places, wake : Nat]]
    BY DEF RateInv, RateTypes, Places
  <2>2. Price(limiter[p].interval) \in Nat
    BY <1>1
  <2>3. window' \in [Producers -> [start : Nat, credit : {0, Second}, cost : Nat]]
    BY <2>2 DEF RateInv, RateTypes
  <2>4. stray' \in [Producers -> Nat]
    BY <1>1 DEF RateInv, RateTypes
  <2> QED BY <2>1, <2>3, <2>4 DEF RateInv, RateTypes, Variable, Schedule
<1>5. ASSUME NEW q \in Producers PROVE (Accounted(q) /\ Ahead(q) /\ Stopping(q))'
  <2>1. CASE q = p
    <3>1. Held(p) = Price(limiter[p].interval) /\ Held(p)' = 0
      BY <1>2, <1>3 DEF Held
    <3>2. Accounted(p)'
      BY <1>1, <1>3, <3>1 DEF Accounted
    <3>3. Ahead(p)'
      BY <1>1, <1>2 DEF Ahead
    <3>4. Stopping(p)'
      BY <1>1, <1>2, <1>3 DEF Stopping
    <3> QED BY <2>1, <3>2, <3>3, <3>4
  <2>2. CASE q # p
    <3>1. window'[q] = window[q] /\ agent'[q] = agent[q] /\ stray'[q] = stray[q]
      BY <2>2 DEF RateInv, RateTypes, Agents
    <3>2. Accounted(q) /\ Ahead(q) /\ Stopping(q)
      BY DEF RateInv
    <3> QED BY <3>1, <3>2 DEF Accounted, Ahead, Stopping, Held
  <2> QED BY <2>1, <2>2
<1> QED BY <1>4, <1>5 DEF RateInv

\* The steps that change nothing but where an agent is.
LEMMA MoveStep ==
  ASSUME RateInv, NEW a \in Agents, NEW from,
         NEW to \in {"added", "reset", "time", "loop", "total"},
         Move(a, from, to), from \notin {"asleep"},
         UNCHANGED <<setup, now, value, limiter, window, stray>>
  PROVE  RateInv'
<1> DEFINE r == [agent[a] EXCEPT !.at = to]
<1>1. agent \in [Agents -> [at : Places, wake : Nat]]
  BY DEF RateInv, RateTypes
<1>2. agent' = [agent EXCEPT ![a] = r] /\ agent[a].at # "asleep"
  BY <1>1 DEF Move
<1>3. r \in [at : Places \ {"asleep"}, wake : Nat] /\ r.at = to
  BY <1>1 DEF Places
<1> HIDE DEF r
<1> QED BY <1>2, <1>3, AgentMoves

\* The end of a wait.
LEMMA WakeStep ==
  ASSUME RateInv, NEW p \in Producers, Wake(p) \/ Resume(p)
  PROVE  RateInv'
<1>1. now \in Nat /\ now + Second \in Nat /\ p \in Agents
  BY SecondAssumption DEF RateInv, RateTypes, Agents
<1>2. CASE Resume(p)
  <2> DEFINE r == [at |-> "loop", wake |-> 0]
  <2>1. r \in [at : Places \ {"asleep"}, wake : Nat]
    BY DEF Places
  <2> QED BY <1>1, <1>2, <2>1, AgentMoves DEF Resume, rateVars
<1>3. CASE Wake(p) /\ Variable /\ value = Stopped
  <2> DEFINE r == [at |-> "paused", wake |-> now + Second]
  <2>1. r \in [at : Places \ {"asleep"}, wake : Nat]
    BY <1>1 DEF Places
  <2> QED BY <1>1, <1>3, <2>1, AgentMoves DEF Wake, rateVars
<1>4. CASE Wake(p) /\ ~(Variable /\ value = Stopped)
  <2> DEFINE r == [at |-> "publish", wake |-> 0]
  <2>1. r \in [at : Places \ {"asleep"}, wake : Nat]
    BY DEF Places
  <2>2. value # Stopped
    BY <1>4 DEF RateInv
  <2> QED BY <1>1, <1>4, <2>1, <2>2, AgentMoves DEF Wake, rateVars
<1> QED BY <1>2, <1>3, <1>4

LEMMA RateStep == RateInv /\ [Next]_vars => RateInv'
<1> SUFFICES ASSUME RateInv, [Next]_vars PROVE RateInv'
  OBVIOUS
<1>1. CASE UNCHANGED vars
  BY <1>1, RateUnchanged DEF vars, rateVars
<1>2. CASE MetricsStep
  BY <1>2, RateUnchanged DEF MetricsStep, rateVars
<1>3. CASE Tick
  BY <1>3, TickStep
<1>4. CASE UpdateValue
  BY <1>4, UpdateValueStep
<1>5. ASSUME NEW p \in Producers, Producer(p) PROVE RateInv'
  BY <1>5, AcquireStep, WakeStep, PublishStep, ValueChangedStep, ObserveStep DEF Producer
<1>6. ASSUME NEW c \in Consumers, Receive(c) PROVE RateInv'
  <2>1. c \in Agents
    BY DEF Agents
  <2> QED BY <1>6, <2>1, MoveStep DEF Receive, rateVars
<1>7. ASSUME NEW a \in Agents, Agent(a) PROVE RateInv'
  <2>1. CASE Start(a)
    BY <2>1, MoveStep DEF Start, rateVars
  <2>2. CASE AllStarted(a)
    <3>1. PICK to \in {"reset", "loop"} : Move(a, "added", to)
      BY <2>2 DEF AllStarted
    <3> QED BY <2>2, <3>1, MoveStep DEF AllStarted, rateVars
  <2>3. CASE Reset(a)
    <3>1. UNCHANGED <<setup, now, value, limiter, window, stray>>
      BY <2>3 DEF Reset, rateVars
    <3>2. CASE /\ agent[a].at = "reset"
               /\ agent' = [agent EXCEPT ![a] = [at |-> "received", wake |-> now]]
      <4>1. [at |-> "received", wake |-> now] \in [at : Places \ {"asleep"}, wake : Nat]
        BY DEF RateInv, RateTypes, Places
      <4> QED BY <3>1, <3>2, <4>1, AgentMoves
    <3> QED BY <2>3, <3>1, <3>2, MoveStep DEF Reset
  <2>4. CASE Total(a)
    BY <2>4, MoveStep DEF Total, rateVars
  <2> QED BY <1>7, <2>1, <2>2, <2>3, <2>4 DEF Agent
<1> QED BY <1>1, <1>2, <1>3, <1>4, <1>5, <1>6, <1>7 DEF Next

\* The invariant of the producers holds, whatever the schedule and the delays.
THEOREM RateInvariance == Spec => []RateInv
<1>1. Init => RateInv
  BY RateInit
<1>2. RateInv /\ [Next]_vars => RateInv'
  BY RateStep
<1> QED BY <1>1, <1>2, PTL DEF Spec

\* A producer publishes no more than its rate allows, in any stretch of time: the
\* limiter hands out permits ahead of their time and saves up to a second.
THEOREM RateIsHonoured == Spec => []RateHonoured
<1>1. ASSUME RateInv PROVE RateHonoured
  <2> SUFFICES ASSUME NEW p \in Producers
               PROVE  window[p].cost
                        <= InParts((now - window[p].start) + window[p].credit)
                             + 2 * limiter[p].interval + Lost(limiter[p].interval)
    BY DEF RateHonoured
  <2> DEFINE l == limiter[p]
             i == l.interval
  <2>1. /\ l \in SomeLimiters /\ now \in Nat /\ Position(l, now) \in Int
        /\ l.next \in Nat /\ InParts(l.next) \in Nat /\ InParts(now) \in Nat
        /\ window[p].start \in Nat /\ window[p].credit \in Nat /\ window[p].cost \in Nat
        /\ InParts(window[p].start) \in Nat /\ InParts(window[p].credit) \in Nat
        /\ Accounted(p) /\ Ahead(p)
    BY <1>1, ProducerFacts
  <2>2. i \in Nat /\ Price(i) \in Nat /\ Lost(i) \in Nat /\ Price(i) + Lost(i) = i
    BY <2>1, LimiterFacts
  <2>3. Position(l, now) <= InParts(Larger(l.next, now))
    BY <2>1, PositionBounds
  <2>4. InParts((now - window[p].start) + window[p].credit)
          = InParts(now) - InParts(window[p].start) + InParts(window[p].credit)
    <3>1. now \in Int /\ window[p].start \in Int /\ window[p].credit \in Int
          /\ now - window[p].start \in Int
      BY <2>1
    <3> QED BY <3>1, InPartsSum, InPartsDifference, Zenon
  <2>5. Position(l, now) - Held(p) <= InParts(now) + i + Lost(i)
    BY <2>1, <2>2, <2>3 DEF Held, Ahead, Larger
  <2>6. Held(p) \in Nat
    BY <2>2 DEF Held
  <2> QED BY <2>1, <2>2, <2>4, <2>5, <2>6 DEF Accounted
<1> QED BY <1>1, RateInvariance, PTL

\* The next permit of a limiter is one interval away at most once the producer
\* has the one it waits for: waits do not add up.
THEOREM PermitComesInTime == Spec => []PermitInTime
<1>1. ASSUME RateInv PROVE PermitInTime
  <2> SUFFICES ASSUME NEW p \in Producers
               PROVE  InParts(limiter[p].next)
                        <= InParts(Larger(now, agent[p].wake)) + limiter[p].interval
    BY DEF PermitInTime
  <2>1. /\ limiter[p].interval \in Nat /\ agent[p] \in [at : Places, wake : Nat]
        /\ InParts(limiter[p].next) \in Nat /\ now \in Nat /\ Ahead(p)
    BY <1>1, ProducerFacts
  <2> DEFINE m == Larger(now, agent[p].wake)
  <2>2. m \in Nat /\ now <= m /\ agent[p].wake <= m
    BY <2>1 DEF Larger
  <2> HIDE DEF m
  <2>3. /\ InParts(now) <= InParts(m) /\ InParts(agent[p].wake) <= InParts(m)
        /\ InParts(now) \in Nat /\ InParts(m) \in Nat /\ InParts(agent[p].wake) \in Nat
    BY <2>1, <2>2, InPartsOrder, InPartsType
  <2> QED BY <2>1, <2>3 DEF Ahead, m
<1> QED BY <1>1, RateInvariance, PTL

\* While a variable rate is 0 a producer publishes at most the message it was
\* about to publish, although it reads the rate only after its wait.
THEOREM StopsWhenRateIsZero == Spec => []StopsAtZero
<1>1. ASSUME RateInv PROVE StopsAtZero
  BY <1>1 DEF RateInv, Stopping, StopsAtZero
<1> QED BY <1>1, RateInvariance, PTL

-----------------------------------------------------------------------------
(***************************************************************************)
(* The reports. A count is in the reports printed so far or in the one     *)
(* under way; the counter that was read but not yet remembered is the only *)
(* one whose last value lags behind.                                       *)
(***************************************************************************)
Counts == [Counters -> Int]

ReportTypes ==
  /\ now \in Int /\ lastTick \in Int /\ reportedTime \in Int
  /\ counter \in Counts /\ last \in Counts /\ reported \in Counts
  /\ report \in [counts : Counts, elapsed : Int]
  /\ reporter \in [at : {"idle", "read", "set", "report"}, of : Counters, value : Int]

\* Counters the report under way has not got to yet.
Unread(c) ==
  \/ reporter.at = "read" /\ (reporter.of = c \/ c = "received")
  \/ reporter.at = "set" /\ reporter.of = "published" /\ c = "received"

ReportedSoFar(c) ==
  reported[c] + report.counts[c]
    = IF reporter.at = "set" /\ reporter.of = c THEN reporter.value ELSE last[c]

ReportInv ==
  /\ ReportTypes
  /\ reporter.at = "idle" => report = NoReport
  /\ \A c \in Counters : Unread(c) => report.counts[c] = 0
  /\ running => /\ reportedTime + report.elapsed = lastTick
                /\ \A c \in Counters : ReportedSoFar(c)

LEMMA ReportInit == Init => ReportInv
<1> SUFFICES ASSUME Init PROVE ReportInv
  OBVIOUS
<1> USE DEF Init, MetricsInit
<1>1. Zero \in Counts /\ NoReport \in [counts : Counts, elapsed : Int]
      /\ NoReport.counts = Zero /\ NoReport.elapsed = 0
      /\ \A c \in Counters : Zero[c] = 0
  BY DEF Zero, Counts, NoReport
<1>2. ReportTypes
  BY <1>1 DEF ReportTypes, Counters
<1> QED BY <1>1, <1>2 DEF ReportInv, Unread, ReportedSoFar

\* Whatever the agents count, the reporting thread finds what it had.
LEMMA ReportUnchanged ==
  ASSUME ReportInv, UNCHANGED <<last, lastTick, reporter, reported, reportedTime, report>>,
         running' => running, counter' \in Counts, now' \in Int
  PROVE  ReportInv'
<1>1. ReportTypes'
  BY DEF ReportInv, ReportTypes
<1>2. \A c \in Counters : Unread(c)' => (report.counts[c] = 0)'
  BY DEF ReportInv, Unread
<1>3. running' => \A c \in Counters : ReportedSoFar(c)'
  BY DEF ReportInv, ReportedSoFar
<1> QED BY <1>1, <1>2, <1>3 DEF ReportInv

\* The report begins where the last one ended.
LEMMA ReportBeginStep ==
  ASSUME ReportInv, NEW i, ReportBegin(now, i), now' = now
  PROVE  ReportInv'
<1> USE DEF ReportBegin, countVars, endingVars
<1>1. CASE NoActivity
  <2>1. counter' \in Counts /\ now' \in Int
    BY DEF ReportInv, ReportTypes
  <2> QED BY <1>1, <2>1, ReportUnchanged
<1>2. CASE ~NoActivity
  <2>1. Zero \in Counts /\ \A c \in Counters : Zero[c] = 0
    BY DEF Zero, Counts
  <2>2. report' = [counts |-> Zero, elapsed |-> now - lastTick] /\ lastTick' = now
        /\ reporter' = [at |-> "read", of |-> "published", value |-> 0]
    BY <1>2
  <2>3. ReportTypes'
    BY <2>1, <2>2 DEF ReportInv, ReportTypes, Counters
  <2>4. report = NoReport /\ report.counts = Zero /\ report.elapsed = 0
    BY DEF ReportInv, NoReport
  <2>5. \A c \in Counters : Unread(c)' => (report.counts[c] = 0)'
    BY <2>1, <2>2
  <2>6. running => \A c \in Counters : ReportedSoFar(c)'
    BY <2>1, <2>2, <2>4 DEF ReportInv, ReportedSoFar
  <2>7. running => reportedTime + 0 = lastTick
    BY <2>4 DEF ReportInv
  <2>8. running' => (reportedTime + report.elapsed = lastTick)'
    BY <2>2, <2>7 DEF ReportInv, ReportTypes
  <2> QED BY <2>2, <2>3, <2>5, <2>6, <2>8 DEF ReportInv
<1> QED BY <1>1, <1>2

\* A counter is read: the difference is what has not been reported.
LEMMA SwapReadStep ==
  ASSUME ReportInv, SwapRead, now' = now
  PROVE  ReportInv'
<1> USE DEF SwapRead, countVars, endingVars
<1> DEFINE k == reporter.of
<1>1. /\ k \in Counters /\ reporter.at = "read"
      /\ counter[k] \in Int /\ last[k] \in Int
  BY DEF ReportInv, ReportTypes, Counts
<1>2. /\ reporter'.at = "set" /\ reporter'.of = k /\ reporter'.value = counter[k]
      /\ report'.elapsed = report.elapsed
      /\ report'.counts = [report.counts EXCEPT ![k] = counter[k] - last[k]]
  BY DEF ReportInv, ReportTypes
<1>3. ReportTypes'
  <2>1. reporter' \in [at : {"idle", "read", "set", "report"}, of : Counters, value : Int]
    BY <1>1 DEF ReportInv, ReportTypes
  <2>2. report'.counts \in Counts
    BY <1>1, <1>2 DEF ReportInv, ReportTypes, Counts
  <2>3. report' \in [counts : Counts, elapsed : Int]
    BY <1>1, <2>2 DEF ReportInv, ReportTypes
  <2> QED BY <2>1, <2>3 DEF ReportInv, ReportTypes
<1>4. \A c \in Counters : c # k => report'.counts[c] = report.counts[c]
  BY <1>2 DEF ReportInv, ReportTypes, Counts
<1>5. report'.counts[k] = counter[k] - last[k]
  BY <1>1, <1>2 DEF ReportInv, ReportTypes, Counts
<1>6. \A c \in Counters : Unread(c)' => (report.counts[c] = 0)'
  BY <1>1, <1>2, <1>4 DEF ReportInv, Unread
<1>7. ASSUME running, NEW c \in Counters PROVE ReportedSoFar(c)'
  <2>1. ReportedSoFar(c) /\ reported[c] \in Int /\ report.counts[c] \in Int
    BY <1>7 DEF ReportInv, ReportTypes, Counts
  <2>2. CASE c = k
    <3>1. report.counts[c] = 0
      BY <1>1, <2>2 DEF ReportInv, Unread
    <3>2. reported[c] = last[c]
      BY <1>1, <2>1, <3>1 DEF ReportedSoFar
    <3> QED BY <1>1, <1>2, <1>5, <2>2, <3>2 DEF ReportedSoFar
  <2>3. CASE c # k
    BY <1>1, <1>2, <1>4, <2>1, <2>3 DEF ReportedSoFar
  <2> QED BY <2>2, <2>3
<1> QED BY <1>2, <1>3, <1>6, <1>7 DEF ReportInv

\* The value that was read is remembered, not the one the counter has now.
LEMMA SwapSetStep ==
  ASSUME ReportInv, SwapSet, now' = now
  PROVE  ReportInv'
<1> USE DEF SwapSet, countVars, endingVars
<1> DEFINE k == reporter.of
<1>1. k \in Counters /\ reporter.at = "set" /\ reporter.value \in Int
  BY DEF ReportInv, ReportTypes
<1>2. /\ reporter'.at = (IF k = "published" THEN "read" ELSE "report")
      /\ reporter'.of = "received"
  BY DEF AfterSet
<1>3. ReportTypes'
  <2>1. reporter' \in [at : {"idle", "read", "set", "report"}, of : Counters, value : Int]
    BY DEF AfterSet, Counters
  <2>2. last' \in Counts
    BY <1>1 DEF ReportInv, ReportTypes, Counts
  <2> QED BY <2>1, <2>2 DEF ReportInv, ReportTypes
<1>4. \A c \in Counters : Unread(c)' => (report.counts[c] = 0)'
  BY <1>1, <1>2 DEF ReportInv, Unread, Counters
<1>5. ASSUME running, NEW c \in Counters PROVE ReportedSoFar(c)'
  <2>1. ReportedSoFar(c)
    BY <1>5 DEF ReportInv
  <2>2. last'[c] = IF c = k THEN reporter.value ELSE last[c]
    BY <1>1 DEF ReportInv, ReportTypes, Counts
  <2> QED BY <1>1, <1>2, <2>1, <2>2 DEF ReportedSoFar
<1> QED BY <1>2, <1>3, <1>4, <1>5 DEF ReportInv

\* The report is printed: what was under way is done.
LEMMA ReportStep ==
  ASSUME ReportInv, Report, now' = now
  PROVE  ReportInv'
<1> USE DEF Report, countVars, endingVars
<1>1. /\ Zero \in Counts /\ \A c \in Counters : Zero[c] = 0
      /\ NoReport \in [counts : Counts, elapsed : Int]
      /\ NoReport.counts = Zero /\ NoReport.elapsed = 0
  BY DEF Zero, Counts, NoReport
<1>2. /\ reporter.at = "report" /\ reporter'.at = "idle" /\ reporter'.of = "published"
      /\ reporter' \in [at : {"idle", "read", "set", "report"}, of : Counters, value : Int]
  BY DEF ReportInv, ReportTypes, Counters
<1>3. reported' \in Counts /\ reportedTime' \in Int
  BY DEF ReportInv, ReportTypes, Counts
<1>4. ReportTypes'
  BY <1>1, <1>2, <1>3 DEF ReportInv, ReportTypes
<1>5. \A c \in Counters : Unread(c)' => (report.counts[c] = 0)'
  BY <1>1
<1>6. ASSUME running, NEW c \in Counters PROVE ReportedSoFar(c)'
  <2>1. ReportedSoFar(c) /\ last[c] \in Int
    BY <1>6 DEF ReportInv, ReportTypes, Counts
  <2>2. reported'[c] = reported[c] + report.counts[c]
    BY <1>6
  <2> QED BY <1>1, <1>2, <2>1, <2>2 DEF ReportedSoFar
<1>7. running => (reportedTime + report.elapsed = lastTick)'
  BY <1>1, <1>3 DEF ReportInv
<1> QED BY <1>2, <1>4, <1>5, <1>6, <1>7 DEF ReportInv

LEMMA ReportsStep == ReportInv /\ [Next]_vars => ReportInv'
<1> SUFFICES ASSUME ReportInv, [Next]_vars PROVE ReportInv'
  OBVIOUS
<1> USE DEF metricsVars, reportVars, countVars, endingVars
<1>1. now \in Int /\ counter \in Counts
  BY DEF ReportInv, ReportTypes
<1>2. CASE UNCHANGED <<now, metricsVars>>
  BY <1>1, <1>2, ReportUnchanged
<1>3. CASE MetricsStep
  <2>1. now' = now
    BY <1>3 DEF MetricsStep
  <2>2. CASE Close(now) \/ SummaryStart \/ SummaryTotal
    BY <1>1, <2>1, <2>2, ReportUnchanged DEF Close, SummaryStart, SummaryTotal
  <2> QED BY <1>3, <2>1, <2>2, ReportBeginStep, SwapReadStep, SwapSetStep, ReportStep
          DEF MetricsStep
<1>4. CASE Tick
  BY <1>1, <1>4, ReportUnchanged DEF Tick
<1>5. CASE UpdateValue
  BY <1>2, <1>5 DEF UpdateValue
<1>6. ASSUME NEW c \in Counters, CountEvent(c), now' = now PROVE ReportInv'
  <2>1. counter' \in Counts
    BY <1>1, <1>6 DEF CountEvent, Counts
  <2> QED BY <1>1, <1>6, <2>1, ReportUnchanged DEF CountEvent
<1>7. ASSUME NEW p \in Producers, Producer(p) PROVE ReportInv'
  <2>1. CASE Publish(p)
    BY <1>6, <2>1 DEF Publish, Counters
  <2> QED BY <1>2, <1>7, <2>1
          DEF Producer, Acquire, Wake, Resume, ValueChanged, Observe
<1>8. ASSUME NEW c \in Consumers, Receive(c) PROVE ReportInv'
  BY <1>6, <1>8 DEF Receive, Counters
<1>9. ASSUME NEW a \in Agents, Agent(a) PROVE ReportInv'
  <2>1. CASE Start(a) \/ AllStarted(a)
    BY <1>2, <2>1 DEF Start, AllStarted
  <2>2. CASE Reset(a)
    BY <1>1, <2>2, ReportUnchanged DEF Reset, ResetTotal, ResetTime
  <2>3. CASE Total(a)
    BY <1>1, <2>3, ReportUnchanged DEF Total, CountTotal
  <2> QED BY <1>9, <2>1, <2>2, <2>3 DEF Agent
<1>10. CASE UNCHANGED vars
  BY <1>2, <1>10 DEF vars
<1> QED BY <1>3, <1>4, <1>5, <1>7, <1>8, <1>9, <1>10 DEF Next

\* Each event is in one report or still to be reported, and the times of the
\* reports follow each other, for any number of agents that count meanwhile.
THEOREM ReportsAreExact == Spec => []ReportsAddUp
<1>1. ASSUME ReportInv PROVE ReportsAddUp
  <2> SUFFICES ASSUME running, reporter.at = "idle"
               PROVE  reported = last /\ reportedTime = lastTick
    BY DEF ReportsAddUp
  <2>1. report.counts = [c \in Counters |-> 0] /\ report.elapsed = 0
    BY <1>1 DEF ReportInv, NoReport, Zero
  <2>2. \A c \in Counters : reported[c] = last[c]
    BY <1>1, <2>1 DEF ReportInv, ReportTypes, ReportedSoFar, Counts
  <2>3. reported = last
    BY <1>1, <2>2 DEF ReportInv, ReportTypes, Counts
  <2>4. reportedTime = lastTick
    BY <1>1, <2>1 DEF ReportInv, ReportTypes
  <2> QED BY <2>3, <2>4
<1>2. Init => ReportInv
  BY ReportInit
<1>3. ReportInv /\ [Next]_vars => ReportInv'
  BY ReportsStep
<1> QED BY <1>1, <1>2, <1>3, PTL DEF Spec

-----------------------------------------------------------------------------
(***************************************************************************)
(* The schedule of the rate. Updates are due at the multiples of the       *)
(* period. An update may be late, and while it is the value is that of an  *)
(* earlier period; but within a period the schedule has one value.         *)
(***************************************************************************)
Cycle == End(Schedule, Len(Schedule))

\* The value is that of the interval the time is in.
ValueInTime ==
  \E i \in 1..Len(Schedule) : IsIn(Schedule, i, now % Cycle) /\ value = Schedule[i].value

ScheduleInv ==
  /\ due \in Nat /\ notify \subseteq Producers
  /\ Divides(Period(Schedule), due)
  /\ due # 0 => now >= due - Period(Schedule)
  /\ ~Variable => due = 0
  /\ now < due => ValueInTime
  /\ \A p \in setup.producers : p \in notify \/ value = Stopped \/ limiter[p].interval = value

\* What the assumption on the tests says of the one that runs.
LEMMA ScheduleFacts ==
  ASSUME setup \in Setups
  PROVE  /\ Schedule \in Schedules /\ setup.producers \subseteq Producers
         /\ Period(Schedule) \in Nat \ {0} /\ Len(Schedule) \in Nat \ {0}
         /\ Cycle \in Nat \ {0}
<1>1. setup \in SetupRecords /\ Schedule # <<>>
  BY ThroughputAssumption DEF Schedule
<1>2. Schedule \in Schedules /\ setup.producers \subseteq Producers
  BY <1>1 DEF SetupRecords, Schedule, Schedules
<1>3. Period(Schedule) \in Nat \ {0} /\ Len(Schedule) \in Nat \ {0}
  BY <1>2, PeriodDivides, Durations
<1>4. Len(Schedule) \in 0..Len(Schedule)
  BY <1>3
<1> QED BY <1>2, <1>3, <1>4, EndEquation, EndOrder DEF Cycle

LEMMA ScheduleInit == Init => ScheduleInv
<1> SUFFICES ASSUME Init PROVE ScheduleInv
  OBVIOUS
<1>1. setup \in Setups
  BY DEF Init
<1>2. Period(Schedule) \in Nat /\ setup.producers \subseteq Producers
  BY <1>1, ScheduleFacts
<1>3. due = 0 /\ notify = {} /\ now = 0 /\ Divides(Period(Schedule), 0)
  BY <1>2 DEF Init, Divides
<1>4. ASSUME NEW p \in setup.producers PROVE value = Stopped \/ limiter[p].interval = value
  BY <1>2 DEF Init, Create, FirstInterval
<1> QED BY <1>3, <1>4 DEF ScheduleInv

\* A step of anyone but the clock and the indicator.
LEMMA ScheduleUnchanged ==
  ASSUME ScheduleInv, UNCHANGED <<setup, now, rateVars>>,
         \A p \in setup.producers : limiter'[p].interval = limiter[p].interval
  PROVE  ScheduleInv'
BY DEF ScheduleInv, rateVars, Schedule, Variable, ValueInTime, Cycle

LEMMA ScheduleStep == RateInv /\ ScheduleInv /\ [Next]_vars => ScheduleInv'
<1> SUFFICES ASSUME RateInv, ScheduleInv, [Next]_vars PROVE ScheduleInv'
  OBVIOUS
<1> DEFINE s == Schedule
           P == Period(s)
<1>1. /\ setup \in Setups /\ now \in Nat /\ value \in Nat
      /\ limiter \in [Producers -> SomeLimiters]
  BY DEF RateInv, RateTypes
<1>2. /\ s \in Schedules /\ setup.producers \subseteq Producers
      /\ P \in Nat \ {0} /\ Len(s) \in Nat \ {0} /\ Cycle \in Nat \ {0}
  BY <1>1, ScheduleFacts
<1>3. /\ due \in Nat /\ notify \subseteq Producers /\ Divides(P, due)
      /\ due # 0 => now >= due - P
      /\ ~Variable => due = 0
      /\ now < due => ValueInTime
      /\ \A p \in setup.producers : p \in notify \/ value = Stopped \/ limiter[p].interval = value
  BY DEF ScheduleInv
<1>4. ASSUME UNCHANGED <<setup, now, rateVars, limiter>> PROVE ScheduleInv'
  BY <1>4, ScheduleUnchanged
<1>5. CASE Tick
  <2>1. now' = now + 1 /\ UNCHANGED <<setup, value, due, notify, limiter>>
    BY <1>5 DEF Tick, rateVars, producerVars
  <2>2. Schedule' = Schedule /\ Variable' = Variable /\ Cycle' = Cycle
    BY <2>1 DEF Schedule, Variable, Cycle
  <2>3. ASSUME now + 1 < due PROVE ValueInTime'
    <3>1. now < due /\ due # 0
      BY <1>1, <1>3, <2>3
    <3>2. PICK i \in 1..Len(s) : IsIn(s, i, now % Cycle) /\ value = s[i].value
      BY <1>3, <3>1 DEF ValueInTime
    <3>3. PICK k \in Nat : due = P * k
      BY <1>3 DEF Divides
    <3>4. k # 0 /\ k - 1 \in Nat /\ (k - 1) + 1 = k
      BY <1>2, <3>1, <3>3
    <3>5. P * (k - 1) = due - P
      BY <1>2, <3>3
    <3>6. /\ P * (k - 1) <= now /\ now < P * ((k - 1) + 1)
          /\ P * (k - 1) <= now + 1 /\ now + 1 < P * ((k - 1) + 1)
      BY <1>1, <1>2, <1>3, <2>3, <3>1, <3>3, <3>4, <3>5
    <3>7. IsIn(s, i, (now + 1) % Cycle)
      BY <1>1, <1>2, <3>2, <3>4, <3>6, SamePeriod DEF Cycle
    <3> QED BY <2>1, <2>2, <3>2, <3>7 DEF ValueInTime
  <2>4. due # 0 => now + 1 >= due - P
    BY <1>1, <1>2, <1>3
  <2> QED BY <1>3, <2>1, <2>2, <2>3, <2>4 DEF ScheduleInv
<1>6. CASE UpdateValue
  <2>1. /\ Variable /\ now >= due /\ notify = {}
        /\ due' = due + P /\ value' = ValueOf(s, now, value)
        /\ notify' = IF value' # value THEN setup.producers ELSE {}
        /\ UNCHANGED <<setup, now, limiter>>
    BY <1>6 DEF UpdateValue
  <2>2. Schedule' = Schedule /\ Variable' = Variable /\ Cycle' = Cycle
    BY <2>1 DEF Schedule, Variable, Cycle
  <2>3. ValueInTime'
    <3>1. now % Cycle \in Nat /\ now % Cycle < Cycle
      BY <1>1, <1>2
    <3>2. PICK i \in 1..Len(s) : IsIn(s, i, now % Cycle)
      BY <1>2, <3>1, InSomeInterval DEF Cycle
    <3>3. value' = s[i].value
      BY <1>1, <1>2, <2>1, <3>2, ValueOfInterval DEF Cycle
    <3> QED BY <2>1, <2>2, <3>2, <3>3 DEF ValueInTime
  <2>4. due' \in Nat /\ Divides(P, due') /\ now >= due' - P
    <3> HIDE DEF P
    <3>1. Divides(P, P)
      <4>1. P = P * 1
        BY <1>2
      <4> QED BY <4>1 DEF Divides
    <3>2. Divides(P, due + P)
      BY <1>2, <1>3, <3>1, DividesSum
    <3>3. due + P \in Nat /\ now >= (due + P) - P
      BY <1>1, <1>2, <1>3, <2>1
    <3> QED BY <2>1, <3>2, <3>3
  <2>5. \A p \in setup.producers : p \in notify' \/ value' = Stopped \/ limiter[p].interval = value'
    BY <1>3, <2>1
  <2>6. notify' \subseteq Producers
    BY <1>2, <2>1
  <2> QED BY <2>1, <2>2, <2>3, <2>4, <2>5, <2>6 DEF ScheduleInv
<1>7. ASSUME NEW p \in Producers, ValueChanged(p) PROVE ScheduleInv'
  <2>1. /\ notify' = notify \ {p} /\ UNCHANGED <<setup, now, value, due>>
        /\ IF value = Stopped THEN limiter' = limiter
                              ELSE limiter' = [limiter EXCEPT ![p] = Create(value, now)]
    BY <1>7 DEF ValueChanged
  <2>2. Schedule' = Schedule /\ Variable' = Variable /\ ValueInTime' = ValueInTime
    BY <2>1 DEF Schedule, Variable, ValueInTime, Cycle
  <2>3. ASSUME NEW q \in setup.producers
        PROVE  q \in notify' \/ value = Stopped \/ limiter'[q].interval = value
    BY <1>1, <1>2, <1>3, <2>1 DEF Create
  <2> QED BY <1>3, <2>1, <2>2, <2>3 DEF ScheduleInv
<1>8. ASSUME NEW p \in Producers, Acquire(p) PROVE ScheduleInv'
  <2> DEFINE l == Resync(limiter[p], now)
  <2>1. /\ limiter' = [limiter EXCEPT ![p] = Reserve(l)]
        /\ UNCHANGED <<setup, now, rateVars>>
    BY <1>8 DEF Acquire
  <2>2. Reserve(l).interval = limiter[p].interval
    <3>1. l.interval = limiter[p].interval
      BY <1>1, ResyncPosition
    <3> QED BY <3>1 DEF Reserve
  <2>3. \A q \in setup.producers : limiter'[q].interval = limiter[q].interval
    <3> HIDE DEF l
    <3> QED BY <1>1, <1>2, <2>1, <2>2
  <2> QED BY <2>1, <2>3, ScheduleUnchanged
<1>9. CASE UNCHANGED vars \/ MetricsStep
  BY <1>4, <1>9 DEF vars, MetricsStep, producerVars
<1>10. ASSUME NEW p \in Producers, Producer(p) PROVE ScheduleInv'
  <2>1. CASE Wake(p) \/ Resume(p) \/ Publish(p)
    BY <1>4, <2>1 DEF Wake, Resume, Publish
  <2>2. CASE Observe(p)
    BY <1>4, <2>2 DEF Observe
  <2> QED BY <1>7, <1>8, <1>10, <2>1, <2>2 DEF Producer
<1>11. CASE \/ \E c \in Consumers : Receive(c)
            \/ \E a \in Agents : Agent(a)
  BY <1>4, <1>11 DEF Receive, Agent, Start, AllStarted, Reset, Total
<1> QED BY <1>5, <1>6, <1>9, <1>10, <1>11 DEF Next

\* The value is never that of another time than it was last updated in, and
\* the updates keep to the multiples of the period, however late each one is.
THEOREM ScheduleInvariance == Spec => []ScheduleInv
<1>1. RateInv /\ ScheduleInv /\ [Next]_vars => ScheduleInv'
  BY ScheduleStep
<1> QED BY <1>1, ScheduleInit, RateInvariance, PTL DEF Spec

\* Type correctness, for every schedule: the period of the updates is a number.
THEOREM TypeCorrect == Spec => []TypeOK
<1>1. RateInv /\ ScheduleInv => TypeOK
  <2> SUFFICES ASSUME RateInv, ScheduleInv PROVE TypeOK
    OBVIOUS
  <2>1. SomeLimiters \subseteq Limiters
    BY SecondAssumption DEF SomeLimiters, Limiters
  <2>2. limiter \in [Producers -> Limiters]
    BY <2>1 DEF RateInv, RateTypes
  <2> QED BY <2>2 DEF RateInv, RateTypes, ScheduleInv, TypeOK, Places
<1> QED BY <1>1, RateInvariance, ScheduleInvariance, PTL

\* A variable rate, and every limiter, follow the schedule as it is written out
\* unit by unit, in every cycle: no update comes too early, none is left out and
\* none of the changes falls between two updates, whatever the durations are.
THEOREM FollowsSchedule == Spec => []OnSchedule
<1>1. RateInv /\ ScheduleInv => OnSchedule
  <2> SUFFICES ASSUME RateInv, ScheduleInv, now < due, notify = {} PROVE
                 /\ value = Expanded[(now % Len(Expanded)) + 1]
                 /\ \A p \in setup.producers : value # Stopped => limiter[p].interval = value
    BY DEF OnSchedule
  <2>1. setup \in Setups /\ now \in Nat
    BY DEF RateInv, RateTypes
  <2>2. Schedule \in Schedules /\ Cycle \in Nat \ {0}
    BY <2>1, ScheduleFacts
  <2>3. Expanded = FlattenSeq(Runs(Schedule))
    BY DEF Expanded, Runs
  <2>4. PICK i \in 1..Len(Schedule) : IsIn(Schedule, i, now % Cycle) /\ value = Schedule[i].value
    BY DEF ScheduleInv, ValueInTime
  <2>5. now % Cycle \in Nat
    BY <2>1, <2>2
  <2>6. Len(Expanded) = Cycle
    BY <2>2, <2>3, WrittenOut DEF Cycle
  <2>7. Expanded[(now % Cycle) + 1] = Schedule[i].value
    BY <2>2, <2>3, <2>4, <2>5, WrittenOut
  <2>8. \A p \in setup.producers : value # Stopped => limiter[p].interval = value
    BY DEF ScheduleInv
  <2> QED BY <2>4, <2>6, <2>7, <2>8
<1> QED BY <1>1, RateInvariance, ScheduleInvariance, PTL

-----------------------------------------------------------------------------
(***************************************************************************)
(* The counts of several producers. A count is shared by the producers: n  *)
(* says how many of it each one has published, and each one has the        *)
(* balance for them. The state has the sum only, so that there is such an  *)
(* n is what the invariant says.                                           *)
(***************************************************************************)
\* The messages of each producer, numbered.
Share(P, n) == {e \in P \X Nat : e[2] < n[e[1]]}

Covered(P, v, count, balance) ==
  \E n \in [P -> Nat] :
    /\ IsFiniteSet(Share(P, n)) /\ Cardinality(Share(P, n)) = count
    /\ \A p \in P : n[p] * v <= balance[p]

\* Nothing is covered by any balance.
LEMMA CoverNone ==
  ASSUME NEW P, NEW v \in Nat, NEW b \in [P -> Int], \A p \in P : 0 <= b[p]
  PROVE  Covered(P, v, 0, b)
<1> DEFINE n == [p \in P |-> 0]
<1>1. Share(P, n) = {}
  <2>1. ASSUME NEW e \in P \X Nat PROVE ~(e[2] < n[e[1]])
    <3>1. e[1] \in P /\ e[2] \in Nat
      OBVIOUS
    <3> QED BY <3>1
  <2> QED BY <2>1 DEF Share
<1>2. \A p \in P : n[p] * v <= b[p]
  OBVIOUS
<1>3. n \in [P -> Nat]
  OBVIOUS
<1> HIDE DEF n
<1> QED BY <1>1, <1>2, <1>3, FS_EmptySet DEF Covered

\* A larger balance covers as much.
LEMMA CoverSame ==
  ASSUME NEW P, NEW v \in Nat, NEW c, NEW b \in [P -> Int], NEW d \in [P -> Int],
         Covered(P, v, c, b), \A p \in P : b[p] <= d[p]
  PROVE  Covered(P, v, c, d)
<1>1. PICK n \in [P -> Nat] :
        /\ IsFiniteSet(Share(P, n)) /\ Cardinality(Share(P, n)) = c
        /\ \A p \in P : n[p] * v <= b[p]
  BY DEF Covered
<1>2. ASSUME NEW p \in P PROVE n[p] * v <= d[p]
  <2>1. n[p] * v \in Int /\ n[p] * v <= b[p] /\ b[p] \in Int /\ d[p] \in Int /\ b[p] <= d[p]
    BY <1>1
  <2> QED BY <2>1
<1> QED BY <1>1, <1>2 DEF Covered

\* The price of one message covers one more.
LEMMA CoverOneMore ==
  ASSUME NEW P, NEW v \in Nat, NEW c, NEW b \in [P -> Int], NEW d \in [P -> Int],
         NEW q \in P, Covered(P, v, c, b), \A p \in P : b[p] <= d[p], b[q] + v <= d[q]
  PROVE  Covered(P, v, c + 1, d)
<1>1. PICK n \in [P -> Nat] :
        /\ IsFiniteSet(Share(P, n)) /\ Cardinality(Share(P, n)) = c
        /\ \A p \in P : n[p] * v <= b[p]
  BY DEF Covered
<1> DEFINE m == [n EXCEPT ![q] = @ + 1]
           new == <<q, n[q]>>
<1>2. m \in [P -> Nat] /\ m[q] = n[q] + 1 /\ \A p \in P : p # q => m[p] = n[p]
  BY <1>1
<1>3. Share(P, m) = Share(P, n) \cup {new} /\ new \notin Share(P, n)
  <2> HIDE DEF m
  <2>1. new \in P \X Nat /\ new[1] = q /\ new[2] = n[q]
    BY <1>1
  <2>2. ASSUME NEW e \in P \X Nat
        PROVE  (e[2] < m[e[1]]) <=> (e[2] < n[e[1]] \/ e = new)
    <3>1. e[1] \in P /\ e[2] \in Nat /\ e = <<e[1], e[2]>>
      OBVIOUS
    <3>2. CASE e[1] = q
      <4>1. e = new <=> e[2] = n[q]
        <5>1. e[2] = n[q] => e = new
          BY <3>1, <3>2, Zenon
        <5> HIDE DEF new
        <5> QED BY <2>1, <5>1, Zenon
      <4>2. m[e[1]] = n[q] + 1 /\ n[e[1]] = n[q] /\ n[q] \in Nat
        BY <1>1, <1>2, <3>2
      <4> HIDE DEF new
      <4> QED BY <3>1, <4>1, <4>2
    <3>3. CASE e[1] # q
      BY <1>2, <3>1, <3>3
    <3> QED BY <3>2, <3>3
  <2>3. ~(new[2] < n[new[1]])
    BY <1>1, <2>1
  <2> HIDE DEF new
  <2> QED BY <2>1, <2>2, <2>3 DEF Share
<1> HIDE DEF m, new
<1>4. IsFiniteSet(Share(P, m)) /\ Cardinality(Share(P, m)) = c + 1
  BY <1>1, <1>3, FS_AddElement
<1>5. ASSUME NEW p \in P PROVE m[p] * v <= d[p]
  <2>1. n[p] \in Nat /\ n[p] * v \in Int /\ n[p] * v <= b[p] /\ b[p] \in Int /\ d[p] \in Int
    BY <1>1
  <2>2. CASE p = q
    <3>1. \A x \in Nat : (x + 1) * v = x * v + v
      OBVIOUS
    <3>2. m[p] * v = n[p] * v + v
      BY <1>2, <2>1, <2>2, <3>1, Zenon
    <3> QED BY <2>1, <2>2, <3>2
  <2>3. CASE p # q
    BY <1>2, <2>1, <2>3
  <2> QED BY <2>2, <2>3
<1> QED BY <1>2, <1>4, <1>5 DEF Covered

\* If no producer can pay more than B, the count costs at most that for each.
LEMMA CoverBound ==
  ASSUME NEW P, IsFiniteSet(P), NEW v \in Nat, NEW c, NEW b \in [P -> Int], NEW B \in Int,
         Covered(P, v, c, b), \A p \in P : b[p] <= B
  PROVE  c * v <= Cardinality(P) * B
<1>1. PICK n \in [P -> Nat] :
        /\ IsFiniteSet(Share(P, n)) /\ Cardinality(Share(P, n)) = c
        /\ \A p \in P : n[p] * v <= b[p]
  BY DEF Covered
<1>2. CASE P = {}
  <2>1. Share(P, n) = {}
    BY <1>2 DEF Share
  <2>2. c = 0 /\ Cardinality(P) = 0
    BY <1>1, <1>2, <2>1, FS_EmptySet
  <2> QED BY <2>2
<1>3. ASSUME P # {} PROVE B \in Nat
  <2>1. PICK p \in P : TRUE
    BY <1>3
  <2>2. n[p] * v \in Nat /\ n[p] * v <= b[p] /\ b[p] <= B /\ b[p] \in Int
    BY <1>1
  <2> QED BY <2>2
<1>4. CASE P # {} /\ v = 0
  <2>1. c \in Nat /\ Cardinality(P) \in Nat /\ B \in Nat
    BY <1>1, <1>3, <1>4, FS_CardinalityType
  <2>2. Cardinality(P) * B \in Nat
    BY <2>1
  <2> QED BY <1>4, <2>1, <2>2
<1>5. CASE P # {} /\ v # 0
  <2> DEFINE m == B \div v
  <2>1. v \in Nat \ {0}
    BY <1>5
  <2>2. B \in Nat
    BY <1>3, <1>5
  <2>3. m \in Nat /\ m * v <= B /\ B < (m + 1) * v
    BY <2>1, <2>2
  <2> HIDE DEF m
  <2>4. ASSUME NEW q \in P PROVE n[q] <= m
    <3>1. n[q] \in Nat /\ n[q] * v \in Nat /\ n[q] * v <= B
      BY <1>1
    <3>2. ASSUME n[q] >= m + 1 PROVE FALSE
      <4>1. \A x, y \in Nat : x >= y => x * v >= y * v
        <5> SUFFICES ASSUME NEW x \in Nat, NEW y \in Nat, x >= y PROVE x * v >= y * v
          OBVIOUS
        <5>1. x * v = y * v + (x - y) * v /\ (x - y) * v \in Nat /\ y * v \in Nat
          OBVIOUS
        <5> QED BY <5>1
      <4>2. m + 1 \in Nat /\ (m + 1) * v \in Nat
        BY <2>3
      <4>3. n[q] * v >= (m + 1) * v
        BY <3>1, <3>2, <4>1, <4>2, Zenon
      <4> QED BY <2>2, <2>3, <3>1, <4>2, <4>3
    <3> QED BY <2>3, <3>1, <3>2
  <2>5. Share(P, n) \subseteq P \X (0..(m - 1))
    <3>1. ASSUME NEW e \in P \X Nat, e[2] < n[e[1]] PROVE e \in P \X (0..(m - 1))
      <4>1. e[1] \in P /\ e[2] \in Nat /\ e = <<e[1], e[2]>>
        OBVIOUS
      <4>2. e[2] \in 0..(m - 1)
        BY <1>1, <2>3, <2>4, <3>1, <4>1
      <4> QED BY <4>1, <4>2
    <3> QED BY <3>1 DEF Share
  <2>6. IsFiniteSet(0..(m - 1)) /\ Cardinality(0..(m - 1)) = m
    <3>1. 0 \in Int /\ m - 1 \in Int
      BY <2>3
    <3>2. /\ IsFiniteSet(0..(m - 1))
          /\ Cardinality(0..(m - 1)) = IF 0 > m - 1 THEN 0 ELSE (m - 1) - 0 + 1
      BY <3>1, FS_Interval
    <3> QED BY <2>3, <3>2
  <2>7. /\ IsFiniteSet(P \X (0..(m - 1)))
        /\ Cardinality(P \X (0..(m - 1))) = Cardinality(P) * m
    BY <2>6, FS_Product
  <2>8. c <= Cardinality(P) * m /\ c \in Nat /\ Cardinality(P) \in Nat
    BY <1>1, <2>5, <2>7, FS_Subset, FS_CardinalityType
  <2> DEFINE k == Cardinality(P)
  <2> HIDE DEF k
  <2>9. c * v <= (k * m) * v
    <3>1. k * m - c \in Nat
      BY <2>3, <2>8 DEF k
    <3>2. (k * m) * v = c * v + (k * m - c) * v /\ (k * m - c) * v \in Nat /\ c * v \in Nat
      BY <2>3, <2>8, <3>1 DEF k
    <3> QED BY <3>2
  <2>10. k * (m * v) <= k * B
    <3>1. B - m * v \in Nat
      BY <2>2, <2>3
    <3>2. k * B = k * (m * v) + k * (B - m * v) /\ k * (B - m * v) \in Nat /\ k * (m * v) \in Nat
      BY <2>2, <2>3, <2>8, <3>1 DEF k
    <3> QED BY <3>2
  <2>11. (k * m) * v = k * (m * v)
    BY <2>3, <2>8 DEF k
  <2>12. c * v \in Int /\ (k * m) * v \in Int /\ k * B \in Int
    BY <2>2, <2>3, <2>8 DEF k
  <2> QED BY <2>9, <2>10, <2>11, <2>12 DEF k
<1> QED BY <1>2, <1>4, <1>5

-----------------------------------------------------------------------------
(***************************************************************************)
(* The reports and the summary at a fixed rate.                            *)
(***************************************************************************)
\* What a producer can have paid for, in parts, but for the message whose permit
\* it holds, or, of the totals, that it has not counted yet.
Standing(p) == Position(limiter[p], now) + InParts(Second) + value
Busy(p) == IF agent[p].at \in {"asleep", "publish"} THEN Price(value) ELSE 0
Uncounted(p) == IF agent[p].at \in {"asleep", "publish", "total"} THEN Price(value) ELSE 0

\* What the reporting thread has last read of the published messages, and a time
\* since which it has not.
LastRead ==
  IF reporter.at = "set" /\ reporter.of = "published" THEN reporter.value ELSE last["published"]

ReadTime ==
  IF reporter.at = "read" /\ reporter.of = "published" THEN lastTick - report.elapsed ELSE lastTick

ReportBalance == [p \in setup.producers |-> (Standing(p) - Busy(p)) - InParts(ReadTime)]
TotalBalance(z) == [p \in setup.producers |-> (Standing(p) - Uncounted(p)) - InParts(z)]

\* An agent between the reset of the totals and that of their time.
Resetting(a) == agent[a].at \in {"received", "time"}

Summaries ==
  [at : {"none", "start", "total", "printed"}, time : Int, elapsed : Int, counts : Counts]

\* What has a time is not late.
Timely ==
  /\ total \in Counts /\ startTimeForTotal \in Int /\ summary \in Summaries
  /\ startTimeForTotal <= now /\ lastTick <= now
  /\ reporter.at # "idle" => now <= lastTick + Lateness
  /\ summary.at # "none" => now <= summary.time + Lateness
  /\ \A a \in Agents : Resetting(a) => agent[a].wake <= now /\ now <= agent[a].wake + Lateness

Placed ==
  /\ Timely
  /\ ~Variable =>
       /\ notify = {}
       /\ \A p \in Producers :
            agent[p].at \in {"asleep", "publish", "total"} => p \in setup.producers

\* The total is of the time since z, when it was last reset: its time of start is
\* that one but for the lateness of the agents that reset it, and so will be the
\* one that an agent under way sets, and the one the summary has read.
Since(z) ==
  /\ z <= now /\ startTimeForTotal - Lateness <= z
  /\ \A a \in Agents : Resetting(a) => agent[a].wake <= z
  /\ summary.at = "total" => (summary.time - summary.elapsed) - Lateness <= z
  /\ Covered(setup.producers, Price(value), total["published"], TotalBalance(z))

\* At a fixed rate what is counted is covered, and what was reported is plausible.
SharesCovered ==
  /\ Covered(setup.producers, Price(value), counter["published"] - LastRead, ReportBalance)
  /\ \E z \in Int : Since(z)
  /\ PlausibleReports /\ PlausibleSummary

SharesInv == Placed /\ (~Variable => SharesCovered)

\* At a fixed rate a producer is a second and two messages ahead at most, and is
\* never behind.
LEMMA StandingFacts ==
  ASSUME RateInv, ScheduleInv, ~Variable, notify = {}, NEW p \in setup.producers
  PROVE  /\ value \in Nat \ {0} /\ Price(value) \in Nat /\ Lost(value) \in Nat
         /\ now \in Nat /\ InParts(now) \in Nat /\ InParts(Second) \in Nat /\ p \in Producers
         /\ limiter[p] \in SomeLimiters /\ limiter[p].interval = value
         /\ Standing(p) \in Int /\ Busy(p) \in Nat /\ Uncounted(p) \in Nat
         /\ Standing(p) - Busy(p) >= InParts(now) /\ Standing(p) - Uncounted(p) >= InParts(now)
         /\ Standing(p) - Busy(p)
              <= InParts(now) + InParts(Second) + 2 * value + Lost(value)
         /\ Standing(p) - Uncounted(p)
              <= InParts(now) + InParts(Second) + 2 * value + Lost(value)
<1>1. /\ setup \in Setups /\ now \in Nat /\ value \in Nat \ {0}
  BY DEF RateInv, RateTypes, Stopped
<1>2. p \in Producers
  BY <1>1, ScheduleFacts
<1>3. /\ limiter[p] \in SomeLimiters /\ Position(limiter[p], now) \in Int /\ Ahead(p)
      /\ limiter[p].next \in Nat /\ InParts(limiter[p].next) \in Nat /\ InParts(now) \in Nat
  BY <1>2, ProducerFacts
<1>4. limiter[p].interval = value
  BY <1>1 DEF ScheduleInv, Stopped
<1>5. /\ InParts(Second) \in Nat /\ Price(value) \in Nat /\ Lost(value) \in Nat
      /\ Price(value) + Lost(value) = value
  BY <1>3, <1>4, LimiterFacts
<1>6. /\ Position(limiter[p], now) >= InParts(now) - InParts(Second)
      /\ Position(limiter[p], now) <= InParts(Larger(limiter[p].next, now))
  BY <1>1, <1>3, PositionBounds
<1>7. /\ Busy(p) \in {0, Price(value)} /\ Uncounted(p) \in {0, Price(value)}
      /\ Busy(p) <= Uncounted(p)
  BY <1>5 DEF Busy, Uncounted
<1>8. Position(limiter[p], now) - Busy(p) <= InParts(now) + value + Lost(value)
  BY <1>1, <1>3, <1>4, <1>5, <1>6 DEF Busy, Ahead, Larger
<1> QED BY <1>1, <1>2, <1>3, <1>4, <1>5, <1>6, <1>7, <1>8 DEF Standing

\* The cost of a count is an integer, and so is what it is compared with.
LEMMA PlausibleType ==
  ASSUME RateInv, NEW e \in Int
  PROVE  /\ Cardinality(setup.producers) \in Nat /\ IsFiniteSet(setup.producers)
         /\ Price(value) \in Nat /\ value \in Nat /\ InParts(Second) \in Nat
         /\ InParts(e + Second) = InParts(e) + InParts(Second) /\ InParts(e) \in Int
         /\ InParts(e + Second) + 2 * value + Lost(value) \in Int
<1>1. setup \in Setups /\ value \in Nat
  BY DEF RateInv, RateTypes
<1>2. IsFiniteSet(setup.producers)
  BY <1>1, ScheduleFacts, ThroughputAssumption, FS_Subset
<1>3. Cardinality(setup.producers) \in Nat
  BY <1>2, FS_CardinalityType
<1>4. Price(value) \in Nat /\ Lost(value) \in Nat
  BY <1>1, LostFacts
<1>5. InParts(Second) \in Nat /\ InParts(e) \in Int /\ Second \in Int
  BY SecondAssumption, InPartsType
<1>6. InParts(e + Second) = InParts(e) + InParts(Second)
  BY <1>5, InPartsSum, Zenon
<1> QED BY <1>1, <1>2, <1>3, <1>4, <1>5, <1>6

\* What is plausible in so much time is in more, and nothing always is.
LEMMA PlausibleLonger ==
  ASSUME RateInv, NEW n \in Nat, NEW e \in Int, NEW f \in Int, e <= f, Plausible(n, e)
  PROVE  Plausible(n, f) /\ Plausible(0, f)
<1> DEFINE k == Cardinality(setup.producers)
           v == Price(value)
           B(x) == InParts(x + Second) + 2 * value + Lost(value)
           b == B(e)
           c == B(f)
<1>1. /\ k \in Nat /\ v \in Nat /\ b \in Int /\ c \in Int
      /\ InParts(e + Second) = InParts(e) + InParts(Second)
      /\ InParts(f + Second) = InParts(f) + InParts(Second)
      /\ InParts(e) \in Int /\ InParts(f) \in Int /\ InParts(Second) \in Nat /\ value \in Nat
  BY PlausibleType
<1>2. InParts(e) <= InParts(f)
  BY InPartsOrder
<1>3. Lost(value) \in Nat
  BY <1>1, LostFacts
<1>4. c - b \in Nat
  BY <1>1, <1>2, <1>3
<1>5. n * v <= k * b
  BY DEF Plausible
<1> HIDE DEF k, v, b, c
<1>6. k * c = k * b + k * (c - b) /\ k * (c - b) \in Nat /\ k * b \in Int /\ n * v \in Nat
  BY <1>1, <1>4
<1>7. n * v <= k * c /\ 0 * v <= k * c
  BY <1>1, <1>5, <1>6
<1> QED BY <1>7 DEF Plausible, k, v, c

\* No report and no summary shows more than is covered.
LEMMA CoveredIsPlausible ==
  ASSUME RateInv, ScheduleInv, ~Variable, notify = {}, NEW n, NEW start \in Int,
         NEW b \in [setup.producers -> Int],
         \A p \in setup.producers :
           \/ b[p] = (Standing(p) - Busy(p)) - InParts(start)
           \/ b[p] = (Standing(p) - Uncounted(p)) - InParts(start),
         Covered(setup.producers, Price(value), n, b)
  PROVE  n \in Nat /\ Plausible(n, now - start)
<1> DEFINE B == InParts((now - start) + Second) + 2 * value + Lost(value)
<1>1. now \in Nat /\ value \in Nat
  BY DEF RateInv, RateTypes
<1>2. now \in Int /\ now - start \in Int
  BY <1>1
<1>3. /\ IsFiniteSet(setup.producers) /\ B \in Int /\ Price(value) \in Nat
      /\ InParts((now - start) + Second) = InParts(now - start) + InParts(Second)
      /\ InParts(Second) \in Nat
  BY <1>2, PlausibleType
<1>4. InParts(now - start) = InParts(now) - InParts(start)
  BY <1>2, InPartsDifference, Zenon
<1>5. InParts(start) \in Int /\ InParts(now) \in Int
  BY <1>2, InPartsType
<1>6. ASSUME NEW p \in setup.producers PROVE b[p] <= B
  <2>1. /\ Standing(p) \in Int /\ Busy(p) \in Nat /\ Uncounted(p) \in Nat /\ Lost(value) \in Nat
        /\ Standing(p) - Busy(p)
             <= InParts(now) + InParts(Second) + 2 * value + Lost(value)
        /\ Standing(p) - Uncounted(p)
             <= InParts(now) + InParts(Second) + 2 * value + Lost(value)
    BY StandingFacts
  <2>2. \/ b[p] = (Standing(p) - Busy(p)) - InParts(start)
        \/ b[p] = (Standing(p) - Uncounted(p)) - InParts(start)
    OBVIOUS
  <2> QED BY <1>1, <1>3, <1>4, <1>5, <2>1, <2>2
<1>7. n * Price(value) <= Cardinality(setup.producers) * B
  <2> HIDE DEF B
  <2> QED BY <1>3, <1>6, CoverBound
<1>8. n \in Nat
  BY FS_CardinalityType DEF Covered
<1> QED BY <1>7, <1>8 DEF Plausible

LEMMA SharesInit == Init => SharesInv
<1> SUFFICES ASSUME Init PROVE SharesInv
  OBVIOUS
<1>1. RateInv /\ ScheduleInv
  BY RateInit, ScheduleInit
<1>2. /\ now = 0 /\ notify = {} /\ counter = Zero /\ total = Zero /\ last = Zero
      /\ lastTick = 0 /\ startTimeForTotal = 0
      /\ reporter = [at |-> "idle", of |-> "published", value |-> 0]
      /\ report = NoReport /\ summary = NoSummary
      /\ agent = [a \in Agents |-> [at |-> "new", wake |-> 0]]
  BY DEF Init, MetricsInit
<1>3. /\ Zero \in Counts /\ Zero["published"] = 0
      /\ NoReport.counts = Zero /\ NoReport.elapsed = 0
      /\ NoSummary = [at |-> "none", time |-> 0, elapsed |-> 0, counts |-> Zero]
      /\ InParts(0) = 0 /\ Lateness \in Nat
  BY ThroughputAssumption, InPartsType DEF Zero, Counts, NoReport, NoSummary, Counters
<1>4. Timely
  <2>1. \A a \in Agents : ~Resetting(a)
    BY <1>2 DEF Resetting
  <2> QED BY <1>2, <1>3, <2>1 DEF Timely, Summaries
<1>5. Placed
  BY <1>2, <1>4 DEF Placed, Agents
<1>6. LastRead = 0 /\ ReadTime = 0 /\ counter["published"] - LastRead = 0
  BY <1>2, <1>3 DEF LastRead, ReadTime
<1>7. ASSUME ~Variable
      PROVE  SharesCovered
  <2>1. Price(value) \in Nat
    BY <1>1, LostFacts DEF RateInv, RateTypes
  <2>2. ASSUME NEW p \in setup.producers
        PROVE  /\ (Standing(p) - Busy(p)) - 0 \in Nat /\ (Standing(p) - Uncounted(p)) - 0 \in Nat
    <3>1. /\ Standing(p) \in Int /\ Busy(p) \in Nat /\ Uncounted(p) \in Nat
          /\ Standing(p) - Busy(p) >= InParts(now) /\ Standing(p) - Uncounted(p) >= InParts(now)
      BY <1>1, <1>2, <1>7, StandingFacts
    <3> QED BY <1>2, <1>3, <3>1
  <2>3. /\ ReportBalance \in [setup.producers -> Int]
        /\ TotalBalance(0) \in [setup.producers -> Int]
        /\ \A p \in setup.producers : 0 <= ReportBalance[p] /\ 0 <= TotalBalance(0)[p]
    BY <1>3, <1>6, <2>2 DEF ReportBalance, TotalBalance
  <2>4. /\ Covered(setup.producers, Price(value), 0, ReportBalance)
        /\ Covered(setup.producers, Price(value), 0, TotalBalance(0))
    BY <2>1, <2>3, CoverNone
  <2>5. Since(0)
    BY <1>2, <1>3, <2>4 DEF Since, Resetting
  <2>6. PlausibleReports
    <3>1. \A p \in setup.producers : TotalBalance(0)[p] = (Standing(p) - Uncounted(p)) - InParts(0)
      BY DEF TotalBalance
    <3>2. Plausible(0, now - 0)
      BY <1>1, <1>2, <1>7, <2>3, <2>4, <3>1, CoveredIsPlausible
    <3>3. now - 0 \in Int /\ 0 + Lateness \in Int /\ now - 0 <= 0 + Lateness
      BY <1>2, <1>3
    <3>4. Plausible(0, 0 + Lateness)
      BY <1>1, <3>2, <3>3, PlausibleLonger
    <3> QED BY <1>2, <1>3, <3>4 DEF PlausibleReports
  <2>7. PlausibleSummary
    BY <1>2, <1>3 DEF PlausibleSummary
  <2> QED BY <1>6, <2>4, <2>5, <2>6, <2>7 DEF SharesCovered
<1> QED BY <1>5, <1>7 DEF SharesInv

\* The ways of a producer at a fixed rate.
Moved(p) ==
  \/ agent'[p].at = agent[p].at
  \/ /\ agent[p].at \in {"new", "added", "reset", "received", "time", "paused"}
     /\ agent'[p].at \in {"added", "reset", "received", "time", "loop"}
  \/ agent[p].at = "asleep" /\ agent'[p].at = "publish"
  \/ agent[p].at = "publish" /\ agent'[p].at = "total"
  \/ agent[p].at = "total" /\ agent'[p].at = "loop"

\* Time goes on, the producer acquires a permit, or it is only elsewhere.
LEMMA FixedRateStep ==
  ASSUME RateInv, Placed, [Next]_vars, ~Variable, NEW p \in Producers
  PROVE  /\ setup' = setup /\ value' = value /\ notify' = {}
         /\ \/ now' = now + 1 /\ limiter'[p] = limiter[p] /\ agent'[p].at = agent[p].at
            \/ /\ now' = now /\ limiter'[p] = Reserve(Resync(limiter[p], now))
               /\ agent[p].at = "loop" /\ agent'[p].at = "asleep" /\ p \in setup.producers
            \/ now' = now /\ limiter'[p] = limiter[p] /\ Moved(p)
<1>1. /\ agent \in [Agents -> [at : Places, wake : Nat]] /\ limiter \in [Producers -> SomeLimiters]
      /\ p \in Agents /\ notify = {} /\ p \notin Consumers
  BY ThroughputAssumption DEF RateInv, RateTypes, Placed, Agents
<1>2. ASSUME UNCHANGED <<setup, now, rateVars, limiter>>, Moved(p)
      PROVE  /\ setup' = setup /\ value' = value /\ notify' = {}
             /\ now' = now /\ limiter'[p] = limiter[p] /\ Moved(p)
  BY <1>1, <1>2 DEF rateVars
<1>3. ASSUME NEW a \in Agents, NEW from, NEW to, Move(a, from, to)
      PROVE  /\ agent[a].at = from
             /\ agent'[p].at = IF p = a THEN to ELSE agent[p].at
  BY <1>1, <1>3 DEF Move
<1>4. CASE UNCHANGED vars \/ MetricsStep
  <2>1. UNCHANGED <<setup, now, rateVars, limiter, agent>>
    BY <1>4 DEF vars, MetricsStep, producerVars
  <2> QED BY <1>2, <2>1 DEF Moved
<1>5. CASE Tick
  BY <1>1, <1>5 DEF Tick, rateVars, producerVars
<1>6. CASE UpdateValue
  BY <1>6 DEF UpdateValue
<1>7. ASSUME NEW q \in Producers, Producer(q)
      PROVE  /\ setup' = setup /\ value' = value /\ notify' = {}
             /\ \/ /\ now' = now /\ limiter'[p] = Reserve(Resync(limiter[p], now))
                   /\ agent[p].at = "loop" /\ agent'[p].at = "asleep" /\ p \in setup.producers
                \/ now' = now /\ limiter'[p] = limiter[p] /\ Moved(p)
  <2>0. q \in Agents
    BY DEF Agents
  <2>1. CASE Acquire(q)
    <3>1. /\ UNCHANGED <<setup, now, rateVars>> /\ q \in setup.producers /\ agent[q].at = "loop"
          /\ limiter' = [limiter EXCEPT ![q] = Reserve(Resync(limiter[q], now))]
          /\ agent' = [agent EXCEPT ![q] = [at |-> "asleep", wake |-> Resync(limiter[q], now).next]]
      BY <2>1 DEF Acquire
    <3>2. setup' = setup /\ value' = value /\ notify' = {} /\ now' = now
      BY <1>1, <3>1 DEF rateVars
    <3>3. CASE q = p
      BY <1>1, <3>1, <3>2, <3>3
    <3>4. CASE q # p
      BY <1>1, <3>1, <3>2, <3>4 DEF Moved
    <3> QED BY <3>3, <3>4
  <2>2. CASE Wake(q)
    <3>1. /\ UNCHANGED <<setup, now, rateVars, limiter>> /\ agent[q].at = "asleep"
          /\ agent' = [agent EXCEPT ![q] = [at |-> "publish", wake |-> 0]]
      BY <2>2 DEF Wake
    <3>2. Moved(p)
      BY <1>1, <3>1 DEF Moved
    <3> QED BY <1>2, <3>1, <3>2
  <2>3. CASE Resume(q)
    <3>1. /\ UNCHANGED <<setup, now, rateVars, limiter>> /\ agent[q].at = "paused"
          /\ agent' = [agent EXCEPT ![q] = [at |-> "loop", wake |-> 0]]
      BY <2>3 DEF Resume
    <3>2. Moved(p)
      BY <1>1, <3>1 DEF Moved
    <3> QED BY <1>2, <3>1, <3>2
  <2>4. CASE Publish(q)
    <3>1. UNCHANGED <<setup, now, rateVars, limiter>> /\ Move(q, "publish", "total")
      BY <2>4 DEF Publish
    <3>2. Moved(p)
      BY <1>3, <2>0, <3>1 DEF Moved
    <3> QED BY <1>2, <3>1, <3>2
  <2>5. CASE ValueChanged(q)
    BY <1>1, <2>5 DEF ValueChanged
  <2>6. CASE Observe(q)
    <3>1. UNCHANGED <<setup, now, rateVars, limiter, agent>>
      BY <2>6 DEF Observe
    <3> QED BY <1>2, <3>1 DEF Moved
  <2> QED BY <1>7, <2>1, <2>2, <2>3, <2>4, <2>5, <2>6 DEF Producer
<1>8. ASSUME NEW c \in Consumers, Receive(c)
      PROVE  UNCHANGED <<setup, now, rateVars, limiter>> /\ Moved(p)
  <2>1. c \in Agents /\ p # c
    BY <1>1 DEF Agents
  <2>2. UNCHANGED <<setup, now, rateVars, limiter>> /\ Move(c, "loop", "total")
    BY <1>8 DEF Receive
  <2> QED BY <1>3, <2>1, <2>2 DEF Moved
<1>9. ASSUME NEW a \in Agents, Agent(a)
      PROVE  UNCHANGED <<setup, now, rateVars, limiter>> /\ Moved(p)
  <2>1. CASE Start(a)
    BY <1>3, <2>1 DEF Start, Moved
  <2>2. CASE AllStarted(a)
    <3>1. UNCHANGED <<setup, now, rateVars, limiter>>
      BY <2>2 DEF AllStarted
    <3>2. PICK to \in {"reset", "loop"} : Move(a, "added", to)
      BY <2>2 DEF AllStarted
    <3> QED BY <1>3, <3>1, <3>2 DEF Moved
  <2>3. CASE Reset(a)
    <3>1. UNCHANGED <<setup, now, rateVars, limiter>>
      BY <2>3 DEF Reset
    <3>2. CASE /\ agent[a].at = "reset"
               /\ agent' = [agent EXCEPT ![a] = [at |-> "received", wake |-> now]]
      <4>1. agent'[p].at = IF p = a THEN "received" ELSE agent[p].at
        BY <1>1, <3>2
      <4> QED BY <3>1, <3>2, <4>1 DEF Moved
    <3>3. CASE Move(a, "received", "time") \/ Move(a, "time", "loop")
      BY <1>3, <3>1, <3>3 DEF Moved
    <3> QED BY <2>3, <3>2, <3>3 DEF Reset
  <2>4. CASE Total(a)
    BY <1>3, <2>4 DEF Total, Moved
  <2> QED BY <1>9, <2>1, <2>2, <2>3, <2>4 DEF Agent
<1> QED BY <1>2, <1>4, <1>5, <1>6, <1>7, <1>8, <1>9 DEF Next

\* No step makes a balance smaller, publishing and counting make it larger by the
\* price of a message.
LEMMA StandingStep ==
  ASSUME RateInv, RateInv', ScheduleInv, Placed, [Next]_vars, ~Variable,
         NEW p \in setup.producers
  PROVE  /\ (Standing(p) - Busy(p)) \in Int /\ (Standing(p) - Busy(p))' \in Int
         /\ (Standing(p) - Uncounted(p)) \in Int /\ (Standing(p) - Uncounted(p))' \in Int
         /\ (Standing(p) - Busy(p))' >= Standing(p) - Busy(p)
         /\ (Standing(p) - Uncounted(p))' >= Standing(p) - Uncounted(p)
         /\ (agent[p].at = "publish" /\ agent'[p].at = "total")
              => (Standing(p) - Busy(p))' >= (Standing(p) - Busy(p)) + Price(value)
         /\ (agent[p].at = "total" /\ agent'[p].at = "loop")
              => (Standing(p) - Uncounted(p))' >= (Standing(p) - Uncounted(p)) + Price(value)
<1>1. notify = {}
  BY DEF Placed
<1>2. /\ value \in Nat \ {0} /\ now \in Nat /\ p \in Producers
      /\ Price(value) \in Nat /\ InParts(Second) \in Nat
      /\ limiter[p] \in SomeLimiters /\ limiter[p].interval = value
      /\ Standing(p) \in Int /\ Busy(p) \in Nat /\ Uncounted(p) \in Nat
  BY <1>1, StandingFacts
<1>3. /\ setup' = setup /\ value' = value
      /\ \/ now' = now + 1 /\ limiter'[p] = limiter[p] /\ agent'[p].at = agent[p].at
         \/ /\ now' = now /\ limiter'[p] = Reserve(Resync(limiter[p], now))
            /\ agent[p].at = "loop" /\ agent'[p].at = "asleep"
         \/ now' = now /\ limiter'[p] = limiter[p] /\ Moved(p)
  BY <1>2, FixedRateStep
<1> DEFINE x == Position(limiter[p], now)
           y == Position(limiter'[p], now')
<1>4. x \in Int /\ Position(limiter[p], now + 1) >= x
      /\ Position(limiter[p], now + 1) \in Int
  BY <1>2, PositionBounds
<1>5. /\ Position(Reserve(Resync(limiter[p], now)), now) \in Int
      /\ Position(Reserve(Resync(limiter[p], now)), now) >= x + Price(value)
  BY <1>2, AcquirePosition
<1>6. /\ Standing(p) = x + InParts(Second) + value
      /\ Standing(p)' = y + InParts(Second) + value
  BY <1>3 DEF Standing
<1>7. /\ Busy(p) = IF agent[p].at \in {"asleep", "publish"} THEN Price(value) ELSE 0
      /\ Busy(p)' = IF agent'[p].at \in {"asleep", "publish"} THEN Price(value) ELSE 0
      /\ Uncounted(p) = IF agent[p].at \in {"asleep", "publish", "total"} THEN Price(value) ELSE 0
      /\ Uncounted(p)' = IF agent'[p].at \in {"asleep", "publish", "total"} THEN Price(value) ELSE 0
  BY <1>3 DEF Busy, Uncounted
<1>8. /\ (Standing(p) - Busy(p))' = Standing(p)' - Busy(p)'
      /\ (Standing(p) - Uncounted(p))' = Standing(p)' - Uncounted(p)'
  OBVIOUS
<1>9. CASE now' = now + 1 /\ limiter'[p] = limiter[p] /\ agent'[p].at = agent[p].at
  <2>1. y \in Int /\ y >= x
    BY <1>4, <1>9
  <2> HIDE DEF x, y
  <2> QED BY <1>2, <1>4, <1>6, <1>7, <1>8, <1>9, <2>1
<1>10. CASE /\ now' = now /\ limiter'[p] = Reserve(Resync(limiter[p], now))
            /\ agent[p].at = "loop" /\ agent'[p].at = "asleep"
  <2>1. y \in Int /\ y >= x + Price(value)
    BY <1>5, <1>10
  <2> HIDE DEF x, y
  <2> QED BY <1>2, <1>4, <1>6, <1>7, <1>8, <1>10, <2>1
<1>11. CASE now' = now /\ limiter'[p] = limiter[p] /\ Moved(p)
  <2>1. y = x
    BY <1>11
  <2> HIDE DEF x, y
  <2> QED BY <1>2, <1>4, <1>6, <1>7, <1>8, <1>11, <2>1 DEF Moved
<1> QED BY <1>3, <1>9, <1>10, <1>11

\* What is begun now is timely, and what was under way stays so while no time passes.
LEMMA TimelyKept ==
  ASSUME RateInv, ReportInv, Timely, now' = now, total' \in Counts, summary' \in Summaries,
         startTimeForTotal' \in {startTimeForTotal, now}, lastTick' \in {lastTick, now},
         reporter'.at # "idle" =>
           lastTick' = now \/ (reporter.at # "idle" /\ lastTick' = lastTick),
         summary'.at # "none" =>
           summary'.time = now \/ (summary.at # "none" /\ summary'.time = summary.time),
         \A a \in Agents : Resetting(a)' =>
           agent'[a].wake = now \/ (Resetting(a) /\ agent'[a].wake = agent[a].wake)
  PROVE  Timely'
<1>1. /\ now \in Nat /\ lastTick \in Int /\ startTimeForTotal \in Int /\ Lateness \in Nat
      /\ \A a \in Agents : agent[a].wake \in Nat
  BY ThroughputAssumption DEF RateInv, RateTypes, ReportInv, ReportTypes, Timely
<1>2. /\ startTimeForTotal' \in Int /\ startTimeForTotal' <= now' /\ lastTick' <= now'
      /\ reporter'.at # "idle" => now' <= lastTick' + Lateness
  BY <1>1 DEF Timely
<1>3. summary'.at # "none" => now' <= summary'.time + Lateness
  BY <1>1 DEF Timely
<1>4. ASSUME NEW a \in Agents, Resetting(a)'
      PROVE  agent'[a].wake <= now' /\ now' <= agent'[a].wake + Lateness
  BY <1>1, <1>4 DEF Timely
<1> QED BY <1>2, <1>3, <1>4 DEF Timely

\* So it is when an agent is elsewhere, and nothing is reset, reported or printed.
LEMMA TimelyElsewhere ==
  ASSUME RateInv, ReportInv, Timely, now' = now, UNCHANGED <<reportVars, endingVars>>,
         total' \in Counts, NEW a \in Agents, NEW r,
         agent' = [agent EXCEPT ![a] = r],
         r.at \in {"received", "time"} => r.wake = now \/ (Resetting(a) /\ r.wake = agent[a].wake)
  PROVE  Timely'
<1>1. ASSUME NEW b \in Agents, Resetting(b)'
      PROVE  agent'[b].wake = now \/ (Resetting(b) /\ agent'[b].wake = agent[b].wake)
  <2>1. agent'[b] = IF b = a THEN r ELSE agent[b]
    BY DEF RateInv, RateTypes
  <2> QED BY <1>1, <2>1 DEF Resetting
<1>2. summary \in Summaries
  BY DEF Timely
<1> QED BY <1>1, <1>2, TimelyKept DEF reportVars, endingVars

LEMMA TimelyMove ==
  ASSUME RateInv, ReportInv, Timely, now' = now, UNCHANGED <<reportVars, endingVars>>,
         total' \in Counts, NEW a \in Agents, NEW from, NEW to, Move(a, from, to),
         to \in {"received", "time"} => from \in {"received", "time"}
  PROVE  Timely'
<1> DEFINE r == [agent[a] EXCEPT !.at = to]
<1>1. agent[a].at = from /\ agent' = [agent EXCEPT ![a] = r]
  BY DEF Move
<1>2. r.at = to /\ r.wake = agent[a].wake
  BY DEF RateInv, RateTypes
<1> HIDE DEF r
<1> QED BY <1>1, <1>2, TimelyElsewhere DEF Resetting

\* The metrics: a report or a summary begins now, or goes on.
LEMMA TimelyMetrics ==
  ASSUME RateInv, ReportInv, Timely, MetricsStep
  PROVE  Timely'
<1> USE DEF countVars, reportVars, endingVars
<1>1. now' = now /\ UNCHANGED <<agent, total, startTimeForTotal>>
  BY DEF MetricsStep, producerVars, ReportBegin, SwapRead, SwapSet, Report, Close, SummaryStart,
         SummaryTotal
<1>2. /\ total \in Counts /\ summary \in Summaries /\ now \in Int /\ startTimeForTotal \in Int
      /\ reporter \in [at : {"idle", "read", "set", "report"}, of : Counters, value : Int]
  BY DEF Timely, ReportInv, ReportTypes
<1>3. \A a \in Agents : Resetting(a)' => Resetting(a) /\ agent'[a].wake = agent[a].wake
  BY <1>1 DEF Resetting
<1>4. ASSUME summary' = summary, lastTick' \in {lastTick, now},
             reporter'.at # "idle" =>
               lastTick' = now \/ (reporter.at # "idle" /\ lastTick' = lastTick)
      PROVE  Timely'
  BY <1>1, <1>2, <1>3, <1>4, TimelyKept
<1>5. ASSUME lastTick' = lastTick, reporter' = reporter, summary' \in Summaries,
             summary'.time = now \/ (summary.at # "none" /\ summary'.time = summary.time)
      PROVE  Timely'
  BY <1>1, <1>2, <1>3, <1>5, TimelyKept
<1>6. CASE ReportBegin(now, setup.interval)
  BY <1>4, <1>6 DEF ReportBegin
<1>7. CASE SwapRead
  BY <1>4, <1>7 DEF SwapRead
<1>8. CASE SwapSet
  BY <1>4, <1>8 DEF SwapSet
<1>9. CASE Report
  <2>1. reporter'.at = "idle" /\ summary' = summary /\ lastTick' = lastTick
    BY <1>2, <1>9 DEF Report
  <2> QED BY <1>4, <2>1
<1>10. CASE Close(now)
  <2>1. /\ lastTick' = lastTick /\ reporter' = reporter
        /\ summary' = [summary EXCEPT !.at = "start", !.time = now]
    BY <1>10 DEF Close
  <2>2. summary' \in Summaries /\ summary'.time = now
    BY <1>2, <2>1 DEF Summaries
  <2> QED BY <1>5, <2>1, <2>2
<1>11. CASE SummaryStart
  <2>1. /\ lastTick' = lastTick /\ reporter' = reporter /\ summary.at # "none"
        /\ summary' = [summary EXCEPT !.at = "total",
                                      !.elapsed = summary.time - startTimeForTotal]
    BY <1>11 DEF SummaryStart
  <2>2. summary.time - startTimeForTotal \in Int
    BY <1>2 DEF Summaries
  <2>3. summary' \in Summaries /\ summary'.time = summary.time
    BY <1>2, <2>1, <2>2 DEF Summaries
  <2> QED BY <1>5, <2>1, <2>3
<1>12. CASE SummaryTotal
  <2>1. /\ lastTick' = lastTick /\ reporter' = reporter /\ summary.at # "none"
        /\ summary' = [summary EXCEPT !.at = "printed", !.counts = total]
    BY <1>12 DEF SummaryTotal
  <2>2. summary' \in Summaries /\ summary'.time = summary.time
    BY <1>2, <2>1 DEF Summaries
  <2> QED BY <1>5, <2>1, <2>2
<1> QED BY <1>6, <1>7, <1>8, <1>9, <1>10, <1>11, <1>12 DEF MetricsStep

\* An agent resets the totals now, or goes on with it.
LEMMA TimelyReset ==
  ASSUME RateInv, ReportInv, Timely, NEW a \in Agents, Reset(a)
  PROVE  Timely'
<1> USE DEF countVars, reportVars, endingVars
<1>1. now' = now /\ total \in Counts /\ summary \in Summaries
  BY DEF Reset, Timely
<1>2. ASSUME NEW c \in Counters, ResetTotal(c)
      PROVE  total' \in Counts /\ UNCHANGED <<reportVars, endingVars>>
  BY <1>1, <1>2 DEF ResetTotal, Counts
<1>3. CASE /\ agent[a].at = "reset" /\ ResetTotal("published")
           /\ agent' = [agent EXCEPT ![a] = [at |-> "received", wake |-> now]]
  BY <1>1, <1>2, <1>3, TimelyElsewhere DEF Counters
<1>4. CASE Move(a, "received", "time") /\ ResetTotal("received")
  BY <1>1, <1>2, <1>4, TimelyMove DEF Counters
<1>5. CASE Move(a, "time", "loop") /\ ResetTime(now)
  <2>1. startTimeForTotal' = now /\ UNCHANGED <<total, lastTick, reporter, summary>>
    BY <1>5 DEF ResetTime
  <2>2. ASSUME NEW b \in Agents, Resetting(b)'
        PROVE  Resetting(b) /\ agent'[b].wake = agent[b].wake
    <3>1. /\ agent'[b].at = IF b = a THEN "loop" ELSE agent[b].at
          /\ agent'[b].wake = agent[b].wake
      BY <1>5 DEF Move, RateInv, RateTypes
    <3> QED BY <2>2, <3>1 DEF Resetting
  <2> QED BY <1>1, <2>1, <2>2, TimelyKept
<1> QED BY <1>3, <1>4, <1>5 DEF Reset

\* No step makes anything late.
LEMMA TimelyStep ==
  ASSUME RateInv, ReportInv, Timely, [Next]_vars
  PROVE  Timely' /\ setup' = setup
<1> USE DEF metricsVars, countVars, reportVars, endingVars
<1>1. total \in Counts
  BY DEF Timely
<1>2. CASE UNCHANGED vars
  BY <1>2 DEF vars, producerVars, Timely, Resetting
<1>3. CASE MetricsStep
  BY <1>3, TimelyMetrics DEF MetricsStep
<1>4. CASE Tick
  <2>1. /\ Punctual /\ now' = now + 1
        /\ UNCHANGED <<setup, agent, total, startTimeForTotal, lastTick, reporter, summary>>
    BY <1>4 DEF Tick, producerVars
  <2>2. /\ now \in Nat /\ lastTick \in Int /\ startTimeForTotal \in Int /\ Lateness \in Nat
        /\ \A a \in Agents : agent[a].wake \in Nat
    BY ThroughputAssumption DEF RateInv, RateTypes, ReportInv, ReportTypes, Timely
  <2>3. /\ startTimeForTotal' <= now' /\ lastTick' <= now'
        /\ reporter'.at # "idle" => now' <= lastTick' + Lateness
    BY <2>1, <2>2 DEF Timely, Punctual
  <2>4. summary'.at # "none" => now' <= summary'.time + Lateness
    BY <2>1, <2>2 DEF Timely, Punctual, Summaries
  <2>5. ASSUME NEW a \in Agents, Resetting(a)'
        PROVE  agent'[a].wake <= now' /\ now' <= agent'[a].wake + Lateness
    BY <2>1, <2>2, <2>5 DEF Timely, Punctual, Resetting
  <2> QED BY <2>1, <2>3, <2>4, <2>5 DEF Timely
<1>5. ASSUME UNCHANGED <<setup, now, agent, metricsVars>>
      PROVE  Timely' /\ setup' = setup
  BY <1>5 DEF Timely, Resetting
<1>6. CASE UpdateValue
  BY <1>5, <1>6 DEF UpdateValue
<1>7. ASSUME NEW p \in Producers, Producer(p)
      PROVE  Timely' /\ setup' = setup
  <2>1. p \in Agents
    BY DEF Agents
  <2>2. ASSUME NEW r, agent' = [agent EXCEPT ![p] = r], r.at \notin {"received", "time"},
               UNCHANGED <<setup, now, metricsVars>>
        PROVE  Timely' /\ setup' = setup
    BY <1>1, <2>1, <2>2, TimelyElsewhere
  <2>3. CASE Acquire(p)
    BY <2>2, <2>3 DEF Acquire
  <2>4. CASE Wake(p)
    BY <2>2, <2>4 DEF Wake
  <2>5. CASE Resume(p)
    BY <2>2, <2>5 DEF Resume
  <2>6. CASE Publish(p)
    BY <1>1, <2>1, <2>6, TimelyMove DEF Publish, CountEvent
  <2>7. CASE ValueChanged(p) \/ Observe(p)
    BY <1>5, <2>7 DEF ValueChanged, Observe
  <2> QED BY <1>7, <2>3, <2>4, <2>5, <2>6, <2>7 DEF Producer
<1>8. ASSUME NEW c \in Consumers, Receive(c)
      PROVE  Timely' /\ setup' = setup
  <2>1. c \in Agents
    BY DEF Agents
  <2> QED BY <1>1, <1>8, <2>1, TimelyMove DEF Receive, CountEvent
<1>9. ASSUME NEW a \in Agents, Agent(a)
      PROVE  Timely' /\ setup' = setup
  <2>1. CASE Start(a)
    BY <1>1, <2>1, TimelyMove DEF Start
  <2>2. CASE AllStarted(a)
    <3>1. PICK to \in {"reset", "loop"} : Move(a, "added", to)
      BY <2>2 DEF AllStarted
    <3> QED BY <1>1, <2>2, <3>1, TimelyMove DEF AllStarted
  <2>3. CASE Reset(a)
    BY <2>3, TimelyReset DEF Reset
  <2>4. CASE Total(a)
    <3>1. PICK c \in Counters : CountTotal(c)
      BY <2>4 DEF Total, Counters
    <3>2. total' \in Counts /\ UNCHANGED <<reportVars, endingVars>>
      BY <1>1, <3>1 DEF CountTotal, Counts
    <3> QED BY <2>4, <3>2, TimelyMove DEF Total
  <2> QED BY <1>9, <2>1, <2>2, <2>3, <2>4 DEF Agent
<1> QED BY <1>2, <1>3, <1>4, <1>6, <1>7, <1>8, <1>9 DEF Next

\* Producers that publish belong to the test.
LEMMA PlacedStep ==
  ASSUME RateInv, ReportInv, Placed, [Next]_vars
  PROVE  Placed' /\ setup' = setup
<1>1. Timely' /\ setup' = setup
  BY TimelyStep DEF Placed
<1>2. ASSUME ~Variable, NEW p \in Producers
      PROVE  /\ notify' = {}
             /\ agent'[p].at \in {"asleep", "publish", "total"} => p \in setup.producers
  <2>1. agent[p].at \in {"asleep", "publish", "total"} => p \in setup.producers
    BY <1>2 DEF Placed
  <2> QED BY <1>2, <2>1, FixedRateStep DEF Moved
<1>3. ASSUME ~Variable PROVE notify' = {}
  <2>1. notify = {}
    BY <1>3 DEF Placed
  <2>2. CASE Producers = {}
    <3>1. notify' \subseteq notify
      BY <1>3, <2>1, <2>2 DEF Next, vars, MetricsStep, Tick, UpdateValue, Receive, Agent, Start,
                        AllStarted, Reset, Total, rateVars
    <3> QED BY <2>1, <3>1
  <2>3. CASE Producers # {}
    BY <1>2, <1>3, <2>3
  <2> QED BY <2>2, <2>3
<1>4. Variable' = Variable
  BY <1>1 DEF Variable, Schedule
<1> QED BY <1>1, <1>2, <1>3, <1>4 DEF Placed

\* What is covered stays covered, and one more message is when a producer has
\* published or counted it.
LEMMA SharesKept ==
  ASSUME RateInv, RateInv', ReportInv, ScheduleInv, SharesInv, [Next]_vars, ~Variable
  PROVE  LET P == setup.producers
             v == Price(value)
         IN
         /\ setup' = setup /\ value' = value
         /\ ReadTime' = ReadTime => \A c : Covered(P, v, c, ReportBalance) =>
              /\ Covered(P, v, c, ReportBalance')
              /\ \A q \in P : (agent[q].at = "publish" /\ agent'[q].at = "total")
                   => Covered(P, v, c + 1, ReportBalance')
         /\ \A z \in Int : \A c : Covered(P, v, c, TotalBalance(z)) =>
              /\ Covered(P, v, c, TotalBalance(z)')
              /\ \A q \in P : (agent[q].at = "total" /\ agent'[q].at = "loop")
                   => Covered(P, v, c + 1, TotalBalance(z)')
<1> DEFINE P == setup.producers
           v == Price(value)
<1>1. setup' = setup /\ value' = value /\ v \in Nat /\ Placed
  <2>1. setup' = setup /\ value' = value
    <3>1. CASE Producers # {}
      BY <3>1, FixedRateStep DEF SharesInv
    <3>2. CASE Producers = {}
      BY <3>2 DEF Next, vars, MetricsStep, Tick, UpdateValue, Receive, Agent, Start,
                  AllStarted, Reset, Total, rateVars
    <3> QED BY <3>1, <3>2
  <2>2. value \in Nat
    BY DEF RateInv, RateTypes
  <2> QED BY <2>1, <2>2, LostFacts DEF SharesInv
<1>2. ReadTime \in Int
  BY DEF ReadTime, ReportInv, ReportTypes
<1>3. ASSUME NEW p \in P
      PROVE  /\ (Standing(p) - Busy(p)) \in Int /\ (Standing(p) - Busy(p))' \in Int
             /\ (Standing(p) - Uncounted(p)) \in Int /\ (Standing(p) - Uncounted(p))' \in Int
             /\ (Standing(p) - Busy(p))' >= Standing(p) - Busy(p)
             /\ (Standing(p) - Uncounted(p))' >= Standing(p) - Uncounted(p)
             /\ (agent[p].at = "publish" /\ agent'[p].at = "total")
                  => (Standing(p) - Busy(p))' >= (Standing(p) - Busy(p)) + v
             /\ (agent[p].at = "total" /\ agent'[p].at = "loop")
                  => (Standing(p) - Uncounted(p))' >= (Standing(p) - Uncounted(p)) + v
  BY <1>1, StandingStep
<1> HIDE DEF v
<1>4. ASSUME ReadTime' = ReadTime, NEW c, Covered(P, v, c, ReportBalance)
      PROVE  /\ Covered(P, v, c, ReportBalance')
             /\ \A q \in P : (agent[q].at = "publish" /\ agent'[q].at = "total")
                  => Covered(P, v, c + 1, ReportBalance')
  <2>1. ReportBalance' = [p \in P |-> (Standing(p) - Busy(p))' - InParts(ReadTime)]
    BY <1>1, <1>4 DEF ReportBalance
  <2>2. InParts(ReadTime) \in Int
    BY <1>2, InPartsType
  <2>3. ReportBalance \in [P -> Int] /\ ReportBalance' \in [P -> Int]
    BY <1>3, <2>1, <2>2 DEF ReportBalance
  <2>4. ASSUME NEW p \in P
        PROVE  /\ ReportBalance[p] <= ReportBalance'[p]
               /\ (agent[p].at = "publish" /\ agent'[p].at = "total")
                    => ReportBalance[p] + v <= ReportBalance'[p]
    <3>1. /\ ReportBalance[p] = (Standing(p) - Busy(p)) - InParts(ReadTime)
          /\ ReportBalance'[p] = (Standing(p) - Busy(p))' - InParts(ReadTime)
      BY <2>1 DEF ReportBalance
    <3> QED BY <1>1, <1>3, <2>2, <3>1
  <2>5. Covered(P, v, c, ReportBalance')
    BY <1>1, <1>4, <2>3, <2>4, CoverSame
  <2>6. ASSUME NEW q \in P, agent[q].at = "publish", agent'[q].at = "total"
        PROVE  Covered(P, v, c + 1, ReportBalance')
    BY <1>1, <1>4, <2>3, <2>4, <2>6, CoverOneMore
  <2> QED BY <2>5, <2>6
<1>5. ASSUME NEW z \in Int, NEW c, Covered(P, v, c, TotalBalance(z))
      PROVE  /\ Covered(P, v, c, TotalBalance(z)')
             /\ \A q \in P : (agent[q].at = "total" /\ agent'[q].at = "loop")
                  => Covered(P, v, c + 1, TotalBalance(z)')
  <2>1. TotalBalance(z)' = [p \in P |-> (Standing(p) - Uncounted(p))' - InParts(z)]
    BY <1>1 DEF TotalBalance
  <2>2. InParts(z) \in Int
    BY InPartsType
  <2>3. TotalBalance(z) \in [P -> Int] /\ TotalBalance(z)' \in [P -> Int]
    BY <1>3, <2>1, <2>2 DEF TotalBalance
  <2>4. ASSUME NEW p \in P
        PROVE  /\ TotalBalance(z)[p] <= TotalBalance(z)'[p]
               /\ (agent[p].at = "total" /\ agent'[p].at = "loop")
                    => TotalBalance(z)[p] + v <= TotalBalance(z)'[p]
    <3>1. /\ TotalBalance(z)[p] = (Standing(p) - Uncounted(p)) - InParts(z)
          /\ TotalBalance(z)'[p] = (Standing(p) - Uncounted(p))' - InParts(z)
      BY <2>1 DEF TotalBalance
    <3> QED BY <1>1, <1>3, <2>2, <3>1
  <2> DEFINE b == TotalBalance(z)
             d == TotalBalance(z)'
  <2>5. b \in [P -> Int] /\ d \in [P -> Int] /\ Covered(P, v, c, b)
    BY <1>5, <2>3
  <2>6. \A p \in P : b[p] <= d[p]
    BY <2>4
  <2>7. \A p \in P : (agent[p].at = "total" /\ agent'[p].at = "loop") => b[p] + v <= d[p]
    BY <2>4
  <2> HIDE DEF b, d
  <2>8. Covered(P, v, c, d)
    BY <1>1, <2>5, <2>6, CoverSame
  <2>9. ASSUME NEW q \in P, agent[q].at = "total", agent'[q].at = "loop"
        PROVE  Covered(P, v, c + 1, d)
    BY <1>1, <2>5, <2>6, <2>7, <2>9, CoverOneMore
  <2> QED BY <2>8, <2>9 DEF d
<1> QED BY <1>1, <1>4, <1>5 DEF v

\* What is counted from now on begins with nothing, for which no balance is too small.
LEMMA CoverRestart ==
  ASSUME RateInv, RateInv', ScheduleInv, Placed, [Next]_vars, ~Variable,
         setup' = setup, value' = value
  PROVE  /\ (ReadTime' \in Int /\ ReadTime' <= now) =>
              Covered(setup.producers, Price(value), 0, ReportBalance')
         /\ \A z \in Int : z <= now =>
              Covered(setup.producers, Price(value), 0, TotalBalance(z)')
<1> DEFINE P == setup.producers
<1>1. now \in Nat /\ notify = {} /\ InParts(now) \in Nat /\ Price(value) \in Nat
  BY InPartsType, LostFacts DEF RateInv, RateTypes, Placed
<1>2. ASSUME NEW p \in P
      PROVE  /\ (Standing(p) - Busy(p))' - InParts(now) \in Nat
             /\ (Standing(p) - Uncounted(p))' - InParts(now) \in Nat
             /\ (Standing(p) - Busy(p))' \in Int
  <2>1. /\ Standing(p) - Busy(p) >= InParts(now) /\ Standing(p) - Uncounted(p) >= InParts(now)
    BY <1>1, StandingFacts
  <2>2. /\ (Standing(p) - Busy(p)) \in Int /\ (Standing(p) - Busy(p))' \in Int
        /\ (Standing(p) - Uncounted(p)) \in Int /\ (Standing(p) - Uncounted(p))' \in Int
        /\ (Standing(p) - Busy(p))' >= Standing(p) - Busy(p)
        /\ (Standing(p) - Uncounted(p))' >= Standing(p) - Uncounted(p)
    BY StandingStep
  <2> QED BY <1>1, <2>1, <2>2
<1>3. ASSUME ReadTime' \in Int, ReadTime' <= now
      PROVE  Covered(P, Price(value), 0, ReportBalance')
  <2>1. ReportBalance' = [p \in P |-> (Standing(p) - Busy(p))' - InParts(ReadTime')]
    BY DEF ReportBalance
  <2>2. InParts(ReadTime') \in Int /\ InParts(ReadTime') <= InParts(now)
    BY <1>1, <1>3, InPartsType, InPartsOrder
  <2>3. ReportBalance' \in [P -> Int] /\ \A p \in P : 0 <= ReportBalance'[p]
    BY <1>1, <1>2, <2>1, <2>2
  <2> QED BY <1>1, <2>3, CoverNone
<1>4. ASSUME NEW z \in Int, z <= now
      PROVE  Covered(P, Price(value), 0, TotalBalance(z)')
  <2> DEFINE d == TotalBalance(z)'
  <2>1. d = [p \in P |-> (Standing(p) - Uncounted(p))' - InParts(z)]
    BY DEF TotalBalance
  <2>2. InParts(z) \in Int /\ InParts(z) <= InParts(now)
    BY <1>1, <1>4, InPartsType, InPartsOrder
  <2>3. ASSUME NEW p \in P
        PROVE  (Standing(p) - Uncounted(p))' - InParts(z) \in Nat
    <3>1. /\ (Standing(p) - Uncounted(p))' \in Int
          /\ (Standing(p) - Uncounted(p))' - InParts(now) \in Nat
      BY <1>2, StandingStep
    <3> QED BY <1>1, <2>2, <3>1
  <2> HIDE DEF d
  <2>4. d \in [P -> Int] /\ \A p \in P : 0 <= d[p]
    BY <2>1, <2>3
  <2>5. Covered(P, Price(value), 0, d)
    BY <1>1, <2>4, CoverNone
  <2> QED BY <2>5 DEF d
<1> QED BY <1>3, <1>4

\* What may be reported now, or printed at the end, is plausible.
LEMMA PlausibleNow ==
  ASSUME RateInv, ReportInv, ScheduleInv, SharesInv, ~Variable, NEW e \in Int
  PROVE  /\ counter["published"] - LastRead \in Nat
         /\ now - ReadTime <= e =>
              Plausible(counter["published"] - LastRead, e) /\ Plausible(0, e)
         /\ \A z \in Int : (Since(z) /\ now - z <= e) => Plausible(total["published"], e)
<1> DEFINE n == counter["published"] - LastRead
           t == total["published"]
           P == setup.producers
<1>1. notify = {} /\ now \in Nat
  BY DEF SharesInv, Placed, RateInv, RateTypes
<1>2. ReadTime \in Int /\ now - ReadTime \in Int /\ InParts(ReadTime) \in Int
  <2>1. ReadTime \in Int
    BY DEF ReadTime, ReportInv, ReportTypes
  <2> QED BY <1>1, <2>1, InPartsType
<1>3. ASSUME NEW p \in P
      PROVE  Standing(p) \in Int /\ Busy(p) \in Nat /\ Uncounted(p) \in Nat
  BY <1>1, StandingFacts
<1>4. n \in Nat /\ Plausible(n, now - ReadTime)
  <2>1. Covered(P, Price(value), n, ReportBalance)
    BY DEF SharesInv, SharesCovered
  <2>2. /\ ReportBalance \in [P -> Int]
        /\ \A p \in P : ReportBalance[p] = (Standing(p) - Busy(p)) - InParts(ReadTime)
    BY <1>2, <1>3 DEF ReportBalance
  <2> HIDE DEF n
  <2> QED BY <1>1, <1>2, <2>1, <2>2, CoveredIsPlausible
<1>5. ASSUME now - ReadTime <= e PROVE Plausible(n, e) /\ Plausible(0, e)
  <2> HIDE DEF n
  <2> QED BY <1>2, <1>4, <1>5, PlausibleLonger
<1>6. ASSUME NEW z \in Int, Since(z), now - z <= e PROVE Plausible(t, e)
  <2>1. Covered(P, Price(value), t, TotalBalance(z))
    BY <1>6 DEF Since
  <2>2. InParts(z) \in Int /\ now - z \in Int
    BY <1>1, InPartsType
  <2>3. /\ TotalBalance(z) \in [P -> Int]
        /\ \A p \in P : TotalBalance(z)[p] = (Standing(p) - Uncounted(p)) - InParts(z)
    BY <1>3, <2>2 DEF TotalBalance
  <2> HIDE DEF t
  <2>4. t \in Nat /\ Plausible(t, now - z)
    BY <1>1, <2>1, <2>3, CoveredIsPlausible
  <2> QED BY <1>6, <2>2, <2>4, PlausibleLonger
<1> QED BY <1>4, <1>5, <1>6

\* The reporting thread and the summary: what was read is not counted again.
LEMMA SharesMetrics ==
  ASSUME RateInv, RateInv', ReportInv, ScheduleInv, SharesInv, MetricsStep, ~Variable
  PROVE  SharesCovered'
<1> USE DEF countVars, reportVars, endingVars
<1> DEFINE P == setup.producers
           v == Price(value)
           n == counter["published"] - LastRead
           t == total["published"]
<1>1. [Next]_vars /\ now' = now /\ agent' = agent
  BY DEF Next, MetricsStep, producerVars
<1>2. /\ setup' = setup /\ value' = value
      /\ ReadTime' = ReadTime => Covered(P, v, n, ReportBalance')
      /\ \A z \in Int : Covered(P, v, t, TotalBalance(z)) => Covered(P, v, t, TotalBalance(z)')
  BY <1>1, SharesKept DEF SharesInv, SharesCovered
<1>3. (ReadTime' \in Int /\ ReadTime' <= now) => Covered(P, v, 0, ReportBalance')
  BY <1>1, <1>2, CoverRestart DEF SharesInv
<1>4. PlausibleReports /\ PlausibleSummary /\ \E z \in Int : Since(z)
  BY DEF SharesInv, SharesCovered
<1>5. \A m, e : Plausible(m, e)' <=> Plausible(m, e)
  BY <1>2 DEF Plausible
<1>6. startTimeForTotal' = startTimeForTotal /\ counter' = counter /\ total' = total
  BY DEF MetricsStep, ReportBegin, SwapRead, SwapSet, Report, Close, SummaryStart, SummaryTotal
<1>7. /\ reporter \in [at : {"idle", "read", "set", "report"}, of : Counters, value : Int]
      /\ report \in [counts : Counts, elapsed : Int] /\ lastTick \in Int /\ now \in Int
      /\ counter \in Counts /\ last \in Counts /\ summary \in Summaries
      /\ startTimeForTotal \in Int /\ total \in Counts /\ Lateness \in Nat
      /\ lastTick <= now /\ (reporter.at # "idle" => now <= lastTick + Lateness)
      /\ summary.at # "none" => now <= summary.time + Lateness
  BY ThroughputAssumption DEF ReportInv, ReportTypes, SharesInv, Placed, Timely
<1>8. ASSUME NEW z \in Int, Since(z),
             summary'.at = "total" => (summary'.time - summary'.elapsed) - Lateness <= z
      PROVE  Since(z)'
  <2>1. Covered(P, v, t, TotalBalance(z)')
    BY <1>2, <1>8 DEF Since
  <2>2. Covered(setup.producers, Price(value), total["published"], TotalBalance(z))'
    BY <1>2, <1>6, <2>1
  <2> QED BY <1>1, <1>6, <1>8, <2>2 DEF Since, Resetting
<1>9. ASSUME summary' = summary
      PROVE  PlausibleSummary' /\ \E z \in Int : Since(z)'
  <2>1. PlausibleSummary'
    BY <1>2, <1>4, <1>5, <1>9 DEF PlausibleSummary, Plausible, Variable, Schedule
  <2>2. PICK z \in Int : Since(z)
    BY <1>4
  <2>3. Since(z)'
    BY <1>8, <1>9, <2>2 DEF Since
  <2> QED BY <2>1, <2>3
<1>10. ASSUME report' = report PROVE PlausibleReports'
  BY <1>2, <1>4, <1>5, <1>10 DEF PlausibleReports, Plausible, Variable, Schedule
<1>11. ASSUME ReadTime' = ReadTime, LastRead' = LastRead
       PROVE  Covered(P, v, (counter["published"] - LastRead)', ReportBalance')
  BY <1>2, <1>6, <1>11
<1>12. ASSUME Covered(P, v, (counter["published"] - LastRead)', ReportBalance'),
              PlausibleReports', PlausibleSummary', \E z \in Int : Since(z)'
       PROVE  SharesCovered'
  BY <1>2, <1>12 DEF SharesCovered
<1>13. CASE ReportBegin(now, setup.interval)
  <2>1. CASE NoActivity
    <3>1. UNCHANGED <<lastTick, reporter, report, last, summary>>
      BY <1>13, <2>1 DEF ReportBegin
    <3>2. ReadTime' = ReadTime /\ LastRead' = LastRead
      BY <3>1 DEF ReadTime, LastRead
    <3> QED BY <1>9, <1>10, <1>11, <1>12, <3>1, <3>2
  <2>2. CASE ~NoActivity
    <3>1. /\ lastTick' = now /\ last' = last /\ summary' = summary /\ reporter.at = "idle"
          /\ report' = [counts |-> Zero, elapsed |-> now - lastTick]
          /\ reporter' = [at |-> "read", of |-> "published", value |-> 0]
      BY <1>13, <2>2 DEF ReportBegin
    <3>2. ReadTime = lastTick /\ ReadTime' = lastTick
      BY <1>1, <1>7, <3>1 DEF ReadTime
    <3>3. LastRead' = LastRead
      BY <3>1 DEF LastRead
    <3> DEFINE e == (now - lastTick) + Lateness
    <3>4. report'.counts["published"] = 0 /\ report'.elapsed + Lateness = e
      BY <3>1 DEF Zero, Counters
    <3>5. e \in Int /\ now - ReadTime <= e
      BY <1>7, <3>2
    <3> HIDE DEF e
    <3>6. Plausible(0, e)
      BY <3>5, PlausibleNow
    <3>7. PlausibleReports'
      BY <1>5, <3>4, <3>6 DEF PlausibleReports, Plausible
    <3> QED BY <1>9, <1>11, <1>12, <3>1, <3>2, <3>3, <3>7
  <2> QED BY <2>1, <2>2
<1>14. CASE SwapRead
  <2>1. /\ UNCHANGED <<last, lastTick, summary>> /\ reporter.at = "read"
        /\ reporter'.at = "set" /\ reporter'.of = reporter.of
        /\ reporter'.value = counter[reporter.of] /\ report'.elapsed = report.elapsed
        /\ report'.counts
             = [report.counts EXCEPT ![reporter.of] = counter[reporter.of] - last[reporter.of]]
    BY <1>7, <1>14 DEF SwapRead
  <2>2. report.counts \in Counts
    BY <1>7
  <2>3. CASE reporter.of = "published"
    <3>1. LastRead = last["published"] /\ LastRead' = counter["published"]
      BY <2>1, <2>3 DEF LastRead
    <3>2. ReadTime = lastTick - report.elapsed /\ ReadTime' = lastTick
      BY <2>1, <2>3 DEF ReadTime
    <3> DEFINE e == report.elapsed + Lateness
    <3>3. report'.counts["published"] = n /\ report'.elapsed + Lateness = e
      BY <1>7, <2>1, <2>2, <2>3, <3>1 DEF Counts
    <3>4. (counter["published"] - LastRead)' = 0
      BY <1>6, <1>7, <3>1 DEF Counts, Counters
    <3>5. e \in Int /\ now - ReadTime <= e
      BY <1>7, <2>1, <3>2
    <3> HIDE DEF e
    <3>6. Plausible(n, e)
      BY <3>5, PlausibleNow
    <3>7. PlausibleReports'
      BY <1>5, <3>3, <3>6 DEF PlausibleReports, Plausible
    <3>8. Covered(P, v, 0, ReportBalance')
      BY <1>3, <1>7, <3>2
    <3> QED BY <1>9, <1>12, <2>1, <3>4, <3>7, <3>8
  <2>4. CASE reporter.of = "received"
    <3>1. LastRead' = LastRead /\ ReadTime' = ReadTime
      BY <2>1, <2>4 DEF LastRead, ReadTime
    <3>2. report'.counts["published"] = report.counts["published"]
      BY <2>1, <2>2, <2>4 DEF Counts, Counters
    <3>3. PlausibleReports'
      BY <1>2, <1>4, <1>5, <2>1, <3>2 DEF PlausibleReports, Plausible, Variable, Schedule
    <3> QED BY <1>9, <1>11, <1>12, <2>1, <3>1, <3>3
  <2> QED BY <1>7, <2>3, <2>4 DEF Counters
<1>15. CASE SwapSet
  <2>1. /\ UNCHANGED <<lastTick, summary, report>> /\ reporter.at = "set"
        /\ last' = [last EXCEPT ![reporter.of] = reporter.value]
        /\ reporter' = AfterSet(reporter.of)
    BY <1>15 DEF SwapSet
  <2>2. reporter'.at \in {"read", "report"} /\ reporter'.of = "received"
    BY <2>1 DEF AfterSet
  <2>3. LastRead' = LastRead /\ ReadTime' = ReadTime
    BY <1>7, <2>1, <2>2 DEF LastRead, ReadTime, Counts, Counters
  <2> QED BY <1>9, <1>10, <1>11, <1>12, <2>1, <2>3
<1>16. CASE Report
  <2>1. /\ UNCHANGED <<last, lastTick, summary>> /\ report' = NoReport
        /\ reporter.at = "report" /\ reporter'.at = "idle"
    BY <1>7, <1>16 DEF Report
  <2>2. LastRead' = LastRead /\ ReadTime' = ReadTime /\ ReadTime = lastTick
    BY <2>1 DEF LastRead, ReadTime
  <2>3. report'.counts["published"] = 0 /\ report'.elapsed + Lateness = Lateness
    BY <1>7, <2>1 DEF NoReport, Zero, Counters
  <2>4. Lateness \in Int /\ now - ReadTime <= Lateness
    BY <1>7, <2>1, <2>2
  <2>5. Plausible(0, Lateness)
    BY <2>4, PlausibleNow
  <2>6. PlausibleReports'
    BY <1>5, <2>3, <2>5 DEF PlausibleReports, Plausible
  <2> QED BY <1>9, <1>11, <1>12, <2>1, <2>2, <2>6
<1>17. ASSUME UNCHANGED <<last, lastTick, reporter, report>>
       PROVE  /\ Covered(P, v, (counter["published"] - LastRead)', ReportBalance')
              /\ PlausibleReports'
  <2>1. LastRead' = LastRead /\ ReadTime' = ReadTime
    BY <1>17 DEF LastRead, ReadTime
  <2> QED BY <1>10, <1>11, <1>17, <2>1
<1>18. ASSUME summary'.at # "total"
       PROVE  \E z \in Int : Since(z)'
  BY <1>4, <1>8, <1>18
<1>19. CASE Close(now)
  <2>1. UNCHANGED <<last, lastTick, reporter, report>> /\ summary'.at = "start"
    BY <1>7, <1>19 DEF Close, Summaries
  <2> QED BY <1>12, <1>17, <1>18, <2>1 DEF PlausibleSummary
<1>20. CASE SummaryStart
  <2>1. /\ UNCHANGED <<last, lastTick, reporter, report>> /\ summary'.at = "total"
        /\ summary'.time = summary.time
        /\ summary'.elapsed = summary.time - startTimeForTotal
    BY <1>7, <1>20 DEF SummaryStart, Summaries
  <2>2. PICK z \in Int : Since(z)
    BY <1>4
  <2>3. summary'.time - summary'.elapsed = startTimeForTotal
    BY <1>7, <2>1 DEF Summaries
  <2>4. Since(z)'
    BY <1>8, <2>2, <2>3 DEF Since
  <2> QED BY <1>12, <1>17, <2>1, <2>4 DEF PlausibleSummary
<1>21. CASE SummaryTotal
  <2>1. /\ UNCHANGED <<last, lastTick, reporter, report>> /\ summary.at = "total"
        /\ summary'.at = "printed" /\ summary'.elapsed = summary.elapsed
        /\ summary'.counts = total
    BY <1>7, <1>21 DEF SummaryTotal, Summaries
  <2>2. PICK z \in Int : Since(z)
    BY <1>4
  <2> DEFINE e == summary.elapsed + 2 * Lateness
  <2>3. e \in Int /\ now - z <= e
    BY <1>7, <2>1, <2>2 DEF Since, Summaries
  <2>4. summary'.counts["published"] = t /\ summary'.elapsed + 2 * Lateness = e
    BY <2>1
  <2> HIDE DEF e
  <2>5. Plausible(t, e)
    BY <2>2, <2>3, PlausibleNow
  <2>6. PlausibleSummary'
    BY <1>5, <2>4, <2>5 DEF PlausibleSummary, Plausible
  <2> QED BY <1>12, <1>17, <1>18, <2>1, <2>6
<1> QED BY <1>13, <1>14, <1>15, <1>16, <1>19, <1>20, <1>21 DEF MetricsStep

\* A step that counts at most: the reporting thread and the summary are as they were.
LEMMA SharesCounting ==
  ASSUME RateInv, RateInv', ReportInv, ScheduleInv, SharesInv, [Next]_vars, ~Variable,
         UNCHANGED <<reportVars, summary>>,
         \/ counter'["published"] = counter["published"]
         \/ /\ counter'["published"] = counter["published"] + 1
            /\ \E q \in setup.producers : agent[q].at = "publish" /\ agent'[q].at = "total",
         \E z \in Int : Since(z)'
  PROVE  SharesCovered'
<1> DEFINE P == setup.producers
           n == counter["published"] - LastRead
<1>1. ReadTime' = ReadTime /\ LastRead' = LastRead
  BY DEF ReadTime, LastRead, reportVars
<1>2. Covered(P, Price(value), n, ReportBalance)
  BY DEF SharesInv, SharesCovered
<1> HIDE DEF n
<1>3. /\ setup' = setup /\ value' = value
      /\ Covered(P, Price(value), n, ReportBalance')
      /\ \A q \in P : (agent[q].at = "publish" /\ agent'[q].at = "total")
           => Covered(P, Price(value), n + 1, ReportBalance')
  BY <1>1, <1>2, SharesKept
<1>4. PlausibleReports' /\ PlausibleSummary'
  BY <1>3 DEF SharesInv, SharesCovered, PlausibleReports, PlausibleSummary, Plausible, Variable,
              Schedule, reportVars
<1>5. counter["published"] \in Int /\ LastRead \in Int
  BY DEF ReportInv, ReportTypes, Counts, Counters, LastRead
<1>6. /\ counter'["published"] = counter["published"] => n' = n
      /\ counter'["published"] = counter["published"] + 1 => n' = n + 1
  BY <1>1, <1>5 DEF n
<1>7. Covered(P, Price(value), n', ReportBalance')
  BY <1>3, <1>6
<1> QED BY <1>3, <1>4, <1>7 DEF SharesCovered, n

\* Unless an agent resets it, the total is of the time since the same moment.
LEMMA SinceKept ==
  ASSUME RateInv, RateInv', ReportInv, ScheduleInv, SharesInv, [Next]_vars, ~Variable,
         summary' = summary, now' \in {now, now + 1},
         \/ startTimeForTotal' = startTimeForTotal
         \/ startTimeForTotal' = now /\ \E a \in Agents : Resetting(a),
         \A a \in Agents : Resetting(a)' => Resetting(a) /\ agent'[a].wake = agent[a].wake,
         \/ total'["published"] = total["published"]
         \/ /\ total'["published"] = total["published"] + 1
            /\ \E q \in setup.producers : agent[q].at = "total" /\ agent'[q].at = "loop"
  PROVE  \E z \in Int : Since(z)'
<1> DEFINE P == setup.producers
           t == total["published"]
<1>1. PICK z \in Int : Since(z)
  BY DEF SharesInv, SharesCovered
<1>2. /\ now \in Nat /\ startTimeForTotal \in Int /\ Lateness \in Nat
      /\ \A a \in Agents : agent[a].wake \in Nat
      /\ \A a \in Agents : Resetting(a) => now <= agent[a].wake + Lateness
  BY ThroughputAssumption DEF RateInv, RateTypes, SharesInv, Placed, Timely
<1>3. z <= now'
  BY <1>1, <1>2 DEF Since
<1>4. startTimeForTotal' - Lateness <= z
  BY <1>1, <1>2 DEF Since
<1>5. \A a \in Agents : Resetting(a)' => agent'[a].wake <= z
  BY <1>1 DEF Since
<1>6. Covered(P, Price(value), t, TotalBalance(z))
  BY <1>1 DEF Since
<1>7. /\ setup' = setup /\ value' = value
      /\ Covered(P, Price(value), t, TotalBalance(z)')
      /\ \A q \in P : (agent[q].at = "total" /\ agent'[q].at = "loop")
           => Covered(P, Price(value), t + 1, TotalBalance(z)')
  <2> HIDE DEF t
  <2> QED BY <1>6, SharesKept
<1>8. Covered(P, Price(value), t', TotalBalance(z)')
  BY <1>7
<1>9. Covered(setup.producers, Price(value), total["published"], TotalBalance(z))'
  BY <1>7, <1>8
<1>10. Since(z)'
  BY <1>1, <1>3, <1>4, <1>5, <1>9 DEF Since
<1> QED BY <1>10

\* The first write of a reset: the total is of the time from now on.
LEMMA SinceReset ==
  ASSUME RateInv, RateInv', ReportInv, ScheduleInv, SharesInv, [Next]_vars, ~Variable,
         summary' = summary, now' = now, startTimeForTotal' = startTimeForTotal,
         total'["published"] = 0, NEW a \in Agents,
         agent' = [agent EXCEPT ![a] = [at |-> "received", wake |-> now]]
  PROVE  \E z \in Int : Since(z)'
<1>1. PICK y \in Int : Since(y)
  BY DEF SharesInv, SharesCovered
<1>2. PICK z \in Int : z = now
  BY DEF RateInv, RateTypes
<1>3. /\ startTimeForTotal \in Int /\ startTimeForTotal <= now /\ Lateness \in Nat
      /\ \A b \in Agents : Resetting(b) => agent[b].wake <= now
  BY ThroughputAssumption DEF SharesInv, Placed, Timely
<1>4. z <= now' /\ startTimeForTotal' - Lateness <= z
  BY <1>2, <1>3
<1>5. ASSUME NEW b \in Agents, Resetting(b)' PROVE agent'[b].wake <= z
  <2>1. agent'[b] = IF b = a THEN [at |-> "received", wake |-> now] ELSE agent[b]
    BY DEF RateInv, RateTypes
  <2> QED BY <1>2, <1>3, <1>5, <2>1 DEF Resetting
<1>6. summary'.at = "total" => (summary'.time - summary'.elapsed) - Lateness <= z
  <2>1. summary \in Summaries
    BY DEF SharesInv, Placed, Timely
  <2> QED BY <1>1, <1>2, <1>3, <2>1 DEF Since, Summaries
<1>7. setup' = setup /\ value' = value
  BY SharesKept
<1>8. Covered(setup.producers, Price(value), 0, TotalBalance(z)')
  BY <1>2, <1>7, CoverRestart DEF SharesInv
<1>9. Covered(setup.producers, Price(value), total["published"], TotalBalance(z))'
  BY <1>7, <1>8
<1>10. Since(z)'
  BY <1>4, <1>5, <1>6, <1>9 DEF Since
<1> QED BY <1>10

\* Publishing and counting add to what is covered, reading and resetting begin anew.
LEMMA SharesStep ==
  ASSUME RateInv, RateInv', ReportInv, ScheduleInv, SharesInv, [Next]_vars
  PROVE  SharesInv'
<1> USE DEF metricsVars, countVars, reportVars, endingVars
<1>1. Placed' /\ setup' = setup
  BY PlacedStep DEF SharesInv
<1>2. Variable' = Variable
  BY <1>1 DEF Variable, Schedule
<1> DEFINE Kept == \A b \in Agents : Resetting(b)' =>
                     Resetting(b) /\ agent'[b].wake = agent[b].wake
<1>3. ASSUME NEW a \in Agents, NEW r, agent' = [agent EXCEPT ![a] = r],
             r.at \notin {"received", "time"}
      PROVE  Kept
  <2>1. ASSUME NEW b \in Agents, Resetting(b)'
        PROVE  Resetting(b) /\ agent'[b].wake = agent[b].wake
    <3>1. agent'[b] = IF b = a THEN r ELSE agent[b]
      BY <1>3 DEF RateInv, RateTypes
    <3> QED BY <1>3, <2>1, <3>1 DEF Resetting
  <2> QED BY <2>1
<1>4. ASSUME NEW a \in Agents, NEW from, NEW to, Move(a, from, to),
             to \in {"received", "time"} => from \in {"received", "time"}
      PROVE  Kept /\ agent[a].at = from /\ agent'[a].at = to
  <2>1. ASSUME NEW b \in Agents
        PROVE  /\ agent'[b].at = IF b = a THEN to ELSE agent[b].at
               /\ agent'[b].wake = agent[b].wake
    BY <1>4 DEF Move, RateInv, RateTypes
  <2>2. agent[a].at = from
    BY <1>4 DEF Move
  <2> QED BY <1>4, <2>1, <2>2 DEF Resetting
<1>5. ASSUME ~Variable PROVE SharesCovered'
  <2>1. counter \in Counts /\ total \in Counts
    BY DEF ReportInv, ReportTypes, SharesInv, Placed, Timely
  <2>2. ASSUME UNCHANGED metricsVars, now' \in {now, now + 1}, Kept PROVE SharesCovered'
    <3>1. \E z \in Int : Since(z)'
      BY <1>5, <2>2, SinceKept
    <3> QED BY <1>5, <2>2, <3>1, SharesCounting
  <2>3. CASE UNCHANGED <<now, agent, metricsVars>>
    <3>1. Kept
      BY <2>3 DEF Resetting
    <3> QED BY <2>2, <2>3, <3>1
  <2>4. CASE MetricsStep
    BY <1>5, <2>4, SharesMetrics
  <2>5. CASE Tick
    <3>1. Kept
      BY <2>5 DEF Tick, producerVars, Resetting
    <3> QED BY <2>2, <2>5, <3>1 DEF Tick
  <2>6. ASSUME NEW p \in Producers, Publish(p) PROVE SharesCovered'
    <3>1. p \in Agents
      BY DEF Agents
    <3>2. Move(p, "publish", "total") /\ now' = now
      BY <2>6 DEF Publish
    <3>3. Kept /\ agent[p].at = "publish" /\ agent'[p].at = "total"
      BY <1>4, <3>1, <3>2
    <3>4. /\ UNCHANGED <<reportVars, summary, startTimeForTotal, total>>
          /\ counter' = [counter EXCEPT !["published"] = @ + 1]
      BY <2>6 DEF Publish, CountEvent
    <3>5. p \in setup.producers
      BY <1>5, <3>3 DEF SharesInv, Placed
    <3>6. counter'["published"] = counter["published"] + 1
      BY <2>1, <3>4 DEF Counts, Counters
    <3>7. \E z \in Int : Since(z)'
      BY <1>5, <3>2, <3>3, <3>4, SinceKept
    <3> QED BY <1>5, <3>3, <3>4, <3>5, <3>6, <3>7, SharesCounting
  <2>7. ASSUME NEW p \in Producers, Producer(p) PROVE SharesCovered'
    <3>1. p \in Agents
      BY DEF Agents
    <3>2. CASE Publish(p)
      BY <2>6, <3>2
    <3>3. ASSUME NEW r, agent' = [agent EXCEPT ![p] = r], r.at \notin {"received", "time"},
                 UNCHANGED <<now, metricsVars>>
          PROVE  SharesCovered'
      <4>1. Kept
        BY <1>3, <3>1, <3>3
      <4> QED BY <2>2, <3>3, <4>1
    <3>4. CASE Acquire(p)
      BY <3>3, <3>4 DEF Acquire
    <3>5. CASE Wake(p)
      BY <3>3, <3>5 DEF Wake
    <3>6. CASE Resume(p)
      BY <3>3, <3>6 DEF Resume
    <3>7. CASE ValueChanged(p) \/ Observe(p)
      BY <2>3, <3>7 DEF ValueChanged, Observe
    <3> QED BY <2>7, <3>2, <3>4, <3>5, <3>6, <3>7 DEF Producer
  <2>8. ASSUME NEW c \in Consumers, Receive(c) PROVE SharesCovered'
    <3>1. c \in Agents
      BY DEF Agents
    <3>2. Move(c, "loop", "total") /\ now' = now
      BY <2>8 DEF Receive
    <3>3. Kept
      BY <1>4, <3>1, <3>2
    <3>4. /\ UNCHANGED <<reportVars, summary, startTimeForTotal, total>>
          /\ counter' = [counter EXCEPT !["received"] = @ + 1]
      BY <2>8 DEF Receive, CountEvent
    <3>5. counter'["published"] = counter["published"]
      BY <2>1, <3>4 DEF Counts, Counters
    <3>6. \E z \in Int : Since(z)'
      BY <1>5, <3>2, <3>3, <3>4, SinceKept
    <3> QED BY <1>5, <3>4, <3>5, <3>6, SharesCounting
  <2>9. ASSUME NEW a \in Agents, Reset(a) PROVE SharesCovered'
    <3>1. now' = now /\ UNCHANGED <<reportVars, summary, counter>>
      BY <2>9 DEF Reset, ResetTotal, ResetTime
    <3>2. ASSUME \E z \in Int : Since(z)' PROVE SharesCovered'
      BY <1>5, <3>1, <3>2, SharesCounting
    <3>3. CASE /\ agent[a].at = "reset" /\ ResetTotal("published")
               /\ agent' = [agent EXCEPT ![a] = [at |-> "received", wake |-> now]]
      <4>1. startTimeForTotal' = startTimeForTotal /\ total'["published"] = 0
        BY <2>1, <3>3 DEF ResetTotal, Counts, Counters
      <4>2. \E z \in Int : Since(z)'
        BY <1>5, <3>1, <3>3, <4>1, SinceReset
      <4> QED BY <3>2, <4>2
    <3>4. CASE Move(a, "received", "time") /\ ResetTotal("received")
      <4>1. /\ startTimeForTotal' = startTimeForTotal
            /\ total'["published"] = total["published"]
        BY <2>1, <3>4 DEF ResetTotal, Counts, Counters
      <4>2. Kept
        BY <1>4, <3>4
      <4>3. \E z \in Int : Since(z)'
        BY <1>5, <3>1, <4>1, <4>2, SinceKept
      <4> QED BY <3>2, <4>3
    <3>5. CASE Move(a, "time", "loop") /\ ResetTime(now)
      <4>1. startTimeForTotal' = now /\ total' = total
        BY <3>5 DEF ResetTime
      <4>2. Kept /\ agent[a].at = "time"
        BY <1>4, <3>5
      <4>3. \E z \in Int : Since(z)'
        BY <1>5, <3>1, <4>1, <4>2, SinceKept DEF Resetting
      <4> QED BY <3>2, <4>3
    <3> QED BY <2>9, <3>3, <3>4, <3>5 DEF Reset
  <2>10. ASSUME NEW a \in Agents, Total(a) PROVE SharesCovered'
    <3>1. Move(a, "total", "loop") /\ now' = now
      BY <2>10 DEF Total
    <3>2. Kept /\ agent[a].at = "total" /\ agent'[a].at = "loop"
      BY <1>4, <3>1
    <3>3. /\ UNCHANGED <<reportVars, summary, startTimeForTotal, counter>>
          /\ total' = [total EXCEPT ![IF a \in Producers THEN "published" ELSE "received"] = @ + 1]
      BY <2>10 DEF Total, CountTotal
    <3>4. \/ total'["published"] = total["published"]
          \/ total'["published"] = total["published"] + 1 /\ a \in Producers
      BY <2>1, <3>3 DEF Counts, Counters
    <3>5. a \in Producers => a \in setup.producers
      BY <1>5, <3>2 DEF SharesInv, Placed
    <3>6. \E z \in Int : Since(z)'
      BY <1>5, <3>1, <3>2, <3>3, <3>4, <3>5, SinceKept
    <3> QED BY <1>5, <3>3, <3>6, SharesCounting
  <2>11. ASSUME NEW a \in Agents, Agent(a) PROVE SharesCovered'
    <3>1. CASE Start(a)
      <4>1. Kept
        BY <1>4, <3>1 DEF Start
      <4> QED BY <2>2, <3>1, <4>1 DEF Start
    <3>2. CASE AllStarted(a)
      <4>1. PICK to \in {"reset", "loop"} : Move(a, "added", to)
        BY <3>2 DEF AllStarted
      <4>2. Kept
        BY <1>4, <4>1
      <4> QED BY <2>2, <3>2, <4>2 DEF AllStarted
    <3> QED BY <2>9, <2>10, <2>11, <3>1, <3>2 DEF Agent
  <2>12. CASE UpdateValue \/ UNCHANGED vars
    BY <2>3, <2>12 DEF UpdateValue, vars, producerVars
  <2> QED BY <2>4, <2>5, <2>7, <2>8, <2>11, <2>12 DEF Next
<1> QED BY <1>1, <1>2, <1>5 DEF SharesInv

\* The counts since the last report and the totals are shared by the producers
\* so that each has had the time for its messages, although the counters are
\* read and reset while producers are between their permit and their counter, the
\* totals and their time are reset and read one after the other, and more than one
\* agent may reset them.
THEOREM SharesInvariance == Spec => []SharesInv
<1>1. Init => ReportInv /\ SharesInv
  BY ReportInit, SharesInit
<1>2. ReportInv /\ [Next]_vars => ReportInv'
  BY ReportsStep
<1>3. RateInv /\ RateInv' /\ ReportInv /\ ScheduleInv /\ SharesInv /\ [Next]_vars => SharesInv'
  BY SharesStep
<1> QED BY <1>1, <1>2, <1>3, RateInvariance, ScheduleInvariance, PTL DEF Spec

\* At a fixed rate no report shows more messages than the limiters let through in
\* its time, and the time the report may take, for any number of producers, while
\* the counters are read as they change.
THEOREM ReportsPlausible == Spec => []PlausibleReports
<1>1. SharesInv => PlausibleReports
  BY DEF SharesInv, SharesCovered, PlausibleReports
<1> QED BY <1>1, SharesInvariance, PTL

\* Nor does the summary, although totals and time are reset and read while agents
\* publish.
THEOREM SummaryPlausible == Spec => []PlausibleSummary
<1>1. SharesInv => PlausibleSummary
  BY DEF SharesInv, SharesCovered, PlausibleSummary
<1> QED BY <1>1, SharesInvariance, PTL
=============================================================================
