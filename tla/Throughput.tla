----------------------------- MODULE Throughput -----------------------------
(***************************************************************************)
(* How fast producers publish, and what is reported of it: the loop of     *)
(* Producer.run with its rate limiter, the variable rate that replaces the *)
(* limiters, a consumer, the start listener and the metrics.               *)
(*                                                                         *)
(* Time is counted in microseconds. Only the updates of the value, the     *)
(* reports, the reset and the summary are punctual up to Lateness; a       *)
(* producer may be blocked when it publishes or, unless Prompt, be late at *)
(* any step.                                                               *)
(***************************************************************************)
EXTENDS RateLimiter, ValueIndicator, Metrics, FiniteSets, SequencesExt

CONSTANTS
  Producers, Consumers,  \* the agents of a test
  Setups,                \* tests: agents, schedule of the rate, time between two
                         \* reports, end of the test, whether messages get to the
                         \* consumers, producers to observe
  ScheduledUpTo,         \* fixed rates from 1 to so many messages a second are scheduled
  Lateness,              \* how late a scheduled task may be, and how long it may take
  Prompt                 \* producers are only delayed before they start and while they publish

Agents == Producers \cup Consumers

SetupRecords ==
  [producers : SUBSET Producers, consumers : SUBSET Consumers, schedule : Seq(Definitions),
   interval : Nat \ {0}, end : Nat, routed : BOOLEAN, observed : SUBSET Producers]

\* A fixed rate for which startProducers uses a limiter: with 0 nothing is
\* published, and the rates from 1 to ScheduledUpTo are scheduled.
Limited(v) ==
  v # Stopped /\ (v * ScheduledUpTo < InParts(Second) \/ v > InParts(Second))

\* A schedule of one value is a fixed rate.
ASSUME ThroughputAssumption ==
  /\ IsFiniteSet(Producers) /\ Producers \cap Consumers = {}
  /\ Setups \subseteq SetupRecords
  /\ \A s \in Setups : s.schedule # <<>> /\ Lateness < s.interval
  /\ \A s \in Setups : Len(s.schedule) = 1 => Limited(s.schedule[1].value)
  /\ ScheduledUpTo \in Nat \ {0} /\ Lateness \in Nat /\ Prompt \in BOOLEAN

VARIABLES
  setup,    \* the test
  now,      \* the time
  value,    \* the value of the rate indicator
  due,      \* when it is next updated
  notify,   \* the producers whose listener is to be called
  limiter,  \* the limiter of each producer
  agent,    \* where each agent is, and until when it sleeps
  starts,   \* the agents the start listener knows of
  window,   \* history: the messages of each producer in a stretch of time
  stray     \* history: those since the rate became 0

rateVars == <<value, due, notify>>
producerVars == <<limiter, agent, window, stray>>
vars == <<setup, now, rateVars, producerVars, starts, metricsVars>>

Schedule == setup.schedule
Variable == Len(Schedule) > 1
Present == setup.producers \cup setup.consumers

\* The first limiter of a rate that begins with 0 is for one message a second.
FirstInterval == IF value = Stopped THEN InParts(Second) ELSE value

\* A stretch of time that begins now, with the time the limiter may have saved
\* up; cost is the number of messages times the price of a permit.
Window(credit) == [start |-> now, credit |-> credit, cost |-> 0]

Init ==
  /\ setup \in Setups
  /\ now = 0
  /\ value = Schedule[1].value /\ due = 0 /\ notify = {}
  /\ limiter = [p \in Producers |-> Create(FirstInterval, 0)]
  /\ agent = [a \in Agents |-> [at |-> "new", wake |-> 0]]
  /\ window = [p \in Producers |-> Window(0)] /\ stray = [p \in Producers |-> 0]
  /\ starts = {}
  /\ MetricsInit(setup.interval)

Move(a, from, to) == agent[a].at = from /\ agent' = [agent EXCEPT ![a].at = to]

-----------------------------------------------------------------------------
(***************************************************************************)
(* Time and the variable rate.                                             *)
(***************************************************************************)
\* A producer that can go on, and is not in a call to the broker.
Ready(p) ==
  \/ agent[p].at \in {"added", "reset", "loop", "total"}
  \/ agent[p].at \in {"asleep", "paused"} /\ now >= agent[p].wake

\* Nothing that has to be done by now is left to do.
Punctual ==
  /\ Variable => now < due + Lateness
  /\ now < reportDue + Lateness
  /\ reporter.at # "idle" => now < lastTick + Lateness
  /\ summary.at # "none" => now < summary.time + Lateness
  /\ \A a \in Agents : agent[a].at \in {"received", "time"} => now < agent[a].wake + Lateness

Tick ==
  /\ now < setup.end /\ Punctual
  /\ Prompt => \A p \in Producers : ~Ready(p)
  /\ now' = now + 1
  /\ UNCHANGED <<setup, rateVars, producerVars, starts, metricsVars>>

\* updateValueIfNecessary sets the value and goes through the listeners.
UpdateValue ==
  /\ Variable /\ now >= due /\ notify = {}
  /\ due' = due + Period(Schedule)
  /\ value' = ValueOf(Schedule, now, value)
  /\ notify' = IF value' # value THEN setup.producers ELSE {}
  /\ stray' = IF value' # value THEN [p \in Producers |-> 0] ELSE stray
  /\ UNCHANGED <<setup, now, limiter, agent, window, starts, metricsVars>>

\* The listener of a producer: a new limiter, unless there is nothing to publish.
ValueChanged(p) ==
  /\ p \in notify /\ notify' = notify \ {p}
  /\ IF value = Stopped
       THEN UNCHANGED <<limiter, window>>
       ELSE /\ limiter' = [limiter EXCEPT ![p] = Create(value, now)]
            /\ window' = [window EXCEPT ![p] = Window(0)]
  /\ UNCHANGED <<setup, now, value, due, agent, stray, starts, metricsVars>>

\* A stretch of time may begin at any moment, with permits that were saved up.
Observe(p) ==
  /\ p \in setup.observed /\ window[p].credit = 0
  /\ window' = [window EXCEPT ![p] = Window(Second)]
  /\ UNCHANGED <<setup, now, rateVars, limiter, agent, stray, starts, metricsVars>>

-----------------------------------------------------------------------------
(***************************************************************************)
(* The loop of Producer.run.                                               *)
(***************************************************************************)
\* started(): the listener of PerfTest adds the agent...
Start(a) ==
  /\ a \in Present /\ Move(a, "new", "added")
  /\ starts' = starts \cup {a}
  /\ UNCHANGED <<setup, now, rateVars, limiter, window, stray, metricsVars>>

\* ... and looks whether all are there, which more than one agent may find.
AllStarted(a) ==
  /\ Move(a, "added", IF Cardinality(starts) = Cardinality(Present) THEN "reset" ELSE "loop")
  /\ UNCHANGED <<setup, now, rateVars, limiter, window, stray, starts, metricsVars>>

\* resetGlobals
Reset(a) ==
  /\ \/ /\ agent[a].at = "reset" /\ ResetTotal("published")
        /\ agent' = [agent EXCEPT ![a] = [at |-> "received", wake |-> now]]
     \/ Move(a, "received", "time") /\ ResetTotal("received")
     \/ Move(a, "time", "loop") /\ ResetTime(now)
  /\ UNCHANGED <<setup, now, rateVars, limiter, window, stray, starts>>

\* acquire(): reserve a permit, sleep until it is granted.
Acquire(p) ==
  LET l == Resync(limiter[p], now) IN
  /\ p \in setup.producers /\ agent[p].at = "loop"
  /\ limiter' = [limiter EXCEPT ![p] = Reserve(l)]
  /\ agent' = [agent EXCEPT ![p] = [at |-> "asleep", wake |-> l.next]]
  /\ UNCHANGED <<setup, now, rateVars, window, stray, starts, metricsVars>>

\* Mutant: the value is not looked at after the wait.
WakeUnchecked(p) ==
  /\ agent[p].at = "asleep" /\ now >= agent[p].wake
  /\ agent' = [agent EXCEPT ![p] = [at |-> "publish", wake |-> 0]]
  /\ UNCHANGED <<setup, now, rateVars, limiter, window, stray, starts, metricsVars>>

\* Instructed not to publish, a producer waits for a second.
Wake(p) ==
  /\ agent[p].at = "asleep" /\ now >= agent[p].wake
  /\ agent' = [agent EXCEPT ![p] = IF Variable /\ value = Stopped
                                     THEN [at |-> "paused", wake |-> now + Second]
                                     ELSE [at |-> "publish", wake |-> 0]]
  /\ UNCHANGED <<setup, now, rateVars, limiter, window, stray, starts, metricsVars>>

Resume(p) ==
  /\ agent[p].at = "paused" /\ now >= agent[p].wake
  /\ agent' = [agent EXCEPT ![p] = [at |-> "loop", wake |-> 0]]
  /\ UNCHANGED <<setup, now, rateVars, limiter, window, stray, starts, metricsVars>>

\* handlePublish, up to the first counter of published().
Publish(p) ==
  /\ Move(p, "publish", "total")
  /\ CountEvent("published")
  /\ window' = [window EXCEPT ![p].cost = @ + Price(limiter[p].interval)]
  /\ stray' = [stray EXCEPT ![p] = IF value = Stopped THEN @ + 1 ELSE @]
  /\ UNCHANGED <<setup, now, rateVars, limiter, starts>>

\* The consumer, up to the first counter of received().
Receive(c) ==
  /\ c \in Consumers /\ setup.routed /\ counter["received"] < counter["published"]
  /\ Move(c, "loop", "total")
  /\ CountEvent("received")
  /\ UNCHANGED <<setup, now, rateVars, limiter, window, stray, starts>>

Total(a) ==
  /\ Move(a, "total", "loop")
  /\ CountTotal(IF a \in Producers THEN "published" ELSE "received")
  /\ UNCHANGED <<setup, now, rateVars, limiter, window, stray, starts>>

-----------------------------------------------------------------------------
(***************************************************************************)
(* The metrics.                                                            *)
(***************************************************************************)
MetricsStep ==
  /\ \/ ReportBegin(now, setup.interval) \/ SwapRead \/ SwapSet \/ Report
     \/ now + Lateness >= setup.end /\ Close(now)
     \/ SummaryStart \/ SummaryTotal
  /\ UNCHANGED <<setup, now, rateVars, producerVars, starts>>

Producer(p) ==
  Acquire(p) \/ Wake(p) \/ Resume(p) \/ Publish(p)
    \/ ValueChanged(p) \/ Observe(p)

Agent(a) == Start(a) \/ AllStarted(a) \/ Reset(a) \/ Total(a)

\* What happens after the summary is left out, but for a report under way.
Next ==
  \/ MetricsStep
  \/ /\ summary.at # "printed"
     /\ \/ Tick \/ UpdateValue
        \/ \E p \in Producers : Producer(p)
        \/ \E c \in Consumers : Receive(c)
        \/ \E a \in Agents : Agent(a)

Spec == Init /\ [][Next]_vars

-----------------------------------------------------------------------------
(***************************************************************************)
(* Properties.                                                             *)
(***************************************************************************)

\* The types of the variables.
TypeOK ==
  /\ setup \in Setups /\ now \in Nat
  /\ value \in Nat /\ due \in Nat /\ notify \subseteq Producers
  /\ limiter \in [Producers -> Limiters]
  /\ agent \in [Agents -> [at : {"new", "added", "reset", "received", "time",
                                 "loop", "asleep", "publish", "paused", "total"}, wake : Nat]]
  /\ window \in [Producers -> [start : Nat, credit : {0, Second}, cost : Nat]]

\* The rate is honoured: in any stretch of time a producer publishes as many
\* messages as the interval of its limiter allows, those of one second that was
\* saved up, and two more, the one it was about to publish and the one that only
\* the next one waits for. From the creation of a limiter on nothing is saved up.
\* For an interval that is not of whole microseconds a message only has its price.
RateHonoured ==
  \A p \in Producers :
    LET i == limiter[p].interval IN
    window[p].cost
      <= InParts((now - window[p].start) + window[p].credit) + 2 * i + Lost(i)

\* A producer is not held back: the next permit is there one interval after the
\* last one was granted, debts do not pile up.
PermitInTime ==
  \A p \in Producers :
    InParts(limiter[p].next) <= InParts(Larger(now, agent[p].wake)) + limiter[p].interval

\* The values of the schedule, one for each unit of time.
Expanded ==
  FlattenSeq([i \in DOMAIN Schedule |->
                [d \in 1..Schedule[i].duration |-> Schedule[i].value]])

\* A variable rate is the one the schedule has for this time, in every cycle, and
\* so is each limiter, as soon as the update that is due is done.
OnSchedule ==
  (now < due /\ notify = {}) =>
    /\ value = Expanded[(now % Len(Expanded)) + 1]
    /\ \A p \in setup.producers : value # Stopped => limiter[p].interval = value

\* While the rate is 0 a producer publishes the message it was about to publish,
\* and nothing else.
StopsAtZero == \A p \in Producers : stray[p] <= 1

\* What so many messages in so much time take at a fixed rate.
Plausible(n, elapsed) ==
  n * Price(value)
    <= Cardinality(setup.producers) * (InParts(elapsed + Second) + 2 * value + Lost(value))

\* No report shows more than the limiters let through, although the counters are
\* read while producers count, and some time after the time of the report.
PlausibleReports ==
  Variable \/ Plausible(report.counts["published"], report.elapsed + Lateness)

\* Nor does the summary, although totals and time are reset one after the other,
\* by one or more of the last agents to start, while others publish, and are also
\* read one after the other.
PlausibleSummary ==
  (~Variable /\ summary.at = "printed") =>
    Plausible(summary.counts["published"], summary.elapsed + 2 * Lateness)
=============================================================================
