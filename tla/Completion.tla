----------------------------- MODULE Completion -----------------------------
(***************************************************************************)
(* How a test ends: the completion handler getCompletionHandler chooses    *)
(* (DefaultCompletionHandler if there is a limit, NoLimitCompletionHandler *)
(* otherwise), the agents that count it down from their own threads, and   *)
(* the main thread of MulticastSet.run that waits for it.                  *)
(***************************************************************************)
EXTENDS Integers, FiniteSets

CONSTANTS
  Producers,      \* the producer agents (threads)
  Consumers,      \* the consumer agents
  ProducerLimit,  \* --pmessages is set
  ConsumerLimit,  \* --cmessages or --exit-when is set
  TimeLimit       \* --time is set

Agents == Producers \cup Consumers

ASSUME AgentsAssumption == IsFiniteSet(Agents) /\ Producers \cap Consumers = {}
ASSUME LimitsAssumption ==
  ProducerLimit \in BOOLEAN /\ ConsumerLimit \in BOOLEAN /\ TimeLimit \in BOOLEAN

\* MulticastParams.hasLimit
HasLimit == TimeLimit \/ ConsumerLimit \/ ProducerLimit

\* The agents that notify the handler when they are done.
LimitedAgents ==
  (IF ProducerLimit THEN Producers ELSE {}) \cup (IF ConsumerLimit THEN Consumers ELSE {})

\* Mutant: the first agent that is done counts.
LatchCountOne == 1

\* The count of the latch: the count limit, and at least 1, for either handler.
LatchCount == IF LimitedAgents = {} THEN 1 ELSE Cardinality(LimitedAgents)

VARIABLES
  agent,      \* where each agent is in countDown
  why,        \* the reason it counts down for
  latch,      \* the count of the latch
  completed,  \* the flag of DefaultCompletionHandler
  reasons,    \* how often each reason was recorded
  main        \* where the main thread is in waitForCompletion

vars == <<agent, why, latch, completed, reasons, main>>

AgentStates == {"running", "checking", "recording", "latching", "counted", "ignored"}
MainStates == {"waiting", "woken", "expired", "recording", "done", "timed_out"}
Reasons == {"limit", "failure", "time"}

Init ==
  /\ agent = [a \in Agents |-> "running"]
  /\ why = [a \in Agents |-> "none"]
  /\ latch = LatchCount /\ completed = FALSE
  /\ reasons = [r \in Reasons |-> 0]
  /\ main = "waiting"

-----------------------------------------------------------------------------
\* An agent stops for a reason: its own completed flag lets it through once.
Stop(a, r) ==
  /\ agent[a] = "running"
  /\ r = "limit" => a \in LimitedAgents
  /\ agent' = [agent EXCEPT ![a] = "checking"]
  /\ why' = [why EXCEPT ![a] = r]
  /\ UNCHANGED <<latch, completed, reasons, main>>

\* countDown: the default handler is deaf once it is completed.
CheckCompleted(a) ==
  /\ agent[a] = "checking"
  /\ agent' = [agent EXCEPT ![a] = IF HasLimit /\ completed THEN "ignored" ELSE "recording"]
  /\ UNCHANGED <<why, latch, completed, reasons, main>>

\* Mutant: the latch goes down before the reason is recorded.
LatchThenRecord(a) ==
  /\ agent[a] = "recording"
  /\ agent' = [agent EXCEPT ![a] = "latching"]
  /\ latch' = IF latch > 0 THEN latch - 1 ELSE 0
  /\ UNCHANGED <<why, completed, reasons, main>>

RecordReason(a) ==
  /\ agent[a] = "recording"
  /\ agent' = [agent EXCEPT ![a] = "latching"]
  /\ reasons' = [reasons EXCEPT ![why[a]] = @ + 1]
  /\ UNCHANGED <<why, latch, completed, main>>

LatchCountDown(a) ==
  /\ agent[a] = "latching"
  /\ agent' = [agent EXCEPT ![a] = "counted"]
  /\ latch' = IF latch > 0 THEN latch - 1 ELSE 0
  /\ UNCHANGED <<why, completed, reasons, main>>

-----------------------------------------------------------------------------
\* waitForCompletion: the latch is down...
AwaitCounted ==
  /\ main = "waiting" /\ latch = 0
  /\ main' = "woken"
  /\ UNCHANGED <<agent, why, latch, completed, reasons>>

\* Mutant: the time limit ends a wait that has no time limit.
AwaitExpiredAnyway ==
  /\ main = "waiting"
  /\ main' = "expired"
  /\ UNCHANGED <<agent, why, latch, completed, reasons>>

\* ... or the time limit is over before it is.
AwaitExpired ==
  /\ main = "waiting" /\ TimeLimit /\ latch > 0
  /\ main' = "expired"
  /\ UNCHANGED <<agent, why, latch, completed, reasons>>

\* The default handler sets its flag in both cases, NoLimit has none.
SetCompleted ==
  /\ main \in {"woken", "expired"}
  /\ main' = IF main = "woken" THEN "done" ELSE "recording"
  /\ completed' = HasLimit
  /\ UNCHANGED <<agent, why, latch, reasons>>

\* Mutant: the end of the time goes unreported.
TimeLimitUnreported ==
  /\ main = "recording"
  /\ main' = "timed_out"
  /\ UNCHANGED <<agent, why, latch, completed, reasons>>

RecordTimeLimit ==
  /\ main = "recording"
  /\ main' = "timed_out"
  /\ reasons' = [reasons EXCEPT !["time"] = @ + 1]
  /\ UNCHANGED <<agent, why, latch, completed>>

\* The test is over: run() goes on with the shutdown.
Over == main \in {"done", "timed_out"}

Terminated == Over /\ UNCHANGED vars

CountDown(a) == CheckCompleted(a) \/ RecordReason(a) \/ LatchCountDown(a)
Main == AwaitCounted \/ AwaitExpired \/ SetCompleted \/ RecordTimeLimit

Next ==
  \/ \E a \in Agents : CountDown(a) \/ \E r \in {"limit", "failure"} : Stop(a, r)
  \/ Main \/ Terminated

Spec == Init /\ [][Next]_vars

-----------------------------------------------------------------------------
(***************************************************************************)
(* Properties.                                                             *)
(***************************************************************************)

\* The types of the variables.
TypeOK ==
  /\ agent \in [Agents -> AgentStates]
  /\ why \in [Agents -> {"none", "limit", "failure"}]
  /\ latch \in 0..LatchCount /\ completed \in BOOLEAN
  /\ reasons \in [Reasons -> Nat] /\ main \in MainStates

\* The test does not end before its limits are reached: unless the time limit
\* expired or some agent failed, every agent with a limit has counted down when
\* waitForCompletion returns.
NoEarlyCompletion ==
  (main \in {"woken", "done"} /\ LimitedAgents # {} /\ \A a \in Agents : why[a] # "failure")
    => \A a \in LimitedAgents : agent[a] = "counted"

\* The reasons PerfTest reports account for the end of the test: at least as
\* many were recorded as it took to bring the latch down.
ReasonsComplete ==
  main \in {"woken", "done"} => reasons["limit"] + reasons["failure"] >= LatchCount

\* The time limit is among the reasons only if the latch was not down in time,
\* and then it is recorded once.
TimeLimitReported ==
  /\ main = "timed_out" => reasons["time"] = 1
  /\ main \in {"woken", "done"} => reasons["time"] = 0

(***************************************************************************)
(* The inductive invariant: every step of the latch is an agent that got   *)
(* through countDown, every reason an agent that got past recordReason.    *)
(***************************************************************************)
Counted == {a \in Agents : agent[a] = "counted"}
Recorded == {a \in Agents : agent[a] \in {"latching", "counted"}}

StoppedForAReason ==
  \A a \in Agents : /\ agent[a] = "running" <=> why[a] = "none"
                    /\ why[a] = "limit" => a \in LimitedAgents

LatchAccounted == LatchCount - latch <= Cardinality(Counted)
ReasonsAccounted == reasons["limit"] + reasons["failure"] = Cardinality(Recorded)
WokenByLatch == main \in {"woken", "done"} => latch = 0
TimeAccounted == reasons["time"] = IF main = "timed_out" THEN 1 ELSE 0

IInv ==
  /\ TypeOK /\ StoppedForAReason /\ LatchAccounted /\ ReasonsAccounted
  /\ WokenByLatch /\ TimeAccounted

\* The handler keeps the promise of CompletionPromise.
Outcome ==
  CASE main = "waiting" -> "running"
    [] main \in {"woken", "done"} -> "counted"
    [] OTHER -> "expired"

Promise ==
  INSTANCE CompletionPromise WITH
    Notifications <- LatchCount, TimeLimit <- TimeLimit, remaining <- latch, outcome <- Outcome

KeepsPromise == Promise!Spec
=============================================================================
