-------------------------- MODULE CompletionProofs --------------------------
(***************************************************************************)
(* Proofs about Completion, for any number of producers and consumers and  *)
(* any combination of limits.                                              *)
(***************************************************************************)
EXTENDS Completion, FiniteSetTheorems, TLAPS

\* The latch starts with a positive count: the agents are finitely many.
LEMMA LatchCountType ==
  /\ LatchCount \in Nat \ {0}
  /\ LimitedAgents \subseteq Agents /\ IsFiniteSet(LimitedAgents)
  /\ LimitedAgents # {} => LatchCount = Cardinality(LimitedAgents)
<1>1. LimitedAgents \subseteq Agents
  BY LimitsAssumption DEF LimitedAgents, Agents
<1>2. IsFiniteSet(LimitedAgents)
  BY <1>1, AgentsAssumption, FS_Subset
<1>3. LimitedAgents # {} => Cardinality(LimitedAgents) \in Nat \ {0}
  BY <1>2, FS_CardinalityType, FS_EmptySet
<1> QED
  BY <1>1, <1>2, <1>3 DEF LatchCount

\* Sets of agents are finite.
LEMMA AgentSets ==
  ASSUME NEW S, S \subseteq Agents
  PROVE  IsFiniteSet(S) /\ Cardinality(S) \in Nat
BY AgentsAssumption, FS_Subset, FS_CardinalityType

-----------------------------------------------------------------------------
\* Nobody has counted down yet.
LEMMA InitIInv == Init => IInv
<1> SUFFICES ASSUME Init PROVE IInv
  OBVIOUS
<1> USE DEF Init
<1>1. TypeOK
  <2>1. latch \in 0..LatchCount
    BY LatchCountType
  <2>2. agent \in [Agents -> AgentStates] /\ why \in [Agents -> {"none", "limit", "failure"}]
    BY DEF AgentStates
  <2>3. reasons \in [Reasons -> Nat] /\ main \in MainStates
    BY DEF Reasons, MainStates
  <2>4. completed \in BOOLEAN
    OBVIOUS
  <2> QED
    BY <2>1, <2>2, <2>3, <2>4 DEF TypeOK
<1>2. Counted = {} /\ Recorded = {}
  BY DEF Counted, Recorded
<1>3. LatchAccounted /\ ReasonsAccounted
  BY <1>2, FS_EmptySet, LatchCountType DEF LatchAccounted, ReasonsAccounted, Reasons
<1>4. StoppedForAReason /\ WokenByLatch /\ TimeAccounted
  BY DEF StoppedForAReason, WokenByLatch, TimeAccounted, Reasons
<1> QED
  BY <1>1, <1>3, <1>4 DEF IInv

\* Stopping and checking the flag change neither the latch nor the reasons.
LEMMA StopIInv ==
  ASSUME IInv, NEW a \in Agents, NEW r \in {"limit", "failure"},
         Stop(a, r) \/ CheckCompleted(a)
  PROVE  IInv'
<1> USE DEF IInv, Stop, CheckCompleted
<1>1. TypeOK'
  BY DEF TypeOK, AgentStates
<1>2. StoppedForAReason'
  BY DEF StoppedForAReason, TypeOK, LimitedAgents
<1>3. Counted' = Counted /\ Recorded' = Recorded
  BY DEF Counted, Recorded, TypeOK
<1>4. (LatchAccounted /\ ReasonsAccounted)'
  BY <1>3 DEF LatchAccounted, ReasonsAccounted, LatchCount, LimitedAgents
<1>5. (WokenByLatch /\ TimeAccounted)'
  BY DEF WokenByLatch, TimeAccounted
<1> QED
  BY <1>1, <1>2, <1>4, <1>5

\* recordReason: one more reason, one more agent past it.
LEMMA RecordReasonIInv ==
  ASSUME IInv, NEW a \in Agents, RecordReason(a)
  PROVE  IInv'
<1> USE DEF IInv, RecordReason
<1>1. why[a] \in {"limit", "failure"}
  BY DEF StoppedForAReason, TypeOK
<1>2. TypeOK'
  BY <1>1 DEF TypeOK, AgentStates, Reasons
<1>3. StoppedForAReason'
  BY DEF StoppedForAReason, TypeOK, LimitedAgents
<1>4. Counted' = Counted /\ Recorded' = Recorded \cup {a} /\ a \notin Recorded
  BY DEF Counted, Recorded, TypeOK
<1>5. Cardinality(Recorded') = Cardinality(Recorded) + 1 /\ Cardinality(Recorded) \in Nat
  <2>1. IsFiniteSet(Recorded) /\ Cardinality(Recorded) \in Nat
    BY AgentSets DEF Recorded
  <2> QED
    BY <1>4, <2>1, FS_AddElement
<1>6. LatchAccounted'
  BY <1>4 DEF LatchAccounted, LatchCount, LimitedAgents
<1>7. ReasonsAccounted'
  BY <1>1, <1>5 DEF ReasonsAccounted, TypeOK, Reasons
<1>8. (WokenByLatch /\ TimeAccounted)'
  BY <1>1 DEF WokenByLatch, TimeAccounted, TypeOK, Reasons
<1> QED
  BY <1>2, <1>3, <1>6, <1>7, <1>8

\* latch.countDown: one step of the latch, one more agent through.
LEMMA LatchCountDownIInv ==
  ASSUME IInv, NEW a \in Agents, LatchCountDown(a)
  PROVE  IInv'
<1> USE LatchCountType DEF IInv, LatchCountDown
<1>1. TypeOK'
  BY DEF TypeOK, AgentStates
<1>2. StoppedForAReason'
  BY DEF StoppedForAReason, TypeOK
<1>3. Counted' = Counted \cup {a} /\ Recorded' = Recorded /\ a \notin Counted
  BY DEF Counted, Recorded, TypeOK
<1>4. Cardinality(Counted') = Cardinality(Counted) + 1 /\ Cardinality(Counted) \in Nat
  <2>1. IsFiniteSet(Counted) /\ Cardinality(Counted) \in Nat
    BY AgentSets DEF Counted
  <2> QED
    BY <1>3, <2>1, FS_AddElement
<1>5. LatchAccounted'
  BY <1>4 DEF LatchAccounted, TypeOK
<1>6. ReasonsAccounted'
  BY <1>3 DEF ReasonsAccounted
<1>7. (WokenByLatch /\ TimeAccounted)'
  BY DEF WokenByLatch, TimeAccounted, TypeOK
<1> QED
  BY <1>1, <1>2, <1>5, <1>6, <1>7

\* The main thread changes neither the latch nor the agents.
LEMMA MainIInv ==
  ASSUME IInv, Main
  PROVE  IInv'
<1> USE DEF IInv, Main, AwaitCounted, AwaitExpired, SetCompleted, RecordTimeLimit
<1>1. completed' \in BOOLEAN
  BY LimitsAssumption DEF TypeOK, HasLimit
<1>2. TypeOK'
  BY <1>1 DEF TypeOK, MainStates, Reasons
<1>3. StoppedForAReason'
  BY DEF StoppedForAReason
<1>4. Counted' = Counted /\ Recorded' = Recorded
  BY DEF Counted, Recorded
<1>5. LatchAccounted'
  BY <1>4 DEF LatchAccounted
<1>6. ReasonsAccounted'
  BY <1>4 DEF ReasonsAccounted, TypeOK, Reasons
<1>7. (WokenByLatch /\ TimeAccounted)'
  BY DEF WokenByLatch, TimeAccounted, TypeOK, Reasons
<1> QED
  BY <1>2, <1>3, <1>5, <1>6, <1>7

\* A step that changes nothing preserves the invariant.
LEMMA StutterIInv == IInv /\ UNCHANGED vars => IInv'
<1> SUFFICES ASSUME IInv, UNCHANGED vars PROVE IInv'
  OBVIOUS
<1> USE DEF IInv, vars
<1>1. (TypeOK /\ StoppedForAReason)'
  BY DEF TypeOK, StoppedForAReason
<1>2. Counted' = Counted /\ Recorded' = Recorded
  BY DEF Counted, Recorded
<1>3. (LatchAccounted /\ ReasonsAccounted /\ WokenByLatch /\ TimeAccounted)'
  BY <1>2 DEF LatchAccounted, ReasonsAccounted, WokenByLatch, TimeAccounted
<1> QED
  BY <1>1, <1>3

\* Every step preserves the inductive invariant.
LEMMA NextIInv == IInv /\ [Next]_vars => IInv'
<1> SUFFICES ASSUME IInv, [Next]_vars PROVE IInv'
  OBVIOUS
<1>1. ASSUME NEW a \in Agents, NEW r \in {"limit", "failure"}, Stop(a, r) PROVE IInv'
  BY <1>1, StopIInv
<1>2. ASSUME NEW a \in Agents, CountDown(a) PROVE IInv'
  BY <1>2, StopIInv, RecordReasonIInv, LatchCountDownIInv DEF CountDown
<1>3. CASE Main
  BY <1>3, MainIInv
<1>4. CASE UNCHANGED vars
  BY <1>4, StutterIInv
<1> QED
  BY <1>1, <1>2, <1>3, <1>4 DEF Next, Terminated

\* The inductive invariant holds in every reachable state.
THEOREM Invariance == Spec => []IInv
<1> QED
  BY InitIInv, NextIInv, PTL DEF Spec

-----------------------------------------------------------------------------
\* When waitForCompletion returns before the time limit, as many reasons have
\* been recorded as it took to bring the latch down.
THEOREM ReasonsAccountForTheEnd == Spec => []ReasonsComplete
<1>1. IInv => ReasonsComplete
  <2> SUFFICES ASSUME IInv, main \in {"woken", "done"}
               PROVE  reasons["limit"] + reasons["failure"] >= LatchCount
    BY DEF ReasonsComplete
  <2>1. Counted \subseteq Recorded /\ IsFiniteSet(Recorded)
    BY AgentSets DEF Counted, Recorded
  <2>2. /\ Cardinality(Counted) <= Cardinality(Recorded)
        /\ Cardinality(Counted) \in Nat /\ Cardinality(Recorded) \in Nat
    BY <2>1, FS_Subset, FS_CardinalityType
  <2>3. LatchCount <= Cardinality(Counted)
    BY <2>2, LatchCountType DEF IInv, WokenByLatch, LatchAccounted
  <2> QED
    BY <2>2, <2>3, LatchCountType DEF IInv, ReasonsAccounted
<1> QED
  BY <1>1, Invariance, PTL

\* A test that nothing fails in does not end before each agent with a limit
\* has counted down, unless its time is over.
THEOREM NoEarlyEnd == Spec => []NoEarlyCompletion
<1>1. IInv => NoEarlyCompletion
  <2> SUFFICES ASSUME IInv, main \in {"woken", "done"}, LimitedAgents # {},
                      \A a \in Agents : why[a] # "failure"
               PROVE  \A a \in LimitedAgents : agent[a] = "counted"
    BY DEF NoEarlyCompletion
  <2>1. Counted \subseteq LimitedAgents
    BY DEF IInv, StoppedForAReason, TypeOK, Counted
  <2>2. /\ Cardinality(Counted) <= Cardinality(LimitedAgents)
        /\ Cardinality(Counted) = Cardinality(LimitedAgents) => Counted = LimitedAgents
    BY <2>1, LatchCountType, FS_Subset
  <2>3. Cardinality(Counted) \in Nat
    BY AgentSets DEF Counted
  <2>4. Cardinality(LimitedAgents) <= Cardinality(Counted)
    BY <2>3, LatchCountType DEF IInv, WokenByLatch, LatchAccounted
  <2>5. Counted = LimitedAgents
    BY <2>2, <2>3, <2>4, LatchCountType
  <2> QED
    BY <2>5 DEF Counted
<1> QED
  BY <1>1, Invariance, PTL

\* The time limit is reported once if it ended the test, and not otherwise.
THEOREM TimeLimitReportedOnce == Spec => []TimeLimitReported
<1>1. IInv => TimeLimitReported
  BY DEF IInv, TimeAccounted, TimeLimitReported
<1> QED
  BY <1>1, Invariance, PTL

-----------------------------------------------------------------------------
\* Both handlers implement what MulticastSet.run expects of a completion
\* handler: a step of an agent or of the main thread is a step of the promise,
\* or none at all.
THEOREM Refinement == Spec => KeepsPromise
<1>1. Init => Promise!Init
  BY DEF Init, Promise!Init, Outcome
<1>2. IInv /\ [Next]_vars => [Promise!Next]_(Promise!vars)
  <2> SUFFICES ASSUME IInv, [Next]_vars PROVE [Promise!Next]_(Promise!vars)
    OBVIOUS
  <2> USE DEF Promise!Next, Promise!vars, Promise!Notify, Promise!Complete, Promise!Expire
  <2>1. ASSUME NEW a \in Agents, NEW r \in {"limit", "failure"}, Stop(a, r)
        PROVE  UNCHANGED Promise!vars
    BY <2>1 DEF Stop, Outcome
  <2>2. ASSUME NEW a \in Agents, CheckCompleted(a) \/ RecordReason(a)
        PROVE  UNCHANGED Promise!vars
    BY <2>2 DEF CheckCompleted, RecordReason, Outcome
  <2>3. ASSUME NEW a \in Agents, LatchCountDown(a)
        PROVE  Promise!Notify \/ UNCHANGED Promise!vars
    BY <2>3, LatchCountType DEF LatchCountDown, Outcome, IInv, TypeOK
  <2>4. CASE AwaitCounted
    BY <2>4 DEF AwaitCounted, Outcome
  <2>5. CASE AwaitExpired
    BY <2>5 DEF AwaitExpired, Outcome
  <2>6. CASE SetCompleted \/ RecordTimeLimit
    BY <2>6 DEF SetCompleted, RecordTimeLimit, Outcome
  <2>7. CASE UNCHANGED vars
    BY <2>7 DEF vars, Outcome
  <2> QED
    BY <2>1, <2>2, <2>3, <2>4, <2>5, <2>6, <2>7 DEF Next, CountDown, Main, Terminated
<1> QED
  BY <1>1, <1>2, Invariance, PTL DEF Spec, KeepsPromise, Promise!Spec
=============================================================================
