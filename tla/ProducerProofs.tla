--------------------------- MODULE ProducerProofs ---------------------------
(***************************************************************************)
(* Proofs about Producer, for every value of its constants: the types, the *)
(* accounting of the confirm pool without connection recovery, that a      *)
(* recovery loses no permit of it, the message limit and the transactions. *)
(***************************************************************************)
EXTENDS Producer, Remainders, FiniteSetTheorems, TLAPS

\* The confirms of a callback are finitely many, so that they are at most as
\* many as the messages of the set they come from.
LEMMA ConfirmedFinite ==
  ASSUME NEW S, IsFiniteSet(S), NEW seqNo, NEW multiple
  PROVE  /\ IsFiniteSet(Confirmed(S, seqNo, multiple))
         /\ Confirmed(S, seqNo, multiple) \subseteq S
         /\ Cardinality(Confirmed(S, seqNo, multiple)) \in Nat
<1>1. Confirmed(S, seqNo, multiple) \subseteq S
  BY DEF Confirmed
<1>2. IsFiniteSet(Confirmed(S, seqNo, multiple))
  BY <1>1, FS_Subset
<1> QED
  BY <1>1, <1>2, FS_CardinalityType

\* Confirms take exactly their number of messages out of the set.
LEMMA ConfirmedCount ==
  ASSUME NEW S, IsFiniteSet(S), NEW seqNo, NEW multiple
  PROVE  /\ IsFiniteSet(S \ Confirmed(S, seqNo, multiple))
         /\ Cardinality(S \ Confirmed(S, seqNo, multiple))
              = Cardinality(S) - Cardinality(Confirmed(S, seqNo, multiple))
<1> DEFINE C == Confirmed(S, seqNo, multiple)
<1>1. IsFiniteSet(C) /\ C \subseteq S
  BY ConfirmedFinite
<1>2. S \cap C = C
  BY <1>1
<1>3. IsFiniteSet(S \ C) /\ Cardinality(S \ C) = Cardinality(S) - Cardinality(S \cap C)
  BY <1>1, FS_Difference
<1> QED
  BY <1>2, <1>3

\* A single confirm of a message of the set is one confirm.
LEMMA ConfirmedSingle ==
  ASSUME NEW S, NEW seqNo \in S
  PROVE  Cardinality(Confirmed(S, seqNo, FALSE)) = 1
<1>1. Confirmed(S, seqNo, FALSE) = {seqNo}
  BY DEF Confirmed
<1> QED
  BY <1>1, FS_Singleton

\* The messages in flight, and those of them that are tracked, are counted by
\* natural numbers.
LEMMA TrackedInFlight ==
  ASSUME NEW S, IsFiniteSet(S), NEW T
  PROVE  /\ Cardinality(S) \in Nat
         /\ IsFiniteSet(S \cap T) /\ Cardinality(S \cap T) \in Nat
<1>1. IsFiniteSet(S \cap T)
  BY FS_Subset
<1> QED
  BY <1>1, FS_CardinalityType

\* A smaller finite set has a smaller cardinality.
LEMMA CardinalityMonotone ==
  ASSUME NEW T, IsFiniteSet(T), NEW S, S \subseteq T
  PROVE  /\ IsFiniteSet(S) /\ Cardinality(S) \in Nat /\ Cardinality(T) \in Nat
         /\ Cardinality(S) <= Cardinality(T)
BY FS_Subset, FS_CardinalityType

\* Two finite sets that cover a set have at least as many elements.
LEMMA CoveredCount ==
  ASSUME NEW S, NEW T, IsFiniteSet(S), IsFiniteSet(T), NEW R, R \subseteq S \cup T
  PROVE  Cardinality(R) <= Cardinality(S) + Cardinality(T)
<1>1. /\ IsFiniteSet(S \cup T)
      /\ Cardinality(S \cup T) = Cardinality(S) + Cardinality(T) - Cardinality(S \cap T)
  BY FS_Union
<1>2. /\ Cardinality(S) \in Nat /\ Cardinality(T) \in Nat
      /\ Cardinality(S \cap T) \in Nat
  BY TrackedInFlight
<1>3. Cardinality(R) \in Nat /\ Cardinality(R) <= Cardinality(S \cup T)
  BY <1>1, CardinalityMonotone
<1> QED
  BY <1>1, <1>2, <1>3

-----------------------------------------------------------------------------
\* The initial state satisfies the inductive invariant: the pool is full.
LEMMA InitIInv == Init => IInv
<1> SUFFICES ASSUME Init PROVE IInv
  OBVIOUS
<1>1. FlagsOK
  BY DEF Init, FlagsOK
<1>2. TypeOK
  BY <1>1, ConfirmAssumption, ModeAssumption DEF Init, TypeOK, PCs, Reasons, Tracks
<1>3. /\ IsFiniteSet(inflight) /\ IsFiniteSet(unconfirmed)
      /\ Cardinality(inflight) = 0 /\ inflight \cap unconfirmed = inflight
  BY FS_EmptySet DEF Init
<1>4. FinitelyMany /\ InFlightOnOpenChannel /\ RecoversWhenDown /\ TrackedExactly
  BY <1>3 DEF Init, FinitelyMany, InFlightOnOpenChannel, RecoversWhenDown, TrackedExactly
<1>5. PermitsAccounted /\ TrackedPermits
  BY <1>3, ConfirmAssumption
  DEF Init, PermitsAccounted, PermitTotal, Held, Tracks, TrackedPermits, TrackedTotal, TrackedHeld
<1> QED
  BY <1>2, <1>4, <1>5 DEF IInv

-----------------------------------------------------------------------------
(***************************************************************************)
(* Most steps of the producer thread only move it, outside of the part of  *)
(* handlePublish that owns a permit: for the pool they are stutterings.    *)
(***************************************************************************)
ThreadMoves ==
  /\ UNCHANGED <<poolVars, recoveryVars, channelVars>>
  /\ pc' \in PCs /\ reason' \in Reasons
  /\ interrupted' \in BOOLEAN /\ cancelled' \in BOOLEAN
  /\ msgCount' \in Nat /\ published' \in Nat
  /\ (pc' = "put") <=> (pc = "put")
  /\ (pc' = "send") <=> (pc = "send")

\* Such a step preserves the inductive invariant.
LEMMA ThreadMovesIInv == IInv /\ ThreadMoves => IInv'
<1> SUFFICES ASSUME IInv, ThreadMoves PROVE IInv'
  OBVIOUS
<1> USE DEF IInv, ThreadMoves, poolVars, recoveryVars, channelVars
<1>1. FlagsOK'
  BY DEF TypeOK, FlagsOK
<1>2. TypeOK'
  BY <1>1 DEF TypeOK
<1>3. (FinitelyMany /\ InFlightOnOpenChannel /\ RecoversWhenDown)'
  BY DEF FinitelyMany, InFlightOnOpenChannel, RecoversWhenDown
<1>4. TrackedExactly'
  BY DEF TrackedExactly
<1>5. PermitsAccounted'
  BY DEF PermitsAccounted, PermitTotal, Held
<1>6. TrackedPermits'
  BY DEF TrackedPermits, TrackedTotal, TrackedHeld
<1> QED
  BY <1>2, <1>3, <1>4, <1>5, <1>6

\* The moves of the producer thread, and the shutdown's cancel.
Moves ==
  \/ StartDelayOver \/ StartDelayInterrupted \/ Tick \/ KeepGoing
  \/ ReachLimit \/ StopInterrupted \/ PauseOver \/ PauseInterrupted
  \/ PassGate \/ SleepWhileRecovering \/ AcquireTimeout \/ AcquireInterrupted
  \/ CountMessage \/ TxCommit \/ TxCommitLost \/ TxCommitError \/ ResetStats \/ DrainOver
  \/ DrainTimeout \/ DrainInterrupted \/ Cancel

\* Each of them is a ThreadMoves step.
LEMMA MovesAreThreadMoves == IInv /\ Moves => ThreadMoves
<1> SUFFICES ASSUME IInv, Moves PROVE ThreadMoves
  OBVIOUS
<1>0. TypeOK /\ FlagsOK
  BY DEF IInv, TypeOK
<1>1. CASE StartDelayOver
  <2>1. interrupted' \in BOOLEAN /\ cancelled' \in BOOLEAN
    BY <1>0, <1>1 DEF FlagsOK, StartDelayOver
  <2> QED
    BY <1>0, <1>1, <2>1, ModeAssumption DEF TypeOK, PCs, Reasons, ThreadMoves, StartDelayOver, GoTo
<1>2. CASE StartDelayInterrupted
  <2>1. interrupted' \in BOOLEAN /\ cancelled' \in BOOLEAN
    BY <1>0, <1>2 DEF FlagsOK, StartDelayInterrupted
  <2> QED
    BY <1>0, <1>2, <2>1, ModeAssumption
    DEF TypeOK, PCs, Reasons, ThreadMoves, StartDelayInterrupted, GoTo
<1>3. CASE Tick
  <2>1. interrupted' \in BOOLEAN /\ cancelled' \in BOOLEAN
    BY <1>0, <1>3 DEF FlagsOK, Tick
  <2> QED
    BY <1>0, <1>3, <2>1, ModeAssumption DEF TypeOK, PCs, Reasons, ThreadMoves, Tick, GoTo
<1>4. CASE KeepGoing
  <2>1. interrupted' \in BOOLEAN /\ cancelled' \in BOOLEAN
    BY <1>0, <1>4 DEF FlagsOK, KeepGoing
  <2> QED
    BY <1>0, <1>4, <2>1, ModeAssumption DEF TypeOK, PCs, Reasons, ThreadMoves, KeepGoing
<1>5. CASE ReachLimit
  <2>1. interrupted' \in BOOLEAN /\ cancelled' \in BOOLEAN
    BY <1>0, <1>5 DEF FlagsOK, ReachLimit
  <2> QED
    BY <1>0, <1>5, <2>1, ModeAssumption DEF TypeOK, PCs, Reasons, ThreadMoves, ReachLimit, GoTo
<1>6. CASE StopInterrupted
  <2>1. interrupted' \in BOOLEAN /\ cancelled' \in BOOLEAN
    BY <1>0, <1>6 DEF FlagsOK, StopInterrupted
  <2> QED
    BY <1>0, <1>6, <2>1, ModeAssumption
    DEF TypeOK, PCs, Reasons, ThreadMoves, StopInterrupted, CountDown
<1>7. CASE PauseOver
  <2>1. interrupted' \in BOOLEAN /\ cancelled' \in BOOLEAN
    BY <1>0, <1>7 DEF FlagsOK, PauseOver
  <2> QED
    BY <1>0, <1>7, <2>1, ModeAssumption DEF TypeOK, PCs, Reasons, ThreadMoves, PauseOver, GoTo
<1>8. CASE PauseInterrupted
  <2>1. interrupted' \in BOOLEAN /\ cancelled' \in BOOLEAN
    BY <1>0, <1>8 DEF FlagsOK, PauseInterrupted
  <2> QED
    BY <1>0, <1>8, <2>1, ModeAssumption
    DEF TypeOK, PCs, Reasons, ThreadMoves, PauseInterrupted, Fail, GoTo, CountDown
<1>9. CASE PassGate
  <2>1. interrupted' \in BOOLEAN /\ cancelled' \in BOOLEAN
    BY <1>0, <1>9 DEF FlagsOK, PassGate
  <2> QED
    BY <1>0, <1>9, <2>1, ModeAssumption DEF TypeOK, PCs, Reasons, ThreadMoves, PassGate, GoTo
<1>10. CASE SleepWhileRecovering
  <2>1. interrupted' \in BOOLEAN /\ cancelled' \in BOOLEAN
    BY <1>0, <1>10 DEF FlagsOK, SleepWhileRecovering
  <2> QED
    BY <1>0, <1>10, <2>1, ModeAssumption
    DEF TypeOK, PCs, Reasons, ThreadMoves, SleepWhileRecovering, GoTo, AfterIteration
<1>11. CASE AcquireTimeout
  <2>1. interrupted' \in BOOLEAN /\ cancelled' \in BOOLEAN
    BY <1>0, <1>11 DEF FlagsOK, AcquireTimeout
  <2> QED
    BY <1>0, <1>11, <2>1, ModeAssumption
    DEF TypeOK, PCs, Reasons, ThreadMoves, AcquireTimeout, Fail, GoTo, CountDown
<1>12. CASE AcquireInterrupted
  <2>1. interrupted' \in BOOLEAN /\ cancelled' \in BOOLEAN
    BY <1>0, <1>12 DEF FlagsOK, AcquireInterrupted
  <2> QED
    BY <1>0, <1>12, <2>1, ModeAssumption
    DEF TypeOK, PCs, Reasons, ThreadMoves, AcquireInterrupted, Fail, GoTo, CountDown
<1>13. CASE CountMessage
  <2>1. interrupted' \in BOOLEAN /\ cancelled' \in BOOLEAN
    BY <1>0, <1>13 DEF FlagsOK, CountMessage
  <2> QED
    BY <1>0, <1>13, <2>1, ModeAssumption
    DEF TypeOK, PCs, Reasons, ThreadMoves, CountMessage, AfterIteration
<1>14. CASE TxCommitError
  <2>1. interrupted' \in BOOLEAN /\ cancelled' \in BOOLEAN
    BY <1>0, <1>14 DEF FlagsOK, TxCommitError
  <2> QED
    BY <1>0, <1>14, <2>1, ModeAssumption
    DEF TypeOK, PCs, Reasons, ThreadMoves, TxCommitError, Fail, GoTo, CountDown
<1>15. CASE ResetStats
  <2>1. interrupted' \in BOOLEAN /\ cancelled' \in BOOLEAN
    BY <1>0, <1>15 DEF FlagsOK, ResetStats
  <2> QED
    BY <1>0, <1>15, <2>1, ModeAssumption DEF TypeOK, PCs, Reasons, ThreadMoves, ResetStats, GoTo
<1>16. CASE DrainOver
  <2>1. interrupted' \in BOOLEAN /\ cancelled' \in BOOLEAN
    BY <1>0, <1>16 DEF FlagsOK, DrainOver, CountDownLimit
  <2> QED
    BY <1>0, <1>16, <2>1, ModeAssumption
    DEF TypeOK, PCs, Reasons, ThreadMoves, DrainOver, CountDownLimit, GoTo, CountDown
<1>17. CASE DrainTimeout
  <2>1. interrupted' \in BOOLEAN /\ cancelled' \in BOOLEAN
    BY <1>0, <1>17 DEF FlagsOK, DrainTimeout, CountDownLimit
  <2> QED
    BY <1>0, <1>17, <2>1, ModeAssumption
    DEF TypeOK, PCs, Reasons, ThreadMoves, DrainTimeout, CountDownLimit, GoTo, CountDown
<1>18. CASE DrainInterrupted
  <2>1. interrupted' \in BOOLEAN /\ cancelled' \in BOOLEAN
    BY <1>0, <1>18 DEF FlagsOK, DrainInterrupted, CountDownLimit
  <2> QED
    BY <1>0, <1>18, <2>1, ModeAssumption
    DEF TypeOK, PCs, Reasons, ThreadMoves, DrainInterrupted, CountDownLimit, GoTo, CountDown
<1>19. CASE Cancel
  <2>1. interrupted' \in BOOLEAN /\ cancelled' \in BOOLEAN
    BY <1>0, <1>19 DEF FlagsOK, Cancel
  <2> QED
    BY <1>0, <1>19, <2>1, ModeAssumption DEF TypeOK, PCs, Reasons, ThreadMoves, Cancel
<1>20. CASE TxCommit
  <2>1. interrupted' \in BOOLEAN /\ cancelled' \in BOOLEAN
    BY <1>0, <1>20 DEF FlagsOK, TxCommit
  <2> QED
    BY <1>0, <1>20, <2>1, ModeAssumption DEF TypeOK, PCs, Reasons, ThreadMoves, TxCommit, GoTo
<1>21. CASE TxCommitLost
  <2>1. interrupted' \in BOOLEAN /\ cancelled' \in BOOLEAN
    BY <1>0, <1>21 DEF FlagsOK, TxCommitLost
  <2> QED
    BY <1>0, <1>21, <2>1, ModeAssumption
    DEF TypeOK, PCs, Reasons, ThreadMoves, TxCommitLost, GoTo, AfterIteration
<1> QED
  BY <1>1, <1>2, <1>3, <1>4, <1>5, <1>6, <1>7, <1>8, <1>9, <1>10, <1>11, <1>12, <1>13, <1>14,
     <1>15, <1>16, <1>17, <1>18, <1>19, <1>20, <1>21
  DEF Moves

-----------------------------------------------------------------------------
(***************************************************************************)
(* The steps of handlePublish that own a permit.                           *)
(***************************************************************************)
\* The permit goes from the pool to the thread.
LEMMA AcquireIInv == IInv /\ Acquire => IInv'
<1> SUFFICES ASSUME IInv, Acquire PROVE IInv'
  OBVIOUS
<1> USE ConfirmAssumption DEF IInv, Acquire, GoTo, recoveryVars, channelVars
<1>1. FlagsOK'
  BY DEF TypeOK, FlagsOK
<1>2. TypeOK'
  BY <1>1 DEF TypeOK, PCs, Tracks
<1>3. (FinitelyMany /\ InFlightOnOpenChannel /\ RecoversWhenDown /\ TrackedExactly)'
  BY DEF FinitelyMany, InFlightOnOpenChannel, RecoversWhenDown, TrackedExactly
<1>4. Cardinality(inflight) \in Nat /\ Cardinality(inflight \cap unconfirmed) \in Nat
  BY TrackedInFlight DEF FinitelyMany
<1>5. PermitsAccounted'
  BY <1>4 DEF PermitsAccounted, PermitTotal, Held, Tracks, TypeOK
<1>6. TrackedPermits'
  BY <1>4 DEF TrackedPermits, TrackedTotal, TrackedHeld, Tracks, TypeOK
<1> QED
  BY <1>2, <1>3, <1>5, <1>6

\* The number the message is tracked under is not in flight yet.
LEMMA TrackUnconfirmedIInv == IInv /\ TrackUnconfirmed => IInv'
<1> SUFFICES ASSUME IInv, TrackUnconfirmed PROVE IInv'
  OBVIOUS
<1> USE DEF IInv, TrackUnconfirmed, GoTo, recoveryVars, channelVars
<1>1. FlagsOK'
  BY DEF TypeOK, FlagsOK
<1>2. TypeOK'
  BY <1>1 DEF TypeOK, PCs
<1>3. IsFiniteSet(unconfirmed \cup {nextPublishSeqNo})
  BY FS_AddElement DEF FinitelyMany
<1>4. FinitelyMany'
  BY <1>3 DEF FinitelyMany
<1>5. (InFlightOnOpenChannel /\ RecoversWhenDown /\ TrackedExactly)'
  BY DEF InFlightOnOpenChannel, RecoversWhenDown, TrackedExactly
<1>6. PermitsAccounted'
  BY DEF PermitsAccounted, PermitTotal, Held, Tracks
<1>7. Cardinality(inflight \cap unconfirmed) <= Cardinality(inflight \cap unconfirmed')
  BY CardinalityMonotone, TrackedInFlight DEF FinitelyMany
<1>8. /\ Cardinality(inflight \cap unconfirmed) \in Nat
      /\ Cardinality(inflight \cap unconfirmed') \in Nat
  BY TrackedInFlight DEF FinitelyMany
<1>9. TrackedPermits'
  BY <1>7, <1>8, ConfirmAssumption DEF TrackedPermits, TrackedTotal, TrackedHeld, Tracks, TypeOK
<1> QED
  BY <1>2, <1>4, <1>5, <1>6, <1>9

\* The permit goes from the thread to the message in flight.
LEMMA BasicPublishIInv == IInv /\ BasicPublish => IInv'
<1> SUFFICES ASSUME IInv, BasicPublish PROVE IInv'
  OBVIOUS
<1> USE ConfirmAssumption DEF IInv, BasicPublish, GoTo, recoveryVars, poolVars
<1>1. FlagsOK'
  BY DEF TypeOK, FlagsOK
<1>2. TypeOK'
  BY <1>1 DEF TypeOK, PCs
<1>3. IsFiniteSet(inflight \cup {nextPublishSeqNo}) /\ Cardinality(inflight) \in Nat
  BY FS_AddElement, FS_CardinalityType DEF FinitelyMany
<1>4. (FinitelyMany /\ RecoversWhenDown)'
  BY <1>3 DEF FinitelyMany, RecoversWhenDown
<1>5. InFlightOnOpenChannel'
  BY DEF InFlightOnOpenChannel, TypeOK
<1>6. TrackedExactly'
  BY DEF TrackedExactly, TypeOK, Tracks
<1>7. nextPublishSeqNo \notin inflight /\ (Tracks => inflight' = inflight \cup {nextPublishSeqNo})
  BY DEF InFlightOnOpenChannel, TypeOK, Tracks
<1>8. Tracks => Cardinality(inflight') = Cardinality(inflight) + 1
  BY <1>7, FS_AddElement DEF FinitelyMany
<1>9. PermitsAccounted'
  BY <1>3, <1>8 DEF PermitsAccounted, PermitTotal, Held, Tracks, TypeOK
<1>10. TrackedPermits'
  <2> DEFINE T == inflight \cap unconfirmed
  <2> SUFFICES ASSUME Tracks, rpc # "recover" PROVE TrackedTotal' >= Confirm
    BY DEF TrackedPermits, Tracks
  <2>1. IsFiniteSet(T) /\ Cardinality(T) \in Nat /\ TrackedTotal >= Confirm
    BY TrackedInFlight DEF FinitelyMany, TrackedPermits
  <2>2. CASE nextPublishSeqNo \in unconfirmed
    <3>1. (inflight \cap unconfirmed)' = T \cup {nextPublishSeqNo} /\ nextPublishSeqNo \notin T
      BY <1>7, <2>2
    <3>2. Cardinality((inflight \cap unconfirmed)') = Cardinality(T) + 1
      BY <2>1, <3>1, FS_AddElement
    <3> QED
      BY <2>1, <2>2, <3>2 DEF TrackedTotal, TrackedHeld, TypeOK
  <2>3. CASE nextPublishSeqNo \notin unconfirmed
    <3>1. (inflight \cap unconfirmed)' = T
      BY <1>7, <2>3
    <3> QED
      BY <2>1, <2>3, <3>1 DEF TrackedTotal, TrackedHeld, TypeOK
  <2> QED
    BY <2>2, <2>3
<1> QED
  BY <1>2, <1>4, <1>5, <1>6, <1>9, <1>10

\* A write fails only with the channel closed.
LEMMA WriteErrorIInv == IInv /\ (PublishLost \/ PublishError) => IInv'
<1> SUFFICES ASSUME IInv, PublishLost \/ PublishError PROVE IInv'
  OBVIOUS
<1> USE DEF IInv, PublishLost, PublishError, Fail, CountDown, GoTo, recoveryVars, poolVars
<1>1. FlagsOK'
  BY DEF TypeOK, FlagsOK
<1>2. TypeOK'
  <2>1. CASE PublishLost
    BY <1>1, <2>1 DEF TypeOK, PCs
  <2>2. CASE PublishError
    BY <1>1, <2>2 DEF TypeOK, PCs, Reasons
  <2> QED
    BY <2>1, <2>2
<1>3. (FinitelyMany /\ RecoversWhenDown)'
  BY DEF FinitelyMany, RecoversWhenDown
<1>4. (InFlightOnOpenChannel /\ TrackedExactly /\ PermitsAccounted /\ TrackedPermits)'
  BY DEF InFlightOnOpenChannel, TrackedExactly, PermitsAccounted, TrackedPermits
<1> QED
  BY <1>2, <1>3, <1>4

\* A commit leaves the pool alone.
LEMMA TxCommitIInv == IInv /\ TxCommitOk => IInv'
<1> SUFFICES ASSUME IInv, TxCommitOk PROVE IInv'
  OBVIOUS
<1> USE ModeAssumption DEF IInv, TxCommitOk, GoTo, AfterIteration, recoveryVars, poolVars
<1>1. FlagsOK'
  BY DEF TypeOK, FlagsOK
<1>2. TypeOK'
  BY <1>1 DEF TypeOK, PCs
<1>3. (FinitelyMany /\ InFlightOnOpenChannel /\ RecoversWhenDown)'
  BY DEF FinitelyMany, InFlightOnOpenChannel, RecoversWhenDown
<1>4. TrackedExactly'
  BY DEF TrackedExactly
<1>5. PermitsAccounted'
  BY DEF PermitsAccounted, PermitTotal, Held
<1>6. TrackedPermits'
  BY DEF TrackedPermits, TrackedTotal, TrackedHeld
<1> QED
  BY <1>2, <1>3, <1>4, <1>5, <1>6

-----------------------------------------------------------------------------
(***************************************************************************)
(* The confirm callback. The map and the messages in flight agree on every *)
(* number up to the confirmed one, so the callback counts exactly the      *)
(* messages the broker confirms.                                           *)
(***************************************************************************)
LEMMA HandleAckNackIInv ==
  ASSUME IInv, NEW seqNo \in inflight, NEW multiple \in BOOLEAN,
         HandleAckNack(seqNo, multiple)
  PROVE  IInv'
<1> DEFINE C == Confirmed(inflight, seqNo, multiple)
           D == Confirmed(unconfirmed, seqNo, multiple)
<1> USE ConfirmAssumption DEF IInv, HandleAckNack, threadVars, recoveryVars
<1>1. FlagsOK'
  BY DEF TypeOK, FlagsOK
<1>2. /\ IsFiniteSet(inflight \ C) /\ IsFiniteSet(unconfirmed \ D)
      /\ Cardinality(inflight \ C) = Cardinality(inflight) - Cardinality(C)
      /\ Cardinality(inflight) \in Nat /\ Cardinality(C) \in Nat
  BY ConfirmedCount, ConfirmedFinite, FS_CardinalityType DEF FinitelyMany
<1>3. NumConfirms(seqNo, multiple) \in Nat
  BY ConfirmedFinite DEF FinitelyMany, NumConfirms
<1>4. releasing' \in Nat
  BY <1>3
<1>5. TypeOK'
  BY <1>1, <1>4 DEF TypeOK
<1>6. (FinitelyMany /\ InFlightOnOpenChannel /\ RecoversWhenDown)'
  BY <1>2 DEF FinitelyMany, InFlightOnOpenChannel, RecoversWhenDown
<1>7. seqNo \in Nat /\ nextPublishSeqNo \in Nat /\ seqNo < nextPublishSeqNo
  BY DEF InFlightOnOpenChannel, TypeOK
<1>8. nextPublishSeqNo \notin C /\ nextPublishSeqNo \notin D
  BY <1>7 DEF Confirmed
<1>9. ASSUME Tracks, ~RecoveryEnabled PROVE D = C
  BY <1>7, <1>9 DEF TrackedExactly, Confirmed
<1>10. TrackedExactly'
  <2> SUFFICES ASSUME Tracks, ~RecoveryEnabled
               PROVE  unconfirmed'
                        = inflight' \cup (IF pc' = "send" THEN {nextPublishSeqNo'} ELSE {})
    BY DEF TrackedExactly, Tracks
  <2> QED
    BY <1>8, <1>9 DEF TrackedExactly
<1>11. Tracks => releasing' = IF multiple THEN Cardinality(D) ELSE 1
  BY DEF NumConfirms, Confirmed
<1>12. ~multiple => Cardinality(C) = 1
  BY ConfirmedSingle
<1>13. PermitsAccounted'
  BY <1>2, <1>9, <1>11, <1>12 DEF PermitsAccounted, PermitTotal, Held, Tracks, TypeOK
<1>14. TrackedPermits'
  <2> DEFINE T == inflight \cap unconfirmed
             U == inflight' \cap unconfirmed'
  <2> SUFFICES ASSUME Tracks, rpc # "recover" PROVE TrackedTotal' >= Confirm
    BY DEF TrackedPermits, Tracks
  <2>1. /\ IsFiniteSet(T) /\ Cardinality(T) \in Nat /\ TrackedTotal >= Confirm
        /\ IsFiniteSet(U) /\ Cardinality(U) \in Nat
    BY <1>6, TrackedInFlight DEF FinitelyMany, TrackedPermits
  <2>2. IsFiniteSet(D) /\ Cardinality(D) \in Nat
    BY ConfirmedFinite DEF FinitelyMany
  <2>3. T \subseteq U \cup D
    BY DEF Confirmed
  <2>4. Cardinality(T) <= Cardinality(U) + Cardinality(D)
    BY <2>1, <2>2, <2>3, CoveredCount
  <2>5. TrackedHeld' = TrackedHeld
    BY <1>8 DEF TrackedHeld
  <2>6. ASSUME ~multiple PROVE Cardinality(D) <= 1
    <3>1. D \subseteq {seqNo}
      BY <2>6 DEF Confirmed
    <3>2. IsFiniteSet({seqNo}) /\ Cardinality({seqNo}) = 1
      BY FS_Singleton
    <3>3. Cardinality(D) <= Cardinality({seqNo})
      BY <3>1, <3>2, CardinalityMonotone
    <3> QED
      BY <3>2, <3>3
  <2>7. releasing = 0 /\ releasing' >= Cardinality(D)
    BY <1>11, <2>2, <2>6
  <2> QED
    BY <1>4, <2>1, <2>2, <2>4, <2>5, <2>7 DEF TrackedTotal, TrackedHeld, TypeOK
<1> QED
  BY <1>5, <1>6, <1>10, <1>13, <1>14

\* What the callback counted goes back to the pool.
LEMMA ReleasePermitsIInv == IInv /\ ReleasePermits => IInv'
<1> SUFFICES ASSUME IInv, ReleasePermits PROVE IInv'
  OBVIOUS
<1> USE ConfirmAssumption DEF IInv, ReleasePermits, threadVars, recoveryVars, channelVars
<1>1. FlagsOK'
  BY DEF TypeOK, FlagsOK
<1>2. TypeOK'
  BY <1>1 DEF TypeOK
<1>3. (FinitelyMany /\ InFlightOnOpenChannel /\ RecoversWhenDown /\ TrackedExactly)'
  BY DEF FinitelyMany, InFlightOnOpenChannel, RecoversWhenDown, TrackedExactly
<1>4. Cardinality(inflight) \in Nat /\ Cardinality(inflight \cap unconfirmed) \in Nat
  BY TrackedInFlight DEF FinitelyMany
<1>5. PermitsAccounted'
  BY <1>4 DEF PermitsAccounted, PermitTotal, Held, Tracks, TypeOK
<1>6. TrackedPermits'
  BY <1>4 DEF TrackedPermits, TrackedTotal, TrackedHeld, Tracks, TypeOK
<1> QED
  BY <1>2, <1>3, <1>5, <1>6

-----------------------------------------------------------------------------
(***************************************************************************)
(* Failures close the channel; only a recovery opens one again.            *)
(***************************************************************************)
Failure == ConnectionLost \/ ChannelClosed \/ ShutdownListener

\* A failure takes the claims about the open channel away with it.
LEMMA FailureIInv == IInv /\ Failure => IInv'
<1> SUFFICES ASSUME IInv, Failure PROVE IInv'
  OBVIOUS
<1> USE DEF IInv, Failure, ConnectionLost, ChannelClosed, ShutdownListener, RefusePending,
            threadVars, poolVars, recoveryVars
<1>1. FlagsOK'
  BY ModeAssumption DEF TypeOK, FlagsOK
<1>2. conn' # "up" /\ conn' \in {"broken", "down", "channel_closed"} /\ failures' \in Nat
  BY LimitAssumption DEF TypeOK
<1>3. (inflight' = {} \/ inflight' = inflight) /\ (uncommitted' = 0 \/ uncommitted' = uncommitted)
  OBVIOUS
<1>4. TypeOK'
  BY <1>1, <1>2, <1>3 DEF TypeOK, PCs
<1>5. FinitelyMany'
  BY <1>3, FS_EmptySet DEF FinitelyMany
<1>6. (InFlightOnOpenChannel /\ RecoversWhenDown)'
  BY DEF InFlightOnOpenChannel, RecoversWhenDown
<1>7. (TrackedExactly /\ PermitsAccounted /\ TrackedPermits)'
  BY <1>2 DEF TrackedExactly, PermitsAccounted, TrackedPermits
<1> QED
  BY <1>4, <1>5, <1>6, <1>7

\* The recovery thread only runs when recovery is enabled, and what it
\* releases makes up for the permits that were out when it looked.
LEMMA RecoveryIInv == IInv /\ RecoveryThread => IInv'
<1> SUFFICES ASSUME IInv, RecoveryThread PROVE IInv'
  OBVIOUS
<1> USE ConfirmAssumption
    DEF IInv, RecoveryThread, HandleRecoveryStarted, Reconnect, ComputeUsedPermits,
        ReleaseUsedPermits, ReleaseNegative, HandleRecoveryDone,
        threadVars, poolVars, channelVars
<1>1. FlagsOK'
  BY DEF TypeOK, FlagsOK
<1>2. RecoveryEnabled
  BY DEF RecoversWhenDown
<1>3. TypeOK'
  <2>1. CASE HandleRecoveryStarted
    BY <1>1, <2>1 DEF TypeOK
  <2>2. CASE Reconnect
    BY <1>1, <2>2 DEF TypeOK
  <2>3. CASE ComputeUsedPermits
    BY <1>1, <2>3 DEF TypeOK, Tracks
  <2>4. CASE ReleaseUsedPermits
    BY <1>1, <2>4 DEF TypeOK
  <2>5. CASE ReleaseNegative
    BY <1>1, <2>5 DEF TypeOK
  <2>6. CASE HandleRecoveryDone
    BY <1>1, <2>6 DEF TypeOK
  <2> QED
    BY <2>1, <2>2, <2>3, <2>4, <2>5, <2>6
<1>4. (FinitelyMany /\ InFlightOnOpenChannel)'
  BY DEF FinitelyMany, InFlightOnOpenChannel, RecoversWhenDown
<1>5. (RecoversWhenDown /\ TrackedExactly /\ PermitsAccounted)'
  BY <1>2 DEF RecoversWhenDown, TrackedExactly, PermitsAccounted
<1>6. TrackedPermits'
  <2>1. Cardinality(inflight \cap unconfirmed) \in Nat
    BY TrackedInFlight DEF FinitelyMany
  <2>2. inflight' = inflight /\ unconfirmed' = unconfirmed /\ TrackedHeld \in Nat
    BY DEF TrackedHeld
  <2>3. CASE HandleRecoveryStarted \/ Reconnect
    BY <2>3 DEF TrackedPermits
  <2>4. CASE ComputeUsedPermits
    BY <2>1, <2>2, <2>4 DEF TrackedPermits, TrackedTotal, TrackedHeld, Tracks, TypeOK
  <2>5. CASE ReleaseUsedPermits
    BY <2>1, <2>2, <2>5 DEF TrackedPermits, TrackedTotal, TrackedHeld, Tracks, TypeOK
  <2>6. CASE ReleaseNegative
    BY <2>1, <2>2, <2>6 DEF TrackedPermits, TrackedTotal, TrackedHeld, Tracks, TypeOK
  <2>7. CASE HandleRecoveryDone
    BY <2>1, <2>2, <2>7 DEF TrackedPermits, TrackedTotal, TrackedHeld, Tracks, TypeOK
  <2> QED
    BY <2>3, <2>4, <2>5, <2>6, <2>7
<1> QED
  BY <1>3, <1>4, <1>5, <1>6

-----------------------------------------------------------------------------
\* Every step preserves the inductive invariant.
LEMMA NextIInv == IInv /\ [Next]_vars => IInv'
<1> SUFFICES ASSUME IInv, [Next]_vars PROVE IInv'
  OBVIOUS
<1>1. CASE Moves
  BY <1>1, MovesAreThreadMoves, ThreadMovesIInv
<1>2. CASE Acquire \/ TrackUnconfirmed \/ BasicPublish
  BY <1>2, AcquireIInv, TrackUnconfirmedIInv, BasicPublishIInv
<1>3. CASE PublishLost \/ PublishError \/ TxCommitOk
  BY <1>3, WriteErrorIInv, TxCommitIInv
<1>4. CASE \E seqNo \in inflight, multiple \in BOOLEAN : HandleAckNack(seqNo, multiple)
  BY <1>4, HandleAckNackIInv
<1>5. CASE ReleasePermits
  BY <1>5, ReleasePermitsIInv
<1>6. CASE Failure
  BY <1>6, FailureIInv
<1>7. CASE RecoveryThread
  BY <1>7, RecoveryIInv
<1>8. CASE UNCHANGED vars
  <2>1. UNCHANGED <<threadVars, poolVars, recoveryVars, channelVars>>
    BY <1>8 DEF vars
  <2>2. FlagsOK'
    BY <2>1 DEF IInv, TypeOK, FlagsOK, threadVars, recoveryVars
  <2>3. (TypeOK /\ FinitelyMany /\ InFlightOnOpenChannel /\ RecoversWhenDown)'
    BY <2>1, <2>2
    DEF IInv, TypeOK, FinitelyMany, InFlightOnOpenChannel, RecoversWhenDown,
        threadVars, poolVars, recoveryVars, channelVars
  <2>4. (TrackedExactly /\ PermitsAccounted /\ TrackedPermits)'
    BY <2>1
    DEF IInv, TrackedExactly, PermitsAccounted, PermitTotal, Held,
        TrackedPermits, TrackedTotal, TrackedHeld, threadVars, poolVars, recoveryVars, channelVars
  <2> QED
    BY <2>3, <2>4 DEF IInv
<1> QED
  BY <1>1, <1>2, <1>3, <1>4, <1>5, <1>6, <1>7, <1>8
  DEF Next, ProducerThread, ReaderThread, Moves, Failure, Terminated

\* The inductive invariant holds in every reachable state of every instance:
\* the pool, the map and the broker agree at every point of handlePublish and
\* handleAckNack.
THEOREM Invariance == Spec => []IInv
<1>1. Init => IInv
  BY InitIInv
<1>2. IInv /\ [Next]_vars => IInv'
  BY NextIInv
<1> QED
  BY <1>1, <1>2, PTL DEF Spec

\* Type correctness of the producer's state; the pool is never negative.
THEOREM TypeCorrect == Spec => []TypeOK
<1>1. IInv => TypeOK
  BY DEF IInv
<1> QED
  BY <1>1, Invariance, PTL

\* Without connection recovery every permit is accounted for at every step.
THEOREM PermitConservation == Spec => []PermitsAccounted
<1>1. IInv => PermitsAccounted
  BY DEF IInv
<1> QED
  BY <1>1, Invariance, PTL

\* Without connection recovery at most --confirm messages are unconfirmed.
THEOREM ConfirmLimit == ~RecoveryEnabled => (Spec => []OutstandingBounded)
<1> SUFFICES ASSUME ~RecoveryEnabled PROVE Spec => []OutstandingBounded
  OBVIOUS
<1>1. IInv => OutstandingBounded
  <2> SUFFICES ASSUME IInv, Tracks PROVE Cardinality(inflight) <= Confirm
    BY DEF OutstandingBounded
  <2>1. CASE conn = "up"
    <3>1. Cardinality(inflight) \in Nat
      BY FS_CardinalityType DEF IInv, FinitelyMany
    <3> QED
      BY <2>1, <3>1, ConfirmAssumption DEF IInv, PermitsAccounted, PermitTotal, Held, TypeOK
  <2>2. CASE conn # "up"
    BY <2>2, FS_EmptySet, ConfirmAssumption DEF IInv, InFlightOnOpenChannel, Tracks
  <2> QED
    BY <2>1, <2>2
<1> QED
  BY <1>1, Invariance, PTL

\* A recovery leaves no permit behind: once it is over the pool, the publish
\* in progress and the messages in flight have all of them, however the
\* failures, the swallowed writes and the confirms interleave with the reset.
THEOREM RecoveryKeepsPermits == Spec => []NoPermitLeak
<1>1. IInv => NoPermitLeak
  <2> SUFFICES ASSUME IInv, Tracks, conn = "up", rpc = "idle"
               PROVE  PermitTotal >= Confirm
    BY DEF NoPermitLeak
  <2>1. /\ Cardinality(inflight) \in Nat /\ Cardinality(inflight \cap unconfirmed) \in Nat
        /\ Cardinality(inflight \cap unconfirmed) <= Cardinality(inflight)
    BY CardinalityMonotone, TrackedInFlight DEF IInv, FinitelyMany
  <2>2. TrackedHeld <= Held /\ TrackedHeld \in Nat /\ Held \in Nat
    BY DEF TrackedHeld, Held
  <2>3. TrackedTotal >= Confirm
    BY DEF IInv, TrackedPermits
  <2> QED
    BY <2>1, <2>2, <2>3, ConfirmAssumption DEF IInv, TypeOK, TrackedTotal, PermitTotal
<1> QED
  BY <1>1, Invariance, PTL

-----------------------------------------------------------------------------
(***************************************************************************)
(* The message count. With a variable rate run() resets it and nothing of  *)
(* what follows holds; the scheduled task never does.                      *)
(***************************************************************************)
CountKept == Scheduled \/ ~VariableRate

\* Where the producer is when a message is counted and reported.
CountsPublished ==
  /\ pc \notin {"pause", "stats"}
  /\ pc \notin {"commit", "reply", "refused", "failed"} => published = msgCount
  /\ pc \in {"commit", "reply", "refused"} => published + 1 = msgCount
  /\ published <= msgCount

\* The body of the loop is entered below the limit, and counts one message.
CountsToLimit ==
  MsgLimit > 0 =>
    /\ msgCount <= MsgLimit
    /\ pc \in {"gate", "acquire", "put", "send", "count"} => msgCount < MsgLimit
    /\ pc = "drain" => msgCount = MsgLimit
    /\ reason = "limit" => published = MsgLimit

\* What the open transaction holds; a channel that is not open has none.
CountsTransaction ==
  TxSize > 0 =>
    /\ conn # "up" => uncommitted = 0
    /\ pc \in {"delay", "idle", "loop", "gate", "acquire", "put", "send", "drain"}
         => uncommitted <= msgCount % TxSize
    /\ pc = "count" => uncommitted <= (msgCount % TxSize) + 1
    /\ pc \in {"commit", "reply", "refused"} => msgCount % TxSize = 0

CountInv == CountsPublished /\ CountsToLimit /\ CountsTransaction

\* The first message is still to come.
LEMMA InitCountInv == Init => CountInv
<1> SUFFICES ASSUME Init PROVE CountInv
  OBVIOUS
<1>1. TxSize > 0 => 0 % TxSize \in 0..(TxSize - 1)
  BY LimitAssumption, NextRemainder
<1> QED
  BY <1>1, LimitAssumption
  DEF Init, CountInv, CountsPublished, CountsToLimit, CountsTransaction

\* Threads other than the producer's leave its counts alone; a failure discards
\* the transaction.
LEMMA OthersCountInv ==
  ASSUME TypeOK, CountInv, ReaderThread \/ RecoveryThread \/ Failure \/ Cancel \/ UNCHANGED vars
  PROVE  CountInv'
<1>1. /\ UNCHANGED <<msgCount, published, reason>>
      /\ pc' = pc \/ (pc = "reply" /\ pc' = "refused")
      /\ uncommitted' \in {uncommitted, 0}
      /\ conn' # "up" => uncommitted' = 0 \/ (uncommitted' = uncommitted /\ conn # "up")
  BY DEF ReaderThread, HandleAckNack, ReleasePermits, ShutdownListener, RecoveryThread,
         HandleRecoveryStarted, Reconnect, ComputeUsedPermits, ReleaseUsedPermits,
         ReleaseNegative, HandleRecoveryDone, Failure, ConnectionLost, ChannelClosed, Cancel,
         RefusePending,
         vars, threadVars, poolVars, recoveryVars, channelVars
<1>2. CountsPublished' /\ CountsToLimit'
  BY <1>1 DEF CountInv, CountsPublished, CountsToLimit
<1>3. CountsTransaction'
  <2> SUFFICES ASSUME TxSize > 0 PROVE CountsTransaction'
    BY DEF CountsTransaction
  <2>1. msgCount % TxSize \in 0..(TxSize - 1) /\ uncommitted \in Nat
    BY LimitAssumption, NextRemainder DEF TypeOK
  <2> QED BY <1>1, <2>1 DEF CountInv, CountsTransaction
<1> QED BY <1>2, <1>3 DEF CountInv

\* The steps of the producer thread that count nothing.
Steps ==
  \/ StartDelayOver \/ StartDelayInterrupted \/ Tick \/ KeepGoing
  \/ ReachLimit \/ StopInterrupted \/ PauseOver \/ PauseInterrupted
  \/ PassGate \/ SleepWhileRecovering \/ Acquire \/ AcquireTimeout \/ AcquireInterrupted
  \/ TrackUnconfirmed \/ PublishLost \/ PublishError \/ TxCommit \/ TxCommitError
  \/ DrainOver \/ DrainTimeout \/ DrainInterrupted

LEMMA StepsCountInv ==
  ASSUME TypeOK, CountInv, CountKept, Steps
  PROVE  CountInv'
<1> DEFINE body == {"gate", "acquire", "put", "send"}
<1>1. UNCHANGED <<msgCount, published, conn, uncommitted>>
  BY DEF Steps, StartDelayOver, StartDelayInterrupted, Tick, KeepGoing, ReachLimit,
         StopInterrupted, PauseOver, PauseInterrupted, PassGate, SleepWhileRecovering, Acquire,
         AcquireTimeout, AcquireInterrupted, TrackUnconfirmed, PublishLost, PublishError,
         TxCommit, TxCommitError, DrainOver, DrainTimeout, DrainInterrupted, CountDownLimit,
         channelVars
<1>2. \/ pc' = "failed"
      \/ pc' = "loop" /\ pc \in {"delay", "idle"}
      \/ pc' = "gate" /\ pc = "loop" /\ ~LimitReached
      \/ pc' = "drain" /\ pc = "loop" /\ LimitReached
      \/ pc' \in {"idle", "stopped"} /\ pc = "loop"
      \/ pc' \in {"idle", "stopped"} /\ pc = "drain"
      \/ pc' \in {"idle", "loop"} /\ pc = "gate"
      \/ pc' \in {"acquire", "put", "send"} /\ pc \in body
      \/ pc' = "count" /\ pc = "send"
      \/ pc' = "reply" /\ pc = "commit"
  BY DEF CountInv, CountsPublished, CountKept, AfterIteration, Fail, GoTo,
         Steps, StartDelayOver, StartDelayInterrupted, Tick, KeepGoing, ReachLimit,
         StopInterrupted, PauseOver, PauseInterrupted, PassGate, SleepWhileRecovering, Acquire,
         AcquireTimeout, AcquireInterrupted, TrackUnconfirmed, PublishLost, PublishError,
         TxCommit, TxCommitError, DrainOver, DrainTimeout, DrainInterrupted, CountDownLimit
<1>3. reason' = "limit" => reason = "limit" \/ pc = "drain"
  BY DEF Fail, CountDown, GoTo,
         Steps, StartDelayOver, StartDelayInterrupted, Tick, KeepGoing, ReachLimit,
         StopInterrupted, PauseOver, PauseInterrupted, PassGate, SleepWhileRecovering, Acquire,
         AcquireTimeout, AcquireInterrupted, TrackUnconfirmed, PublishLost, PublishError,
         TxCommit, TxCommitError, DrainOver, DrainTimeout, DrainInterrupted, CountDownLimit
<1>4. CountsPublished'
  BY <1>1, <1>2 DEF CountInv, CountsPublished
<1>5. CountsToLimit'
  <2> SUFFICES ASSUME MsgLimit > 0 PROVE CountsToLimit'
    BY DEF CountsToLimit
  <2>1. msgCount \in Nat /\ published \in Nat /\ MsgLimit \in Nat /\ msgCount <= MsgLimit
    BY LimitAssumption DEF TypeOK, CountInv, CountsToLimit
  <2>2. pc = "drain" => published = MsgLimit
    BY DEF CountInv, CountsToLimit, CountsPublished
  <2> QED BY <1>1, <1>2, <1>3, <2>1, <2>2 DEF CountInv, CountsToLimit, LimitReached
<1>6. CountsTransaction'
  <2> SUFFICES ASSUME TxSize > 0 PROVE CountsTransaction'
    BY DEF CountsTransaction
  <2>1. msgCount % TxSize \in 0..(TxSize - 1) /\ uncommitted \in Nat
    BY LimitAssumption, NextRemainder DEF TypeOK
  <2> QED BY <1>1, <1>2, <2>1 DEF CountInv, CountsTransaction
<1> QED BY <1>4, <1>5, <1>6 DEF CountInv

\* A message is published, counted and, when one is due, committed.
LEMMA PublishCountInv ==
  ASSUME TypeOK, CountInv, CountKept,
         BasicPublish \/ CountMessage \/ TxCommitOk \/ TxCommitLost \/ ResetStats
  PROVE  CountInv'
<1>1. msgCount \in Nat /\ published \in Nat /\ uncommitted \in Nat
  BY DEF TypeOK
<1>2. ASSUME TxSize > 0
      PROVE  /\ TxSize \in Nat \ {0} /\ msgCount % TxSize \in 0..(TxSize - 1)
             /\ ~CommitDue => (msgCount + 1) % TxSize = (msgCount % TxSize) + 1
  <2>1. TxSize \in Nat \ {0}
    BY <1>2, LimitAssumption
  <2>2. /\ msgCount % TxSize \in 0..(TxSize - 1)
        /\ (msgCount % TxSize) + 1 < TxSize => (msgCount + 1) % TxSize = (msgCount % TxSize) + 1
        /\ (msgCount % TxSize) + 1 >= TxSize => (msgCount + 1) % TxSize = 0
    BY <1>1, <2>1, NextRemainder
  <2> QED BY <2>1, <2>2 DEF CommitDue
<1>3. AfterIteration \in {"idle", "loop"}
  BY DEF CountKept, AfterIteration
<1>4. CASE BasicPublish
  <2> USE <1>4 DEF BasicPublish, GoTo
  <2>1. CountsPublished' /\ CountsToLimit'
    BY DEF CountInv, CountsPublished, CountsToLimit
  <2>2. CountsTransaction'
    BY <1>1, <1>2 DEF CountInv, CountsTransaction
  <2> QED BY <2>1, <2>2 DEF CountInv
<1>5. CASE CountMessage
  <2> USE <1>5 DEF CountMessage, channelVars
  <2>1. CountsPublished'
    BY <1>1, <1>3 DEF CountInv, CountsPublished
  <2>2. CountsToLimit'
    BY <1>1, <1>3, LimitAssumption DEF CountInv, CountsPublished, CountsToLimit
  <2>3. CASE CommitDue
    <3>1. CountsTransaction'
      BY <2>3 DEF CountInv, CountsTransaction, CommitDue
    <3> QED BY <2>1, <2>2, <3>1 DEF CountInv
  <2>4. CASE ~CommitDue
    <3>1. CountsTransaction'
      BY <1>1, <1>2, <1>3, <2>4 DEF CountInv, CountsTransaction
    <3> QED BY <2>1, <2>2, <3>1 DEF CountInv
  <2> QED BY <2>3, <2>4
<1>6. CASE TxCommitOk \/ TxCommitLost
  <2> USE <1>6 DEF TxCommitOk, TxCommitLost, GoTo, channelVars
  <2>1. CountsPublished'
    BY <1>1, <1>3 DEF CountInv, CountsPublished
  <2>2. CountsToLimit'
    BY <1>1, <1>3, LimitAssumption DEF CountInv, CountsPublished, CountsToLimit
  <2>3. CountsTransaction'
    BY <1>1, <1>2, <1>3 DEF CountInv, CountsTransaction
  <2> QED BY <2>1, <2>2, <2>3 DEF CountInv
<1>7. CASE ResetStats
  BY <1>7 DEF ResetStats, GoTo, CountInv, CountsPublished
<1> QED BY <1>4, <1>5, <1>6, <1>7

\* The counts agree in every reachable state, however publishing, commits,
\* failures and recoveries interleave, unless a variable rate resets them.
THEOREM CountInvariance == CountKept => (Spec => []CountInv)
<1> SUFFICES ASSUME CountKept PROVE Spec => []CountInv
  OBVIOUS
<1>1. TypeOK /\ CountInv /\ [Next]_vars => CountInv'
  BY OthersCountInv, StepsCountInv, PublishCountInv
  DEF Next, ProducerThread, Steps, Failure, Terminated
<1> QED
  BY <1>1, InitCountInv, TypeCorrect, PTL DEF Spec

\* --pmessages: no producer publishes more, and one that reports the limit has
\* published as many, with a commit that failed on the way or without.
THEOREM MessageLimit == CountKept => (Spec => []LimitHonoured)
<1> SUFFICES ASSUME CountKept PROVE Spec => []LimitHonoured
  OBVIOUS
<1>1. TypeOK /\ CountInv => LimitHonoured
  BY LimitAssumption DEF TypeOK, CountInv, CountsPublished, CountsToLimit, LimitHonoured
<1> QED
  BY <1>1, CountInvariance, TypeCorrect, PTL

\* Between two messages a transaction holds those since the last multiple of the
\* transaction size at most, although failed commits are swallowed.
THEOREM Transactions == CountKept => (Spec => []TransactionAligned)
<1> SUFFICES ASSUME CountKept PROVE Spec => []TransactionAligned
  OBVIOUS
<1>1. CountInv => TransactionAligned
  BY DEF CountInv, CountsTransaction, TransactionAligned
<1> QED
  BY <1>1, CountInvariance, PTL
=============================================================================
