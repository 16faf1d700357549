------------------------------ MODULE Producer ------------------------------
(***************************************************************************)
(* One producer agent (Producer.java) with its AgentBase error policy, the *)
(* recovery process Recovery.java registers on its connection, and the     *)
(* part of the AMQP client and of the broker they interact with.           *)
(*                                                                         *)
(* Three threads take steps:                                               *)
(*   - the producer thread: run(), or, when Scheduled, the runnable of     *)
(*     createRunnableForScheduling();                                      *)
(*   - the connection's reader thread: publisher confirms and the shutdown *)
(*     listener;                                                           *)
(*   - the client's recovery thread: handleRecoveryStarted/handleRecovery. *)
(***************************************************************************)
EXTENDS Integers, FiniteSets

CONSTANTS
  Confirm,          \* --confirm: > 0 pool of permits, 0 confirms without a pool, < 0 none
  ConfirmTimeout,   \* --confirm-timeout; only its sign matters here
  MsgLimit,         \* --pmessages, 0 for no limit
  TxSize,           \* --ptxsize, 0 for no transaction
  Scheduled,        \* publishing at an interval, on a scheduled executor
  VariableRate,     \* --variable-rate
  RecoveryEnabled,  \* the connection is recoverable
  MaxFailures,      \* bound: connection or channel failures in a behaviour
  MaxPublished      \* bound: messages published in a behaviour

ASSUME ConfirmAssumption == Confirm \in Int /\ ConfirmTimeout \in Int
ASSUME LimitAssumption ==
  MsgLimit \in Nat /\ TxSize \in Nat /\ MaxFailures \in Nat /\ MaxPublished \in Nat
ASSUME ModeAssumption ==
  Scheduled \in BOOLEAN /\ VariableRate \in BOOLEAN /\ RecoveryEnabled \in BOOLEAN

VARIABLES
  pc,                  \* where the producer thread is
  interrupted,         \* the thread's interrupt flag
  cancelled,           \* the shutdown has cancelled the producer's task
  msgCount,            \* ProducerState.msgCount
  published,           \* metrics.published() calls
  reason,              \* what countDown() was called with, "none" while completed is false
  permits,             \* confirmPool.availablePermits()
  unconfirmed,         \* the keys of the unconfirmed map
  releasing,           \* permits a confirm callback has yet to release
  recoveryInProgress,  \* the flag of the recovery process
  rpc,                 \* where the recovery thread is
  used,                \* usedPermits of maybeResetConfirmPool
  conn,                \* the connection, as the client sees it
  failures,            \* connection and channel failures so far
  nextPublishSeqNo,    \* of the channel, restarts at 1 on a recovered one
  inflight,            \* publishes of this channel the broker has yet to confirm
  uncommitted          \* publishes of this channel not yet committed

threadVars == <<pc, interrupted, cancelled, msgCount, published, reason>>
poolVars == <<permits, unconfirmed, releasing>>
recoveryVars == <<recoveryInProgress, rpc, used>>
channelVars == <<conn, failures, nextPublishSeqNo, inflight, uncommitted>>
vars == <<threadVars, poolVars, recoveryVars, channelVars>>

Reasons == {"none", "interrupted", "error", "confirm_timeout", "limit"}
PCs == {"delay", "idle", "loop", "pause", "gate", "acquire", "put", "send",
        "count", "commit", "reply", "refused", "stats", "drain", "stopped", "failed"}

\* shouldTrackPublishConfirm, and confirmPool # null
Tracks == Confirm > 0

\* The permit of the publish the producer thread is in the middle of.
Held == IF Tracks /\ pc \in {"put", "send"} THEN 1 ELSE 0

Init ==
  /\ pc = IF Scheduled THEN "idle" ELSE "delay"
  /\ interrupted = FALSE /\ cancelled = FALSE
  /\ msgCount = 0 /\ published = 0 /\ reason = "none"
  /\ permits = IF Tracks THEN Confirm ELSE 0
  /\ unconfirmed = {} /\ releasing = 0
  /\ recoveryInProgress = FALSE /\ rpc = "idle" /\ used = 0
  /\ conn = "up" /\ failures = 0
  /\ nextPublishSeqNo = 1 /\ inflight = {} /\ uncommitted = 0

-----------------------------------------------------------------------------
(***************************************************************************)
(* The producer thread.                                                    *)
(***************************************************************************)
GoTo(from, to) == pc = from /\ pc' = to

\* countDown(reason): only the first call gets through the completed flag.
CountDown(r) == reason' = IF reason = "none" THEN r ELSE reason

LimitReachedLate == MsgLimit # 0 /\ msgCount > MsgLimit
LimitReached == MsgLimit # 0 /\ msgCount >= MsgLimit

\* Where an exception of the loop's body leaves the thread: it is counted
\* down and thrown out of run(), or out of the scheduled task, which the
\* executor then never runs again.
Fail(from, r) == GoTo(from, "failed") /\ CountDown(r)

\* What follows an iteration: the statistics of the loop, or the next tick.
AfterIteration ==
  IF Scheduled THEN "idle" ELSE IF VariableRate THEN "stats" ELSE "loop"

\* The random start delay is over; run() enters its loop.
StartDelayOver ==
  /\ GoTo("delay", "loop") /\ ~interrupted
  /\ UNCHANGED <<interrupted, cancelled, msgCount, published, reason,
                 poolVars, recoveryVars, channelVars>>

\* Interrupted in the start delay: run() ends before the loop's handlers.
StartDelayInterrupted ==
  /\ GoTo("delay", "failed") /\ interrupted
  /\ UNCHANGED <<interrupted, cancelled, msgCount, published, reason,
                 poolVars, recoveryVars, channelVars>>

\* The scheduled executor runs the task once more, unless it was cancelled.
Tick ==
  /\ GoTo("idle", "loop") /\ ~cancelled
  /\ UNCHANGED <<interrupted, cancelled, msgCount, published, reason,
                 poolVars, recoveryVars, channelVars>>

\* keepGoing() is true. A variable rate may be 0 at that moment.
KeepGoing ==
  /\ pc = "loop" /\ ~LimitReached /\ ~interrupted /\ published < MaxPublished
  /\ pc' \in {"gate"} \cup (IF VariableRate /\ ~Scheduled THEN {"pause"} ELSE {})
  /\ UNCHANGED <<interrupted, cancelled, msgCount, published, reason,
                 poolVars, recoveryVars, channelVars>>

\* keepGoing() is false because of the limit: off to maybeWaitForPublishConfirms.
ReachLimit ==
  /\ GoTo("loop", "drain") /\ LimitReached
  /\ UNCHANGED <<interrupted, cancelled, msgCount, published, reason,
                 poolVars, recoveryVars, channelVars>>

\* keepGoing() is false because of an interruption, which Thread.interrupted()
\* clears. run() only counts down if it has no limit.
StopInterrupted ==
  /\ pc = "loop" /\ ~LimitReached /\ interrupted
  /\ pc' = IF Scheduled THEN "idle" ELSE "stopped"
  /\ interrupted' = FALSE
  /\ IF Scheduled \/ MsgLimit = 0 THEN CountDown("interrupted") ELSE UNCHANGED reason
  /\ UNCHANGED <<cancelled, msgCount, published, poolVars, recoveryVars, channelVars>>

\* waitForOneSecond() while the variable rate is 0.
PauseOver ==
  /\ GoTo("pause", "stats") /\ ~interrupted
  /\ UNCHANGED <<interrupted, cancelled, msgCount, published, reason,
                 poolVars, recoveryVars, channelVars>>

\* An error, unless the rate is no longer 0 when the handler looks at it.
PauseInterrupted ==
  /\ \E r \in {"error", "interrupted"} : Fail("pause", r)
  /\ interrupted
  /\ UNCHANGED <<interrupted, cancelled, msgCount, published,
                 poolVars, recoveryVars, channelVars>>

\* handlePublish: go on and publish unless the connection is recovering.
PassGate ==
  /\ GoTo("gate", "acquire") /\ ~recoveryInProgress
  /\ UNCHANGED <<interrupted, cancelled, msgCount, published, reason,
                 poolVars, recoveryVars, channelVars>>

\* handlePublish while recovering: a sleep, which an interruption cuts short.
SleepWhileRecovering ==
  /\ GoTo("gate", AfterIteration) /\ recoveryInProgress
  /\ UNCHANGED <<interrupted, cancelled, msgCount, published, reason,
                 poolVars, recoveryVars, channelVars>>

\* Mutant: the pool is not a limit.
AcquireAnyway ==
  /\ GoTo("acquire", "put")
  /\ ~interrupted
  /\ permits' = permits - 1
  /\ UNCHANGED <<interrupted, cancelled, msgCount, published, reason,
                 unconfirmed, releasing, recoveryVars, channelVars>>

\* maybeWaitIfTooManyOutstandingPublishConfirms gets its permit.
Acquire ==
  /\ GoTo("acquire", "put")
  /\ Tracks => (permits > 0 /\ ~interrupted)
  /\ permits' = IF Tracks THEN permits - 1 ELSE permits
  /\ UNCHANGED <<interrupted, cancelled, msgCount, published, reason,
                 unconfirmed, releasing, recoveryVars, channelVars>>

\* tryAcquire gives up: PerfTestException.
AcquireTimeout ==
  /\ Fail("acquire", "confirm_timeout")
  /\ Tracks /\ ConfirmTimeout >= 0 /\ permits <= 0 /\ ~interrupted
  /\ UNCHANGED <<interrupted, cancelled, msgCount, published,
                 poolVars, recoveryVars, channelVars>>

\* Acquiring throws InterruptedException even if a permit is available. It is
\* reported as an error by the scheduled task, and by run() if the rate is 0.
AcquireInterrupted ==
  /\ Tracks /\ interrupted
  /\ \/ (Scheduled \/ VariableRate) /\ Fail("acquire", "error")
     \/ ~Scheduled /\ Fail("acquire", "interrupted")
  /\ UNCHANGED <<interrupted, cancelled, msgCount, published,
                 poolVars, recoveryVars, channelVars>>

\* publish() tracks the message under the channel's next sequence number...
TrackUnconfirmed ==
  /\ GoTo("put", "send")
  /\ unconfirmed' = IF Tracks THEN unconfirmed \cup {nextPublishSeqNo} ELSE unconfirmed
  /\ UNCHANGED <<interrupted, cancelled, msgCount, published, reason,
                 permits, releasing, recoveryVars, channelVars>>

\* ... and basicPublish gives it that number if the channel is still the same.
BasicPublish ==
  /\ GoTo("send", "count") /\ conn = "up"
  /\ nextPublishSeqNo' = nextPublishSeqNo + 1
  /\ inflight' = IF Confirm >= 0 THEN inflight \cup {nextPublishSeqNo} ELSE inflight
  /\ uncommitted' = IF TxSize > 0 THEN uncommitted + 1 ELSE 0
  /\ UNCHANGED <<interrupted, cancelled, msgCount, published, reason,
                 conn, failures, poolVars, recoveryVars>>

\* shouldStop, and the SocketException handler: whether a write that failed
\* stops the agent. A closed channel does not trigger connection recovery.
WriteErrorStops == ~RecoveryEnabled \/ conn = "channel_closed"

\* dealWithWriteOperation swallows the failed basicPublish: it counts as done.
PublishLost ==
  /\ GoTo("send", "count") /\ conn # "up" /\ ~WriteErrorStops
  /\ nextPublishSeqNo' = nextPublishSeqNo + 1
  /\ UNCHANGED <<interrupted, cancelled, msgCount, published, reason, conn, failures,
                 inflight, uncommitted, poolVars, recoveryVars>>

\* Mutant: the exception ends the thread without a word to the handler.
PublishErrorSilent ==
  /\ GoTo("send", "failed") /\ conn # "up" /\ WriteErrorStops
  /\ nextPublishSeqNo' = nextPublishSeqNo + 1
  /\ UNCHANGED <<interrupted, cancelled, msgCount, published, reason, conn, failures,
                 inflight, uncommitted, poolVars, recoveryVars>>

\* The exception goes up to run(), or to the scheduled task, which counts down.
PublishError ==
  /\ Fail("send", "error") /\ conn # "up" /\ WriteErrorStops
  /\ nextPublishSeqNo' = nextPublishSeqNo + 1
  /\ UNCHANGED <<interrupted, cancelled, msgCount, published, conn, failures,
                 inflight, uncommitted, poolVars, recoveryVars>>

\* incrementMessageCount, then the commit if one is due, then published().
CommitDueBeforeIncrement == TxSize # 0 /\ msgCount % TxSize = 0
CommitDue == TxSize # 0 /\ (msgCount + 1) % TxSize = 0

CountMessage ==
  /\ pc = "count"
  /\ pc' = IF CommitDue THEN "commit" ELSE AfterIteration
  /\ msgCount' = msgCount + 1
  /\ published' = IF CommitDue THEN published ELSE published + 1
  /\ UNCHANGED <<interrupted, cancelled, reason, poolVars, recoveryVars, channelVars>>

\* txCommit asks the broker and waits for its answer...
TxCommit ==
  /\ GoTo("commit", "reply") /\ conn = "up"
  /\ UNCHANGED <<interrupted, cancelled, msgCount, published, reason,
                 poolVars, recoveryVars, channelVars>>

TxCommitOk ==
  /\ GoTo("reply", AfterIteration)
  /\ uncommitted' = 0
  /\ published' = published + 1
  /\ UNCHANGED <<interrupted, cancelled, msgCount, reason, conn, failures,
                 nextPublishSeqNo, inflight, poolVars, recoveryVars>>

\* ... or cannot even ask, which is swallowed like a failed publish.
TxCommitLost ==
  /\ GoTo("commit", AfterIteration) /\ conn # "up" /\ ~WriteErrorStops
  /\ published' = published + 1
  /\ UNCHANGED <<interrupted, cancelled, msgCount, reason,
                 poolVars, recoveryVars, channelVars>>

\* The failure of a call that waits for its answer is another IOException, which
\* is not swallowed, recovery or not.
TxCommitError ==
  /\ \/ Fail("commit", "error") /\ conn # "up" /\ WriteErrorStops
     \/ Fail("refused", "error")
  /\ UNCHANGED <<interrupted, cancelled, msgCount, published,
                 poolVars, recoveryVars, channelVars>>

\* With a variable rate the message count restarts when more than 1000 ns
\* have passed since it last did.
ResetStats ==
  /\ GoTo("stats", "loop")
  /\ msgCount' \in {msgCount, 0}
  /\ UNCHANGED <<interrupted, cancelled, published, reason,
                 poolVars, recoveryVars, channelVars>>

\* maybeWaitForPublishConfirms ends: nothing is unconfirmed, the time is
\* over, or the wait was interrupted. Then the producer counts down.
Drained == ~Tracks \/ unconfirmed = {} \/ ConfirmTimeout < 0

CountDownLimit ==
  /\ GoTo("drain", IF Scheduled THEN "idle" ELSE "stopped")
  /\ CountDown("limit")
  /\ UNCHANGED <<interrupted, cancelled, msgCount, published,
                 poolVars, recoveryVars, channelVars>>

DrainOver == Drained /\ CountDownLimit
DrainTimeout == ~Drained /\ ~interrupted /\ CountDownLimit
DrainInterrupted == ~Drained /\ interrupted /\ CountDownLimit

-----------------------------------------------------------------------------
(***************************************************************************)
(* The shutdown's task.cancel(true): it interrupts the thread if the task  *)
(* is running, and the executor will not run it again.                     *)
(***************************************************************************)
Cancel ==
  /\ ~cancelled /\ pc \notin {"stopped", "failed"}
  /\ cancelled' = TRUE
  /\ interrupted' = (pc # "idle")
  /\ UNCHANGED <<pc, msgCount, published, reason, poolVars, recoveryVars, channelVars>>

-----------------------------------------------------------------------------
(***************************************************************************)
(* Publisher confirms, on the connection's reader thread: the broker       *)
(* confirms seqNo, alone or with everything before it; handleAckNack drops *)
(* the entries of unconfirmed, then releases the permits. An ack and a     *)
(* nack differ in the metric they count only.                              *)
(***************************************************************************)
Confirmed(set, seqNo, multiple) ==
  IF multiple THEN {s \in set : s <= seqNo} ELSE set \cap {seqNo}

\* Mutants: the callback forgets or misuses the multiple flag.
NumConfirmsOfOne(seqNo, multiple) == 1
NumConfirmsSeqNo(seqNo, multiple) == IF multiple THEN seqNo ELSE 1

\* processAck and processNack return 1 for a single confirm, known or not.
NumConfirms(seqNo, multiple) ==
  IF multiple THEN Cardinality(Confirmed(unconfirmed, seqNo, TRUE)) ELSE 1

HandleAckNack(seqNo, multiple) ==
  /\ conn = "up" /\ releasing = 0
  /\ inflight' = inflight \ Confirmed(inflight, seqNo, multiple)
  /\ unconfirmed' = unconfirmed \ Confirmed(unconfirmed, seqNo, multiple)
  /\ releasing' = IF Tracks THEN NumConfirms(seqNo, multiple) ELSE 0
  /\ UNCHANGED <<permits, conn, failures, nextPublishSeqNo, uncommitted,
                 threadVars, recoveryVars>>

ReleasePermits ==
  /\ releasing > 0
  /\ permits' = permits + releasing
  /\ releasing' = 0
  /\ UNCHANGED <<unconfirmed, threadVars, recoveryVars, channelVars>>

-----------------------------------------------------------------------------
(***************************************************************************)
(* Failures and recovery. The reader thread runs the shutdown listeners    *)
(* once it is out of the confirm callback; the client starts a recovery    *)
(* after them, one at a time.                                              *)
(***************************************************************************)
\* The client ends the call that waits for an answer.
RefusePending ==
  /\ pc' = IF pc = "reply" THEN "refused" ELSE pc
  /\ UNCHANGED <<interrupted, cancelled, msgCount, published, reason>>

ConnectionLost ==
  /\ conn = "up" /\ releasing = 0 /\ failures < MaxFailures
  /\ conn' = "broken"
  /\ failures' = failures + 1
  /\ inflight' = {} /\ uncommitted' = 0 /\ RefusePending
  /\ UNCHANGED <<nextPublishSeqNo, poolVars, recoveryVars>>

\* The broker closes the channel: no recovery follows.
ChannelClosed ==
  /\ conn = "up" /\ releasing = 0 /\ failures < MaxFailures
  /\ conn' = "channel_closed"
  /\ failures' = failures + 1
  /\ inflight' = {} /\ uncommitted' = 0 /\ RefusePending
  /\ UNCHANGED <<nextPublishSeqNo, poolVars, recoveryVars>>

ShutdownListener ==
  /\ conn = "broken"
  /\ conn' = "down"
  /\ recoveryInProgress' = RecoveryEnabled
  /\ UNCHANGED <<rpc, used, failures, nextPublishSeqNo, inflight, uncommitted,
                 threadVars, poolVars>>

HandleRecoveryStarted ==
  /\ RecoveryEnabled /\ conn = "down" /\ rpc = "idle"
  /\ rpc' = "reconnect"
  /\ recoveryInProgress' = TRUE
  /\ UNCHANGED <<used, threadVars, poolVars, channelVars>>

\* A new connection and a new channel, in confirm mode like the old one.
Reconnect ==
  /\ rpc = "reconnect"
  /\ rpc' = "recover"
  /\ conn' = "up" /\ nextPublishSeqNo' = 1
  /\ UNCHANGED <<recoveryInProgress, used, failures, inflight, uncommitted,
                 threadVars, poolVars>>

\* Mutant: the pool is left as it is.
ComputeNoPermits ==
  /\ rpc = "recover"
  /\ rpc' = "finish"
  /\ UNCHANGED <<used, recoveryInProgress, threadVars, poolVars, channelVars>>

\* handleRecovery recovers the topology, then the agent: maybeResetConfirmPool
\* computes the permits in use, and releases as many in a second step.
ComputeUsedPermits ==
  /\ rpc = "recover"
  /\ rpc' = IF Tracks THEN "release" ELSE "finish"
  /\ used' = IF Tracks THEN Confirm - permits ELSE 0
  /\ UNCHANGED <<recoveryInProgress, threadVars, poolVars, channelVars>>

ReleaseUsedPermits ==
  /\ rpc = "release" /\ used >= 0
  /\ rpc' = "finish"
  /\ permits' = permits + used
  /\ UNCHANGED <<recoveryInProgress, used, unconfirmed, releasing, threadVars, channelVars>>

\* Semaphore.release refuses a negative argument; nothing catches the
\* exception before the client, so the flag stays set.
ReleaseNegative ==
  /\ rpc = "release" /\ used < 0
  /\ rpc' = "idle"
  /\ UNCHANGED <<recoveryInProgress, used, threadVars, poolVars, channelVars>>

\* Mutant: the flag is not reset.
HandleRecoveryDoneFlagged ==
  /\ rpc = "finish"
  /\ rpc' = "idle"
  /\ UNCHANGED <<used, recoveryInProgress, threadVars, poolVars, channelVars>>

\* The agent is recovered: publishing may go on.
HandleRecoveryDone ==
  /\ rpc = "finish"
  /\ rpc' = "idle"
  /\ recoveryInProgress' = FALSE
  /\ UNCHANGED <<used, threadVars, poolVars, channelVars>>

-----------------------------------------------------------------------------
ProducerThread ==
  \/ StartDelayOver \/ StartDelayInterrupted \/ Tick
  \/ KeepGoing \/ ReachLimit \/ StopInterrupted \/ PauseOver \/ PauseInterrupted
  \/ PassGate \/ SleepWhileRecovering
  \/ Acquire \/ AcquireTimeout \/ AcquireInterrupted
  \/ TrackUnconfirmed \/ BasicPublish \/ PublishLost \/ PublishError
  \/ CountMessage \/ TxCommit \/ TxCommitOk \/ TxCommitLost \/ TxCommitError \/ ResetStats
  \/ DrainOver \/ DrainTimeout \/ DrainInterrupted

ReaderThread ==
  \/ \E seqNo \in inflight, multiple \in BOOLEAN : HandleAckNack(seqNo, multiple)
  \/ ReleasePermits
  \/ ShutdownListener

RecoveryThread ==
  \/ HandleRecoveryStarted \/ Reconnect
  \/ ComputeUsedPermits \/ ReleaseUsedPermits \/ ReleaseNegative \/ HandleRecoveryDone

\* A producer that has stopped or failed, or is cancelled, does nothing more.
Terminated ==
  /\ pc \in {"stopped", "failed"} \/ (pc = "idle" /\ cancelled)
  /\ UNCHANGED vars

Next ==
  \/ ProducerThread \/ ReaderThread \/ RecoveryThread
  \/ Cancel \/ ConnectionLost \/ ChannelClosed
  \/ Terminated

Spec == Init /\ [][Next]_vars

(***************************************************************************)
(* The threads are scheduled, sleeps and timed waits end, the broker       *)
(* confirms what it got, and a connection that can be recovered is.        *)
(* Nothing has to fail or to be cancelled.                                 *)
(***************************************************************************)
Fairness == WF_vars(ProducerThread) /\ WF_vars(ReaderThread) /\ WF_vars(RecoveryThread)

FairSpec == Spec /\ Fairness

-----------------------------------------------------------------------------
(***************************************************************************)
(* Properties.                                                             *)
(***************************************************************************)

FlagsOK ==
  interrupted \in BOOLEAN /\ cancelled \in BOOLEAN /\ recoveryInProgress \in BOOLEAN

\* The types of the variables; in particular the pool never goes negative.
TypeOK ==
  /\ FlagsOK /\ pc \in PCs /\ reason \in Reasons
  /\ msgCount \in Nat /\ published \in Nat /\ failures \in Nat /\ uncommitted \in Nat
  /\ permits \in Nat /\ releasing \in Nat
  /\ used \in Int /\ nextPublishSeqNo \in Nat \ {0}
  /\ unconfirmed \subseteq Nat \ {0} /\ inflight \subseteq Nat \ {0}
  /\ rpc \in {"idle", "reconnect", "recover", "release", "finish"}
  /\ conn \in {"up", "broken", "down", "channel_closed"}

\* Every permit of the pool is somewhere: available, held by the publish in
\* progress, out with a message the broker has yet to confirm, or about to be
\* released by the confirm callback.
PermitTotal == permits + Held + Cardinality(inflight) + releasing

\* Without connection recovery no permit of the confirm pool is lost or made
\* up, whatever mix of single and multiple confirms arrives between the steps
\* of handlePublish and of handleAckNack.
PermitsAccounted ==
  (Tracks /\ ~RecoveryEnabled /\ conn = "up") => PermitTotal = Confirm

\* After a recovery the pool is whole again: maybeResetConfirmPool gives back
\* the permit of every message the old connection took with it, the ones whose
\* failed write was swallowed and the one of a producer caught between
\* acquiring and publishing included.
NoPermitLeak ==
  (Tracks /\ conn = "up" /\ rpc = "idle") => PermitTotal >= Confirm

(***************************************************************************)
(* The inductive invariant. The open channel has given a number below its  *)
(* next one to everything in flight, and a closed one has nothing in       *)
(* flight. Without recovery the open channel is the first one, and the map *)
(* holds exactly what is in flight and the message about to be published.  *)
(* With recovery a message may be tracked under a number of the old        *)
(* channel: only the permits of messages tracked under their own number    *)
(* are sure to come back with their confirm, and together with the         *)
(* available ones they are never fewer than Confirm.                       *)
(***************************************************************************)
FinitelyMany == IsFiniteSet(inflight) /\ IsFiniteSet(unconfirmed)

InFlightOnOpenChannel ==
  /\ conn # "up" => inflight = {}
  /\ \A s \in inflight : s < nextPublishSeqNo

RecoversWhenDown ==
  /\ ~RecoveryEnabled => rpc = "idle"
  /\ rpc = "reconnect" => conn = "down"

TrackedExactly ==
  (Tracks /\ ~RecoveryEnabled /\ conn = "up") =>
    unconfirmed = inflight \cup (IF pc = "send" THEN {nextPublishSeqNo} ELSE {})

TrackedHeld ==
  IF pc = "put" \/ (pc = "send" /\ nextPublishSeqNo \in unconfirmed) THEN 1 ELSE 0

TrackedTotal ==
  permits + (IF rpc = "release" THEN used ELSE 0) + releasing
    + Cardinality(inflight \cap unconfirmed) + TrackedHeld

TrackedPermits == (Tracks /\ conn = "up" /\ rpc # "recover") => TrackedTotal >= Confirm

IInv ==
  /\ TypeOK /\ FinitelyMany /\ InFlightOnOpenChannel /\ RecoversWhenDown
  /\ TrackedExactly /\ PermitsAccounted /\ TrackedPermits

\* --confirm is the maximum number of publishes waiting for their confirm.
OutstandingBounded == Tracks => Cardinality(inflight) <= Confirm

\* The message limit: run() and the scheduled task never publish more than
\* --pmessages messages, and report the limit once they have published as many.
LimitHonoured ==
  MsgLimit > 0 => /\ published <= MsgLimit
                  /\ reason = "limit" => published = MsgLimit

\* Between two iterations a transaction holds the messages published since the
\* last multiple of the transaction size at most.
TransactionAligned ==
  (TxSize > 0 /\ pc \in {"idle", "loop"}) => uncommitted <= msgCount % TxSize

\* A producer with a message limit counts down in the end, unless it is
\* cancelled: it reaches its limit or it fails, and a failure counts down too.
Completes == MsgLimit > 0 => <>(reason # "none" \/ cancelled)

\* The recovery flag does not stay set: the connection comes back and
\* handleRecovery gets to its last line.
RecoveryEnds == recoveryInProgress ~> ~recoveryInProgress
=============================================================================
