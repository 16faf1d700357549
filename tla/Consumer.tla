------------------------------ MODULE Consumer ------------------------------
(***************************************************************************)
(* One asynchronous consumer agent (Consumer.java with its ConsumerImpl):  *)
(* what it counts, acknowledges and commits, when it counts down, and what *)
(* a connection recovery does to it.                                       *)
(*                                                                         *)
(* The client dispatches the deliveries of a channel one at a time on a    *)
(* worker thread ("cur"). The deliveries a lost connection had already     *)
(* queued are still dispatched, by the worker of that connection ("old"),  *)
(* to the same ConsumerImpl; the client knows their delivery tags and      *)
(* drops what is acknowledged with one of them on the recovered channel.   *)
(* The other threads are the exit-when scheduler and the client's recovery *)
(* thread.                                                                 *)
(***************************************************************************)
EXTENDS Integers, Sequences, FiniteSets

CONSTANTS
  QueueNames,     \* the queues of the broker
  Options,        \* the command lines it may be started with
  MaxMessages,    \* bound: messages published to the queues
  MaxFailures,    \* bound: connection failures
  MaxExitChecks   \* bound: exit-when checks that find the consumer idle

\* ConsumerParameters, as far as they matter: 0 is one ack per message for
\* multiAckEvery, no transaction for txSize, no limit for qos and msgLimit.
ConsumerParameters ==
  [queueNames : SUBSET QueueNames, autoAck : BOOLEAN, multiAckEvery : Nat, txSize : Nat,
   qos : Nat, msgLimit : Nat, exitWhen : {"never", "idle", "empty"}, recovery : BOOLEAN]

\* The last conjunct is validateMultiAckEveryQos, which the command line enforces.
ASSUME OptionsAssumption ==
  /\ {MaxMessages, MaxFailures, MaxExitChecks} \subseteq Nat
  /\ Options \subseteq ConsumerParameters
  /\ \A o \in Options : o.multiAckEvery = 0 \/ o.qos = 0 \/ o.multiAckEvery <= o.qos

VARIABLES
  params,                \* the options of this consumer
  received,              \* receivedMessageCount
  epochMessageCount,
  processed,             \* performanceMetrics.received() calls
  lastDeliveryTag,
  lastAckedDeliveryTag,
  activity,              \* lastActivityTimestamp: "never" (-1), "fresh", "idle" (> 1000 ms ago)
  reason,                \* what countDown() was called with, "none" before
  pool,                  \* deliveries queued for each worker, by their tag
  at,                    \* where each worker is in handleMessage
  tag,                   \* the delivery tag of the message it handles
  epc,                   \* where the exit-when check is
  seen,                  \* the tag it has read last
  exitChecks,            \* checks that found the consumer idle
  chan,                  \* the channel
  subscribed,            \* basicConsume is in force on it
  rpc,                   \* where Consumer.recover is
  failures,              \* connection failures so far
  origin,                \* the queue of every delivery, by its tag
  offset,                \* tags up to this one are those of earlier channels
  ready,                 \* messages ready in each queue
  toPublish,             \* messages still to come
  unacked,               \* deliveries of this channel the broker holds unacknowledged
  txAcks                 \* those acknowledged in the open transaction

countVars == <<received, epochMessageCount, processed, activity>>
tagVars == <<lastDeliveryTag, lastAckedDeliveryTag>>
workVars == <<pool, at, tag>>
exitVars == <<epc, seen, exitChecks>>
recoveryVars == <<rpc, failures, offset>>
brokerVars == <<chan, subscribed, ready, unacked, txAcks>>
feedVars == <<origin, toPublish>>
vars == <<params, countVars, tagVars, reason, workVars, exitVars, recoveryVars,
          brokerVars, feedVars>>

Queues == params.queueNames
AutoAck == params.autoAck
MultiAckEvery == params.multiAckEvery
TxSize == params.txSize
Qos == params.qos
MsgLimit == params.msgLimit
ExitWhen == params.exitWhen
RecoveryEnabled == params.recovery

Workers == {"cur", "old"}

Init ==
  /\ params \in Options
  /\ received = 0 /\ epochMessageCount = 0 /\ processed = 0 /\ activity = "never"
  /\ lastDeliveryTag = 0 /\ lastAckedDeliveryTag = 0 /\ reason = "none"
  /\ pool = [w \in Workers |-> <<>>]
  /\ at = [w \in Workers |-> "idle"] /\ tag = [w \in Workers |-> 0]
  /\ epc = "idle" /\ seen = 0 /\ exitChecks = 0
  /\ rpc = "idle" /\ failures = 0 /\ offset = 0
  /\ chan = "open" /\ subscribed = TRUE
  /\ ready = [q \in Queues |-> 0] /\ unacked = {} /\ txAcks = {}
  /\ origin = <<>> /\ toPublish = MaxMessages

-----------------------------------------------------------------------------
(***************************************************************************)
(* The broker and the client library.                                      *)
(***************************************************************************)
\* The messages of the tags in set go back to the queues they came from.
Requeued(set) == [q \in Queues |-> ready[q] + Cardinality({t \in set : origin[t] = q})]

Publish(q) ==
  /\ toPublish > 0
  /\ toPublish' = toPublish - 1
  /\ ready' = [ready EXCEPT ![q] = @ + 1]
  /\ UNCHANGED <<params, origin, chan, subscribed, unacked, txAcks, countVars, tagVars,
                 reason, workVars, exitVars, recoveryVars>>

\* A delivery, while the prefetch window has room.
Deliver(q) ==
  /\ chan = "open" /\ subscribed /\ ready[q] > 0
  /\ Qos > 0 => Cardinality(unacked) < Qos
  /\ origin' = Append(origin, q)
  /\ ready' = [ready EXCEPT ![q] = @ - 1]
  /\ pool' = [pool EXCEPT !["cur"] = Append(@, Len(origin) + 1)]
  /\ unacked' = IF AutoAck THEN unacked ELSE unacked \cup {Len(origin) + 1}
  /\ UNCHANGED <<params, toPublish, chan, subscribed, txAcks, at, tag, countVars, tagVars,
                 reason, exitVars, recoveryVars>>

\* The deliveries basicAck(t, multiple) settles.
Settled(t, multiple) ==
  {u \in unacked \ txAcks : u = t \/ (multiple /\ u < t)}

\* The channel closes: the broker requeues, nothing is delivered any more.
Close(why) ==
  /\ chan' = why /\ subscribed' = FALSE
  /\ ready' = Requeued(unacked) /\ unacked' = {} /\ txAcks' = {}

\* basicAck(t, multiple): the client drops a tag of an earlier channel, the
\* broker closes the channel on a tag it does not wait for, and in a transaction
\* an ack waits for the commit.
Ack(t, multiple) ==
  LET settled == Settled(t, multiple)
  IN IF t > offset /\ settled = {}
     THEN Close("rejected")
     ELSE /\ unacked' = IF t > offset /\ TxSize = 0 THEN unacked \ settled ELSE unacked
          /\ txAcks' = IF t > offset /\ TxSize # 0 THEN txAcks \cup settled ELSE txAcks
          /\ UNCHANGED <<chan, subscribed, ready>>

\* txCommit, for the acks of every thread of the channel; one closed meanwhile
\* has none.
TxCommit ==
  /\ unacked' = unacked \ txAcks /\ txAcks' = {}
  /\ UNCHANGED <<chan, subscribed, ready>>

-----------------------------------------------------------------------------
(***************************************************************************)
(* ConsumerImpl, on a worker thread.                                       *)
(***************************************************************************)
CountDown(r) == reason' = IF reason = "none" THEN r ELSE reason

\* handleDelivery: a message is counted if the channel is open, else dropped.
HandleDelivery(w) ==
  /\ at[w] = "idle" /\ pool[w] # <<>>
  /\ pool' = [pool EXCEPT ![w] = Tail(@)]
  /\ IF chan = "open"
     THEN /\ at' = [at EXCEPT ![w] = "received"]
          /\ tag' = [tag EXCEPT ![w] = Head(pool[w])]
          /\ received' = received + 1
          /\ epochMessageCount' = epochMessageCount + 1
          /\ activity' = "fresh"
     ELSE UNCHANGED <<params, at, tag, received, epochMessageCount, activity>>
  /\ UNCHANGED <<params, processed, tagVars, reason, exitVars, recoveryVars, brokerVars,
                 feedVars>>

MoveTo(w, from, to) == at[w] = from /\ at' = [at EXCEPT ![w] = to]

\* Mutant: one message too many is processed.
WithinLimitLate == MsgLimit = 0 \/ received <= MsgLimit + 1

\* handleMessage looks at the limit: past it, the message is not processed.
WithinLimit == MsgLimit = 0 \/ received <= MsgLimit

\* Mutant: the message is marked as handled before it is acknowledged.
ProcessMarking(w) ==
  /\ MoveTo(w, "received", IF WithinLimit THEN "ack" ELSE "finish")
  /\ processed' = IF WithinLimit THEN processed + 1 ELSE processed
  /\ lastDeliveryTag' = tag[w]
  /\ UNCHANGED <<params, received, epochMessageCount, activity, pool, tag,
                 lastAckedDeliveryTag, reason, exitVars, recoveryVars, brokerVars,
                 feedVars>>

Process(w) ==
  /\ MoveTo(w, "received", IF WithinLimit THEN "ack" ELSE "finish")
  /\ processed' = IF WithinLimit THEN processed + 1 ELSE processed
  /\ UNCHANGED <<params, received, epochMessageCount, activity, pool, tag, tagVars,
                 reason, exitVars, recoveryVars, brokerVars, feedVars>>

\* Whether a write that fails ends handleMessage (AgentBase.shouldStop).
WriteErrorStops == ~RecoveryEnabled \/ chan # "lost"

\* Without --multi-ack-every every message is acknowledged.
AckInterval == IF MultiAckEvery = 0 THEN 1 ELSE MultiAckEvery

\* The epoch's count decides which message is acknowledged.
AckDue == ~AutoAck /\ epochMessageCount % AckInterval = 0

\* ackIfNecessary, once the simulated latency is over: the ack is written...
AckIfNecessary(w) ==
  /\ MoveTo(w, "ack", IF AckDue /\ chan = "open" THEN "mark" ELSE "commit")
  /\ (AckDue /\ chan # "open") => ~WriteErrorStops
  /\ IF AckDue /\ chan = "open" THEN Ack(tag[w], MultiAckEvery # 0) ELSE UNCHANGED brokerVars
  /\ UNCHANGED <<params, tagVars, countVars, reason, pool, tag, exitVars, recoveryVars,
                 feedVars>>

\* ... and then remembered.
MarkAcked(w) ==
  /\ MoveTo(w, "mark", "commit")
  /\ lastAckedDeliveryTag' = tag[w]
  /\ UNCHANGED <<params, lastDeliveryTag, countVars, reason, pool, tag, exitVars,
                 recoveryVars, brokerVars, feedVars>>

\* Mutant: the transaction is one message too long.
CommitDueLate == TxSize # 0 /\ epochMessageCount % (TxSize + 1) = 0

\* commitTransactionIfNecessary reads the count again; then lastDeliveryTag.
CommitDue == TxSize # 0 /\ epochMessageCount % TxSize = 0

CommitIfNecessary(w) ==
  /\ MoveTo(w, "commit", "finish")
  /\ (CommitDue /\ chan # "open") => ~WriteErrorStops
  /\ IF CommitDue THEN TxCommit ELSE UNCHANGED brokerVars
  /\ lastDeliveryTag' = tag[w]
  /\ UNCHANGED <<params, lastAckedDeliveryTag, countVars, reason, pool, tag, exitVars,
                 recoveryVars, feedVars>>

\* A write on a closed channel throws out of handleMessage, into the client. A
\* commit that was waiting for its answer does whether there is recovery or not:
\* its IOException is not one dealWithWriteOperation swallows.
WriteError(w) ==
  /\ chan # "open"
  /\ (at[w] = "ack" /\ AckDue /\ WriteErrorStops) \/ (at[w] = "commit" /\ CommitDue)
  /\ at' = [at EXCEPT ![w] = "idle"]
  /\ UNCHANGED <<params, pool, tag, countVars, tagVars, reason, exitVars, recoveryVars,
                 brokerVars, feedVars>>

\* The end of handleMessage counts down at the limit.
Finish(w) ==
  /\ MoveTo(w, "finish", "idle")
  /\ IF MsgLimit # 0 /\ received >= MsgLimit THEN CountDown("limit") ELSE UNCHANGED reason
  /\ UNCHANGED <<params, pool, tag, countVars, tagVars, exitVars, recoveryVars,
                 brokerVars, feedVars>>

\* Mutant: the condition on the recovery is inverted.
HandleShutdownSignalInverted ==
  /\ chan # "open" /\ RecoveryEnabled /\ reason = "none"
  /\ CountDown("shutdown")
  /\ UNCHANGED <<params, countVars, tagVars, workVars, exitVars, recoveryVars, brokerVars,
                 feedVars>>

\* handleShutdownSignal: without recovery the consumer is done.
HandleShutdownSignal ==
  /\ chan # "open" /\ ~RecoveryEnabled /\ reason = "none"
  /\ CountDown("shutdown")
  /\ UNCHANGED <<params, countVars, tagVars, workVars, exitVars, recoveryVars, brokerVars,
                 feedVars>>

-----------------------------------------------------------------------------
(***************************************************************************)
(* The exit-when check (maybeStopIfNoActivityOrQueueEmpty), every second.  *)
(***************************************************************************)
\* More than a second has passed since the last message.
TimePasses ==
  /\ ExitWhen # "never" /\ activity = "fresh"
  /\ activity' = "idle"
  /\ UNCHANGED <<params, received, epochMessageCount, processed, tagVars, reason,
                 workVars, exitVars, recoveryVars, brokerVars, feedVars>>

\* The first check of a consumer that has received nothing starts its clock.
CheckFirst ==
  /\ ExitWhen # "never" /\ epc = "idle" /\ activity = "never"
  /\ activity' = "fresh"
  /\ UNCHANGED <<params, received, epochMessageCount, processed, tagVars, reason,
                 workVars, exitVars, recoveryVars, brokerVars, feedVars>>

\* The consumer is idle: look at its queues, if asked to. One that is empty is
\* enough.
CheckIdle ==
  /\ ExitWhen # "never" /\ epc = "idle" /\ activity = "idle"
  /\ exitChecks < MaxExitChecks
  /\ exitChecks' = exitChecks + 1
  /\ LET empty == chan = "open" /\ \E q \in Queues : ready[q] = 0
     IN epc' = IF ExitWhen = "idle" \/ empty THEN "look" ELSE "idle"
  /\ UNCHANGED <<params, seen, countVars, tagVars, reason, workVars, recoveryVars, brokerVars,
                 feedVars>>

\* maybeAckCommitBeforeExit compares the tags the worker writes, which it reads
\* one after the other...
ReadLastAcked ==
  /\ epc = "look" /\ epc' = "compare"
  /\ seen' = lastAckedDeliveryTag
  /\ UNCHANGED <<params, exitChecks, countVars, tagVars, reason, workVars, recoveryVars,
                 brokerVars, feedVars>>

ExitAckDue == ~AutoAck /\ seen < lastDeliveryTag

CompareLastDelivery ==
  /\ epc = "compare" /\ epc' = IF ExitAckDue THEN "read" ELSE "count"
  /\ UNCHANGED <<params, seen, exitChecks, countVars, tagVars, reason, workVars,
                 recoveryVars, brokerVars, feedVars>>

\* ... reads lastDeliveryTag again...
ReadLastDelivery ==
  /\ epc = "read" /\ epc' = "ack"
  /\ seen' = lastDeliveryTag
  /\ UNCHANGED <<params, exitChecks, countVars, tagVars, reason, workVars, recoveryVars,
                 brokerVars, feedVars>>

\* Mutant: the last messages are left unacknowledged.
AckNothingBeforeExit ==
  /\ epc = "ack" /\ epc' = IF TxSize # 0 THEN "commit" ELSE "count"
  /\ UNCHANGED <<params, seen, exitChecks, countVars, tagVars, reason, workVars,
                 recoveryVars, brokerVars, feedVars>>

\* ... and acknowledges what it has read; lastAckedDeliveryTag is left as it is.
\* A write that fails on a channel known to be closed ends the check, a broken
\* socket is logged or swallowed and there is no commit.
AckBeforeExit ==
  /\ epc = "ack"
  /\ IF chan = "open"
     THEN /\ epc' = IF TxSize # 0 THEN "commit" ELSE "count"
          /\ Ack(seen, TRUE)
     ELSE /\ epc' \in {"count"} \cup (IF WriteErrorStops THEN {"idle"} ELSE {})
          /\ UNCHANGED brokerVars
  /\ UNCHANGED <<params, seen, exitChecks, countVars, tagVars, reason, workVars,
                 recoveryVars, feedVars>>

CommitBeforeExit ==
  /\ epc = "commit"
  /\ epc' \in {"count"} \cup (IF chan # "open" /\ WriteErrorStops THEN {"idle"} ELSE {})
  /\ TxCommit
  /\ UNCHANGED <<params, seen, exitChecks, countVars, tagVars, reason, workVars,
                 recoveryVars, feedVars>>

CountDownExit ==
  /\ epc = "count" /\ epc' = "idle"
  /\ CountDown(ExitWhen)
  /\ UNCHANGED <<params, seen, exitChecks, countVars, tagVars, workVars, recoveryVars,
                 brokerVars, feedVars>>

-----------------------------------------------------------------------------
(***************************************************************************)
(* Failures and recovery. At most one earlier connection has deliveries    *)
(* left when a connection is lost.                                         *)
(***************************************************************************)
ConnectionLost ==
  /\ chan = "open" /\ failures < MaxFailures
  /\ pool["old"] = <<>> /\ at["old"] = "idle"
  /\ failures' = failures + 1
  /\ Close(IF RecoveryEnabled THEN "lost" ELSE "closed")
  /\ pool' = [pool EXCEPT !["cur"] = <<>>, !["old"] = pool["cur"]]
  /\ at' = [at EXCEPT !["cur"] = "idle", !["old"] = at["cur"]]
  /\ tag' = [tag EXCEPT !["cur"] = 0, !["old"] = tag["cur"]]
  /\ UNCHANGED <<params, rpc, offset, countVars, tagVars, reason, exitVars, feedVars>>

\* The client recovers the connection and the channel, then calls recover().
Reopen ==
  /\ chan = "lost" /\ rpc = "idle"
  /\ chan' = "open" /\ rpc' = "recover"
  /\ offset' = Len(origin)
  /\ UNCHANGED <<params, failures, subscribed, ready, unacked, txAcks, countVars, tagVars,
                 reason, workVars, exitVars, feedVars>>

\* Mutant: what is not acknowledged is carried over, with the operands swapped.
RecoverCarryOver ==
  /\ rpc = "recover" /\ rpc' = "consume"
  /\ epochMessageCount' = lastAckedDeliveryTag - received
  /\ UNCHANGED <<params, received, processed, activity, failures, offset, tagVars, reason,
                 workVars, exitVars, brokerVars, feedVars>>

\* recover() starts a new epoch...
RecoverResetEpoch ==
  /\ rpc = "recover" /\ rpc' = "consume"
  /\ epochMessageCount' = 0
  /\ UNCHANGED <<params, received, processed, activity, failures, offset, tagVars, reason,
                 workVars, exitVars, brokerVars, feedVars>>

\* ... and calls basicConsume again; its failure on a channel lost meanwhile is logged.
RecoverConsume ==
  /\ rpc = "consume" /\ rpc' = "idle"
  /\ subscribed' = (chan = "open")
  /\ UNCHANGED <<params, failures, offset, chan, ready, unacked, txAcks, countVars,
                 tagVars, reason, workVars, exitVars, feedVars>>

-----------------------------------------------------------------------------
Worker(w) ==
  HandleDelivery(w) \/ Process(w) \/ AckIfNecessary(w) \/ MarkAcked(w)
    \/ CommitIfNecessary(w) \/ WriteError(w) \/ Finish(w)

MaybeAckCommitBeforeExit ==
  ReadLastAcked \/ CompareLastDelivery \/ ReadLastDelivery \/ AckBeforeExit \/ CommitBeforeExit

ExitCheck == CheckFirst \/ CheckIdle \/ MaybeAckCommitBeforeExit \/ CountDownExit
RecoveryThread == Reopen \/ RecoverResetEpoch \/ RecoverConsume

\* Nothing is left to happen to a consumer with nothing to do.
Quiet ==
  /\ toPublish = 0 /\ \A w \in Workers : pool[w] = <<>> /\ at[w] = "idle"
  /\ UNCHANGED vars

Next ==
  \/ \E q \in Queues : Publish(q) \/ Deliver(q)
  \/ \E w \in Workers : Worker(w)
  \/ HandleShutdownSignal \/ TimePasses \/ ExitCheck
  \/ ConnectionLost \/ RecoveryThread \/ Quiet

Spec == Init /\ [][Next]_vars

(***************************************************************************)
(* Messages arrive and are delivered, workers run, the scheduler checks    *)
(* every second, a lost connection comes back.                             *)
(***************************************************************************)
Fairness ==
  /\ \A q \in QueueNames :
       WF_vars(q \in Queues /\ Publish(q)) /\ WF_vars(q \in Queues /\ Deliver(q))
  /\ \A w \in Workers : WF_vars(Worker(w))
  /\ WF_vars(HandleShutdownSignal) /\ WF_vars(TimePasses) /\ WF_vars(ExitCheck)
  /\ WF_vars(RecoveryThread)

FairSpec == Spec /\ Fairness

-----------------------------------------------------------------------------
(***************************************************************************)
(* Properties.                                                             *)
(***************************************************************************)

\* The types of the variables; the broker holds deliveries of the current
\* channel only.
TypeOK ==
  /\ params \in Options
  /\ {received, epochMessageCount, processed, lastDeliveryTag, lastAckedDeliveryTag, seen,
      exitChecks, failures, offset, toPublish} \subseteq Nat
  /\ activity \in {"never", "fresh", "idle"}
  /\ reason \in {"none", "limit", "idle", "empty", "shutdown"}
  /\ pool \in [Workers -> Seq(1..Len(origin))]
  /\ at \in [Workers -> {"idle", "received", "ack", "mark", "commit", "finish"}]
  /\ tag \in [Workers -> 0..Len(origin)]
  /\ epc \in {"idle", "look", "compare", "read", "ack", "commit", "count"}
  /\ chan \in {"open", "lost", "closed", "rejected"} /\ subscribed \in BOOLEAN
  /\ rpc \in {"idle", "recover", "consume"}
  /\ origin \in Seq(Queues) /\ ready \in [Queues -> Nat]
  /\ txAcks \subseteq unacked /\ unacked \subseteq (offset + 1)..Len(origin)

\* The prefetch window of a running consumer never fills up for good: with
\* everything delivered also handled, the broker may deliver one more message.
\* This is what the limit of --multi-ack-every to --qos is for.
AllHandled == \A w \in Workers : pool[w] = <<>> /\ at[w] = "idle"

NoStarvation ==
  (reason = "none" /\ chan = "open" /\ subscribed /\ AllHandled /\ Qos > 0)
    => Cardinality(unacked) < Qos

\* No more than --cmessages messages are processed, and when the limit is
\* reported as many have been received.
LimitHonoured ==
  MsgLimit > 0 => /\ processed <= MsgLimit
                  /\ reason = "limit" => received >= MsgLimit

\* No ack of a worker is refused by the broker, although the exit-when check
\* acknowledges deliveries of the same channel behind its back.
ValidAcks ==
  [][\A w \in Workers :
       (at[w] = "ack" /\ at'[w] # "ack") => (chan' = "rejected" => chan = "rejected")]_vars

\* The ack of the exit-when check is the last one: the check never sends it
\* twice.
AckOneLastTime == chan # "rejected"

\* maybeAckCommitBeforeExit leaves no message that had been handled when it last
\* read lastDeliveryTag unacknowledged or uncommitted behind, unless the worker is
\* between an ack and its commit or the channel is closed by then.
SettledBeforeExit ==
  [][(epc # "count" /\ epc' = "count" /\ chan' = "open"
        /\ at["cur"] \notin {"mark", "commit"})
       => \A t \in unacked' : t > IF epc = "compare" THEN lastDeliveryTag ELSE seen]_vars

\* A consumer with a limit, or with an exit condition, counts down in the end.
Completes ==
  ((MsgLimit > 0 /\ MaxMessages >= MsgLimit) \/ ExitWhen = "idle") => <>(reason # "none")
=============================================================================
