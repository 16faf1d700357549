----------------------------- MODULE MCConsumer -----------------------------
(***************************************************************************)
(* The options Consumer is checked with.                                   *)
(***************************************************************************)
EXTENDS Consumer

CONSTANTS q1, q2

TwoQueues == {q1, q2}

Plain ==
  [queueNames |-> {q1}, autoAck |-> FALSE, multiAckEvery |-> 0, txSize |-> 0, qos |-> 2,
   msgLimit |-> 0, exitWhen |-> "never", recovery |-> FALSE]

\* Acks and commits every second message of two queues, the smallest window that
\* allows it, a limit that is no multiple of it.
Batched ==
  [Plain EXCEPT !.queueNames = TwoQueues, !.multiAckEvery = 2, !.txSize = 2,
                !.msgLimit = 3, !.exitWhen = "idle"]

\* One ack per message over recoveries.
Recovering == [Plain EXCEPT !.msgLimit = 4, !.recovery = TRUE]

\* A commit per message, which may be pending when a connection is lost.
Transacted == [Recovering EXCEPT !.txSize = 1, !.msgLimit = 2]

\* No acks and no window, over recoveries, until the queue is empty.
Automatic ==
  [Plain EXCEPT !.autoAck = TRUE, !.qos = 0, !.exitWhen = "empty", !.recovery = TRUE]

RunOptions == {Batched, Recovering, Transacted, Automatic}

DoubleAckOptions == {[Plain EXCEPT !.multiAckEvery = 2, !.qos = 3, !.exitWhen = "empty"]}
UncommittedOptions == {[Plain EXCEPT !.txSize = 3, !.qos = 3, !.exitWhen = "idle"]}
=============================================================================
