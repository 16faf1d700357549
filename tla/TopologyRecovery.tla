-------------------------- MODULE TopologyRecovery --------------------------
(***************************************************************************)
(* What becomes of a consumer's queue, of its binding and of the           *)
(* subscription to it when connections fail, queues are deleted and        *)
(* cluster nodes go down: TopologyRecording with the recovery half of      *)
(* Consumer. The recovery thread of the connection and the thread of the   *)
(* topology recovery executor ("task") both declare, bind and subscribe.   *)
(*                                                                         *)
(* Queue names are numbers: Original is the name the queue was recorded    *)
(* under, the broker generates the others. The exchange stays.             *)
(***************************************************************************)
EXTENDS Integers, Sequences, SequencesExt

CONSTANTS
  Options,      \* the kinds of queue and consumer
  MaxRetry,     \* maxRetry of a re-subscription
  MaxFailures,  \* bound: connection failures that nobody caused
  MaxDeletes    \* bound: deletions of a queue and failures of its node

\* What --queue, --auto-delete, --exclusive, --polling and several URIs decide.
QueueOptions ==
  [serverNamed : BOOLEAN, autoDelete : BOOLEAN, exclusive : BOOLEAN,
   cluster : BOOLEAN, polling : BOOLEAN]

ASSUME TopologyAssumption ==
  Options \subseteq QueueOptions /\ {MaxRetry, MaxFailures, MaxDeletes} \subseteq Nat

Original == 0
None == -1
Threads == {"recovery", "task"}

VARIABLES
  kind,        \* the options of this run
  exists,      \* the queues of the broker
  bound,       \* those with a binding
  available,   \* the node of the queue is up
  issued,      \* the last name the broker has generated
  conn,        \* the connection: "open" or "lost"
  chan,        \* the channel: "closed" after an error of its own, for good
  sub,         \* the queue the consumer tag is subscribed to
  name,        \* RecordedQueue.name
  at,          \* where each thread is
  target,      \* queueName in consumeOrScheduleConsume
  old,         \* the name of the queue before the thread re-declared it
  tasks,       \* what the executor is to run
  gaveUp,      \* for good: a "subscription", after too many retries, or a "binding", as
               \* the node of the queue was down
  queueNames,  \* Consumer.queueNames, of a polling consumer
  version,     \* queueNamesVersion
  poll,        \* where the polling loop is, the names and version it uses
  failures, deletes

brokerVars == <<exists, bound, available, issued>>
clientVars == <<conn, chan, sub>>
threadVars == <<at, target, old>>
pollVars == <<queueNames, version>>
boundVars == <<failures, deletes>>
vars == <<kind, brokerVars, clientVars, name, threadVars, tasks, gaveUp, pollVars, poll,
          boundVars>>

\* configureQueues has declared, bound and recorded the queue, run() subscribed.
Init ==
  /\ kind \in Options
  /\ exists = {Original} /\ bound = {Original} /\ available = TRUE /\ issued = Original
  /\ conn = "open" /\ chan = "open"
  /\ sub = (IF kind.polling THEN None ELSE Original)
  /\ name = Original
  /\ at = [t \in Threads |-> "idle"]
  /\ target = [t \in Threads |-> Original] /\ old = [t \in Threads |-> Original]
  /\ tasks = <<>> /\ gaveUp = {}
  /\ queueNames = Original /\ version = 0
  /\ poll = [at |-> "poll", queues |-> Original, version |-> 0]
  /\ failures = 0 /\ deletes = 0

\* How configureQueues declares the queue.
Durable == ~kind.exclusive

\* queueMayBeDown, for a classic queue.
QueueMayBeDown == kind.cluster /\ Durable

\* A passive declaration finds the queue.
Found(q) == q \in exists /\ available

CancelTask == [what |-> "cancel", queue |-> Original, retry |-> 0]
Resubscription(q, n) == [what |-> "resubscribe", queue |-> q, retry |-> n]

-----------------------------------------------------------------------------
(***************************************************************************)
(* The broker and the connection.                                          *)
(***************************************************************************)
\* The connection is gone, and with it the queues that live no longer than it.
Disconnect ==
  /\ conn' = "lost" /\ sub' = None
  /\ exists' = IF kind.exclusive THEN {}
               ELSE IF kind.autoDelete THEN exists \ {sub} ELSE exists
  /\ bound' = bound \cap exists'
  /\ UNCHANGED <<available, issued, chan>>

ConnectionLost ==
  /\ conn = "open" /\ failures < MaxFailures
  /\ failures' = failures + 1
  /\ Disconnect
  /\ UNCHANGED <<kind, name, threadVars, tasks, gaveUp, pollVars, poll, deletes>>

\* The broker cancels a consumer whose queue is gone; handleCancel looks the
\* name up the consumer started with, and schedules its re-subscription.
HandleCancel(q) ==
  IF sub = q /\ q # None THEN sub' = None /\ tasks' = Append(tasks, CancelTask)
             ELSE UNCHANGED <<sub, tasks>>

DeleteQueue(q) ==
  /\ ~kind.exclusive /\ conn = "open" /\ deletes < MaxDeletes
  /\ deletes' = deletes + 1
  /\ exists' = exists \ {q} /\ bound' = bound \ {q}
  /\ HandleCancel(q)
  /\ UNCHANGED <<kind, available, issued, conn, chan, name, threadVars, gaveUp, pollVars,
                 poll, failures>>

NodeDown ==
  /\ QueueMayBeDown /\ available /\ conn = "open" /\ deletes < MaxDeletes
  /\ deletes' = deletes + 1
  /\ available' = FALSE
  /\ HandleCancel(sub)
  /\ UNCHANGED <<kind, exists, bound, issued, conn, chan, name, threadVars, gaveUp, pollVars,
                 poll, failures>>

NodeUp ==
  /\ ~available /\ available' = TRUE
  /\ UNCHANGED <<kind, exists, bound, issued, clientVars, name, threadVars, tasks, gaveUp,
                 pollVars, poll, boundVars>>

\* The tag is in use: the broker closes the connection. The queue is not there:
\* it closes the channel.
BasicConsume(q) ==
  IF chan = "closed" THEN UNCHANGED <<brokerVars, clientVars>>
  ELSE IF sub # None THEN Disconnect
  ELSE /\ sub' = (IF Found(q) THEN q ELSE None)
       /\ chan' = (IF Found(q) THEN "open" ELSE "closed")
       /\ UNCHANGED <<brokerVars, conn>>

-----------------------------------------------------------------------------
(***************************************************************************)
(* TopologyRecording.                                                      *)
(***************************************************************************)
\* recoverQueue, under the lock of the queue: a server-named queue gets a new
\* name, unless it is of a sort that outlives its connection and is there. A
\* declaration that fails is logged.
RecoverQueue ==
  LET keep == Durable /\ kind.serverNamed /\ ~kind.autoDelete /\ ~kind.exclusive /\ Found(name)
      new == IF kind.serverNamed THEN issued + 1 ELSE name
  IN  IF keep \/ ~available THEN UNCHANGED <<brokerVars, name>>
      ELSE /\ name' = new /\ exists' = exists \cup {new}
           /\ issued' = IF kind.serverNamed THEN new ELSE issued
           /\ UNCHANGED <<bound, available>>

\* Mutant: the queue that is dropped is that of an exclusive consumer.
DropExclusive == kind.polling /\ kind.autoDelete /\ kind.serverNamed /\ kind.exclusive

\* The former queue of a polling consumer has nobody who would make it go away.
DropFormer == kind.polling /\ kind.autoDelete /\ kind.serverNamed /\ ~kind.exclusive

\* A binding that fails is logged and not tried again.
Bind(q) ==
  /\ bound' = IF Found(q) THEN bound \cup {q} ELSE bound
  /\ gaveUp' = IF available THEN gaveUp \ {"binding"} ELSE gaveUp \cup {"binding"}

Move(t, from, to) == at[t] = from /\ at' = [at EXCEPT ![t] = to]

\* The client has a new connection: handleRecovery calls TopologyRecording.recover.
Reopen ==
  /\ conn = "lost" /\ conn' = "open"
  /\ Move("recovery", "idle", "declare")
  /\ UNCHANGED <<kind, brokerVars, chan, sub, name, target, old, tasks, gaveUp, pollVars,
                 poll, boundVars>>

Declare ==
  /\ conn = "open" /\ Move("recovery", "declare", IF DropFormer THEN "drop" ELSE "bindings")
  /\ old' = [old EXCEPT !["recovery"] = name]
  /\ RecoverQueue
  /\ UNCHANGED <<kind, clientVars, target, tasks, gaveUp, pollVars, poll, boundVars>>

Drop ==
  /\ conn = "open" /\ Move("recovery", "drop", "bindings")
  /\ exists' = exists \ {old["recovery"]} /\ bound' = bound \ {old["recovery"]}
  /\ UNCHANGED <<kind, available, issued, clientVars, name, target, old, tasks, gaveUp,
                 pollVars, poll, boundVars>>

\* Mutant: the binding is for the name it was recorded with.
BindOriginal ==
  /\ conn = "open" /\ Move("recovery", "bindings", IF kind.polling THEN "names" ELSE "check")
  /\ Bind(Original)
  /\ target' = [target EXCEPT !["recovery"] = name]
  /\ UNCHANGED <<kind, exists, available, issued, clientVars, name, old, tasks, pollVars, poll,
                 boundVars>>

\* The bindings are for the name the queue has now; Consumer.recover follows.
Bindings ==
  /\ conn = "open" /\ Move("recovery", "bindings", IF kind.polling THEN "names" ELSE "check")
  /\ Bind(name)
  /\ target' = [target EXCEPT !["recovery"] = name]
  /\ UNCHANGED <<kind, exists, available, issued, clientVars, name, old, tasks, pollVars, poll,
                 boundVars>>

-----------------------------------------------------------------------------
(***************************************************************************)
(* consumeOrScheduleConsume, by either thread.                             *)
(***************************************************************************)
Check(t) ==
  /\ conn = "open" /\ Move(t, "check", IF Found(target[t]) THEN "consume" ELSE "former")
  /\ UNCHANGED <<kind, brokerVars, clientVars, name, target, old, tasks, gaveUp, pollVars,
                 poll, boundVars>>

\* recoverQueueAndBindings: the name the queue has, read without its lock, ...
FormerName(t) ==
  /\ conn = "open" /\ Move(t, "former", "recreate")
  /\ old' = [old EXCEPT ![t] = name]
  /\ UNCHANGED <<kind, brokerVars, clientVars, name, target, tasks, gaveUp, pollVars, poll,
                 boundVars>>

\* ... the queue, under its lock, ...
Recreate(t) ==
  /\ conn = "open" /\ Move(t, "recreate", "rebind")
  /\ RecoverQueue
  /\ UNCHANGED <<kind, clientVars, target, old, tasks, gaveUp, pollVars, poll, boundVars>>

\* Mutant: nothing is scheduled.
RebindOnly(t) ==
  /\ conn = "open" /\ Move(t, "rebind", IF QueueMayBeDown THEN "idle" ELSE "consume")
  /\ IF old[t] = Original THEN Bind(name) ELSE UNCHANGED <<bound, gaveUp>>
  /\ UNCHANGED <<kind, exists, available, issued, clientVars, name, target, old, tasks, pollVars,
                 poll, boundVars>>

\* ... and the bindings recorded for the name it had before.
Rebind(t) ==
  /\ conn = "open" /\ Move(t, "rebind", IF QueueMayBeDown THEN "idle" ELSE "consume")
  /\ IF old[t] = Original THEN Bind(name) ELSE UNCHANGED <<bound, gaveUp>>
  /\ tasks' = IF QueueMayBeDown THEN Append(tasks, Resubscription(target[t], 0)) ELSE tasks
  /\ UNCHANGED <<kind, exists, available, issued, clientVars, name, target, old, pollVars, poll,
                 boundVars>>

Consume(t) ==
  /\ conn = "open" /\ Move(t, "consume", "idle")
  /\ BasicConsume(IF QueueMayBeDown THEN target[t] ELSE name)
  /\ UNCHANGED <<kind, name, target, old, tasks, gaveUp, pollVars, poll, boundVars>>

\* A step on a lost connection throws: this is logged, a task is not scheduled
\* again. recoverQueueAndBindings keeps its exceptions to itself, so that the
\* re-subscription is scheduled; a polling consumer takes the names over.
Fail(t) ==
  /\ conn = "lost" /\ at[t] \notin {"idle", "names", "version"}
  /\ at' = [at EXCEPT ![t] = IF kind.polling THEN "names" ELSE "idle"]
  /\ tasks' = IF at[t] \in {"former", "recreate", "rebind"} /\ QueueMayBeDown
                THEN Append(tasks, Resubscription(target[t], 0)) ELSE tasks
  /\ UNCHANGED <<kind, brokerVars, clientVars, name, target, old, gaveUp, pollVars, poll,
                 boundVars>>

-----------------------------------------------------------------------------
(***************************************************************************)
(* The executor: the re-subscription after a cancellation, and the one     *)
(* that waits for a queue to come back.                                    *)
(***************************************************************************)
RunCancelTask(i) ==
  /\ tasks[i].what = "cancel"
  /\ Move("task", "idle", IF conn = "open" THEN "check" ELSE "idle")
  /\ target' = [target EXCEPT !["task"] = tasks[i].queue]
  /\ tasks' = RemoveAt(tasks, i)
  /\ UNCHANGED <<kind, brokerVars, clientVars, name, old, gaveUp, pollVars, poll, boundVars>>

\* Mutant: one retry too many.
RetryOnceMore(retry) == retry <= MaxRetry + 1

\* retryCount.incrementAndGet() <= maxRetry
MayRetry(retry) == retry <= MaxRetry

RunResubscription(i) ==
  /\ tasks[i].what = "resubscribe" /\ at["task"] = "idle"
  /\ LET again == conn = "open" /\ ~Found(tasks[i].queue)
         retry == tasks[i].retry + 1
     IN  /\ at' = [at EXCEPT !["task"] = IF conn = "open" /\ ~again THEN "consume" ELSE "idle"]
         /\ tasks' = IF again /\ MayRetry(retry)
                       THEN Append(RemoveAt(tasks, i), Resubscription(tasks[i].queue, retry))
                       ELSE RemoveAt(tasks, i)
         /\ gaveUp' = IF again /\ ~MayRetry(retry) THEN gaveUp \cup {"subscription"}
                                                 ELSE gaveUp
  /\ target' = [target EXCEPT !["task"] = tasks[i].queue]
  /\ UNCHANGED <<kind, brokerVars, clientVars, name, old, pollVars, poll, boundVars>>

-----------------------------------------------------------------------------
(***************************************************************************)
(* A polling consumer: recover() replaces the names, then their version;   *)
(* the loop of startBasicGetConsumer reads both again when the version is  *)
(* not the one it knows.                                                   *)
(***************************************************************************)
\* Mutant: the version comes before the names.
VersionFirst ==
  /\ Move("recovery", "names", "version")
  /\ version' = version + 1
  /\ UNCHANGED <<kind, brokerVars, clientVars, name, target, old, tasks, gaveUp, queueNames,
                 poll, boundVars>>

SetQueueNames ==
  /\ Move("recovery", "names", "version")
  /\ queueNames' = name
  /\ UNCHANGED <<kind, brokerVars, clientVars, name, target, old, tasks, gaveUp, version,
                 poll, boundVars>>

SetVersion ==
  /\ Move("recovery", "version", "idle")
  /\ version' = version + 1
  /\ UNCHANGED <<kind, brokerVars, clientVars, name, target, old, tasks, gaveUp, queueNames,
                 poll, boundVars>>

PollStep(from, to) ==
  /\ kind.polling /\ poll.at = from /\ poll' = to
  /\ UNCHANGED <<kind, brokerVars, clientVars, name, threadVars, tasks, gaveUp, pollVars,
                 boundVars>>

SeeVersion == poll.version # version /\ PollStep("poll", [poll EXCEPT !.at = "names"])
ReadNames == PollStep("names", [poll EXCEPT !.at = "version", !.queues = queueNames])
ReadVersion == PollStep("version", [poll EXCEPT !.at = "poll", !.version = version])

-----------------------------------------------------------------------------
Thread(t) == Check(t) \/ FormerName(t) \/ Recreate(t) \/ Rebind(t) \/ Consume(t) \/ Fail(t)
RecoveryThread ==
  Reopen \/ Declare \/ Drop \/ Bindings \/ SetQueueNames \/ SetVersion \/ Thread("recovery")
TaskThread ==
  Thread("task") \/ \E i \in DOMAIN tasks : RunCancelTask(i) \/ RunResubscription(i)
Poller == SeeVersion \/ ReadNames \/ ReadVersion

\* Nothing is under way.
Settled == conn = "open" /\ available /\ tasks = <<>> /\ \A t \in Threads : at[t] = "idle"
Quiet == Settled /\ UNCHANGED vars

Next ==
  \/ ConnectionLost \/ (\E q \in exists : DeleteQueue(q)) \/ NodeDown \/ NodeUp
  \/ RecoveryThread \/ TaskThread \/ Poller \/ Quiet

Spec == Init /\ [][Next]_vars

\* The connection and the node come back, threads and scheduled tasks run.
Fairness ==
  WF_vars(NodeUp) /\ WF_vars(RecoveryThread) /\ WF_vars(TaskThread) /\ WF_vars(Poller)

FairSpec == Spec /\ Fairness

-----------------------------------------------------------------------------
(***************************************************************************)
(* Properties.                                                             *)
(***************************************************************************)

\* The types of the variables; only queues that exist have bindings.
TypeOK ==
  /\ kind \in Options
  /\ issued \in Nat /\ exists \subseteq Original..issued /\ bound \subseteq exists
  /\ available \in BOOLEAN /\ gaveUp \subseteq {"subscription", "binding"}
  /\ conn \in {"open", "lost"} /\ chan \in {"open", "closed"}
  /\ sub \in exists \cup {None} /\ name \in Original..issued
  /\ at \in [Threads -> {"idle", "declare", "drop", "bindings", "check", "former", "recreate",
                         "rebind", "consume", "names", "version"}]
  /\ {target[t] : t \in Threads} \cup {old[t] : t \in Threads} \subseteq Original..issued
  /\ \A i \in DOMAIN tasks : tasks[i].retry \in 0..MaxRetry
  /\ version \in Nat /\ queueNames \in Original..issued

\* The consumer gets messages: once the recoveries are over, the queue it is
\* subscribed to has its binding, unless its node was down when it was bound.
Rebound == (Settled /\ sub # None /\ "binding" \notin gaveUp) => sub \in bound

\* The subscription comes back after every failure, deletion or cancellation,
\* although two threads may both try to make it, unless the queue goes away
\* just before it is subscribed to or stays away longer than the retries.
Resubscribes == kind.polling \/ <>[](sub # None \/ chan = "closed" \/ "subscription" \in gaveUp)

\* Server-named queues do not pile up when consumers poll, unless a recovery is
\* cut short by the next failure.
NoLeftoverQueues == (Settled /\ kind.polling /\ failures <= 1) => exists \subseteq {name}

\* After a recovery a polling consumer reads the queue under its new name; a
\* second recovery between its two reads would defeat it.
PollsNewName ==
  (kind.polling /\ failures = 1 /\ at["recovery"] = "idle")
    ~> (poll.queues = name \/ failures > 1)
=============================================================================
