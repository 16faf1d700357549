--------------------------- MODULE TopologyProofs ---------------------------
(***************************************************************************)
(* Proofs about the recovery of a queue, its binding and its subscription, *)
(* for every kind of queue, any number of failures, deletions and retries. *)
(***************************************************************************)
EXTENDS TopologyRecovery, SequenceTheorems, TLAPS

-----------------------------------------------------------------------------
(***************************************************************************)
(* Types.                                                                  *)
(***************************************************************************)
\* What the executor may be asked to do, for names up to n.
Task(n) == [what : {"cancel", "resubscribe"}, queue : Original..n, retry : 0..MaxRetry]

BrokerTypes ==
  /\ kind \in Options
  /\ issued \in Nat /\ exists \subseteq Original..issued /\ bound \subseteq exists
  /\ available \in BOOLEAN
  /\ conn \in {"open", "lost"} /\ chan \in {"open", "closed"} /\ sub \in exists \cup {None}
  /\ failures \in Nat

NameTypes ==
  /\ name \in Original..issued /\ queueNames \in Original..issued /\ version \in Nat

ThreadTypes ==
  /\ at \in [Threads -> {"idle", "declare", "drop", "bindings", "check", "former", "recreate",
                         "rebind", "consume", "names", "version"}]
  /\ target \in [Threads -> Original..issued] /\ old \in [Threads -> Original..issued]
  /\ at["task"] \in {"idle", "check", "former", "recreate", "rebind", "consume"}
  /\ gaveUp \subseteq {"subscription", "binding"}

TaskTypes == tasks \in Seq(Task(issued))

\* A polling consumer has no subscription, so none to restore, and Drop takes no
\* queue away from a subscription.
NoSubscription ==
  kind.polling =>
    /\ sub = None /\ tasks = <<>> /\ at["task"] = "idle"
    /\ at["recovery"] \in {"idle", "declare", "drop", "bindings", "names", "version"}

\* TypeOK, with what it needs to be inductive.
TypeInv ==
  /\ BrokerTypes /\ NameTypes /\ ThreadTypes /\ TaskTypes /\ NoSubscription
  /\ at["recovery"] = "drop" => DropFormer

LEMMA KindTypes ==
  ASSUME kind \in Options
  PROVE  /\ kind.serverNamed \in BOOLEAN /\ kind.autoDelete \in BOOLEAN
         /\ kind.exclusive \in BOOLEAN /\ kind.cluster \in BOOLEAN /\ kind.polling \in BOOLEAN
BY TopologyAssumption DEF QueueOptions

\* A sequence over a set is one over every larger set.
LEMMA WiderSeq ==
  ASSUME NEW A, NEW B, A \subseteq B, NEW s \in Seq(A)
  PROVE  s \in Seq(B)
OBVIOUS

LEMMA WiderTasks ==
  ASSUME NEW n \in Nat, NEW m \in Nat, n <= m, NEW s \in Seq(Task(n))
  PROVE  s \in Seq(Task(m))
<1>1. Original..n \subseteq Original..m
  BY DEF Original
<1>2. Task(n) \subseteq Task(m)
  BY <1>1 DEF Task
<1> QED BY <1>2, WiderSeq

\* What is left of a sequence without one of its elements.
LEMMA RemoveAtType ==
  ASSUME NEW S, NEW s \in Seq(S), NEW i \in DOMAIN s
  PROVE  RemoveAt(s, i) \in Seq(S)
<1>1. i \in 1..Len(s) /\ Len(s) \in Nat
  OBVIOUS
<1>2. SubSeq(s, 1, i - 1) \in Seq(S) /\ SubSeq(s, i + 1, Len(s)) \in Seq(S)
  BY <1>1
<1> QED BY <1>2 DEF RemoveAt

LEMMA TypeInvTypeOK == TypeInv => TypeOK
<1> SUFFICES ASSUME TypeInv PROVE TypeOK
  OBVIOUS
<1>1. {target[t] : t \in Threads} \cup {old[t] : t \in Threads} \subseteq Original..issued
  BY DEF TypeInv, ThreadTypes
<1>2. \A i \in DOMAIN tasks : tasks[i].retry \in 0..MaxRetry
  <2>1. \A i \in DOMAIN tasks : tasks[i] \in Task(issued)
    BY DEF TypeInv, TaskTypes
  <2> QED BY <2>1 DEF Task
<1> QED BY <1>1, <1>2, Zenon DEF TypeInv, TypeOK, BrokerTypes, NameTypes, ThreadTypes

LEMMA InitTypeInv == Init => TypeInv
<1> SUFFICES ASSUME Init PROVE TypeInv
  OBVIOUS
<1>1. kind \in Options /\ kind.polling \in BOOLEAN
  BY KindTypes DEF Init
<1>2. BrokerTypes
  BY <1>1 DEF Init, BrokerTypes, Original, None
<1>3. NameTypes
  BY DEF Init, NameTypes, Original
<1>4. ThreadTypes
  BY DEF Init, ThreadTypes, Threads, Original
<1>5. TaskTypes
  BY DEF Init, TaskTypes
<1>6. NoSubscription /\ at["recovery"] = "idle"
  BY <1>1 DEF Init, NoSubscription, Threads
<1> QED BY <1>2, <1>3, <1>4, <1>5, <1>6 DEF TypeInv

\* The kind of queue never changes.
LEMMA SameKind ==
  [Next]_vars => /\ kind' = kind /\ QueueMayBeDown' = QueueMayBeDown
                 /\ DropFormer' = DropFormer
<1>1. [Next]_vars => kind' = kind
  BY DEF Next, vars, ConnectionLost, DeleteQueue, NodeDown, NodeUp, RecoveryThread, Reopen,
         Declare, Drop, Bindings, SetQueueNames, SetVersion, Thread, Check, FormerName, Recreate,
         Rebind, Consume, Fail, TaskThread, RunCancelTask, RunResubscription, Poller, SeeVersion,
         ReadNames, ReadVersion, PollStep, Quiet
<1> QED BY <1>1 DEF QueueMayBeDown, Durable, DropFormer

\* Each part of the types depends on its own variables, and on the names issued.
LEMMA SameTypes ==
  ASSUME issued \in Nat, issued' \in Nat, issued <= issued'
  PROVE  /\ NameTypes /\ UNCHANGED <<name, queueNames, version>> => NameTypes'
         /\ ThreadTypes /\ UNCHANGED <<at, target, old, gaveUp>> => ThreadTypes'
         /\ TaskTypes /\ UNCHANGED tasks => TaskTypes'
<1>1. Original..issued \subseteq Original..issued'
  BY DEF Original
<1>2. NameTypes /\ UNCHANGED <<name, queueNames, version>> => NameTypes'
  BY <1>1 DEF NameTypes
<1>3. ThreadTypes /\ UNCHANGED <<at, target, old, gaveUp>> => ThreadTypes'
  BY <1>1 DEF ThreadTypes
<1>4. TaskTypes /\ UNCHANGED tasks => TaskTypes'
  BY WiderTasks DEF TaskTypes
<1> QED BY <1>2, <1>3, <1>4

\* The loss of a connection takes queues away and the subscription.
LEMMA DisconnectEffect ==
  ASSUME BrokerTypes, Disconnect
  PROVE  /\ conn' = "lost" /\ sub' = None /\ UNCHANGED <<available, issued, chan>>
         /\ exists' \subseteq exists /\ bound' = bound \cap exists'
         /\ kind.exclusive => exists' = {}
<1>1. exists' \subseteq exists
  BY DEF Disconnect
<1> QED BY <1>1 DEF Disconnect

\* The declaration of the queue adds one, under a new name or the one it has.
LEMMA RecoverQueueEffect ==
  ASSUME BrokerTypes, NameTypes, RecoverQueue
  PROVE  /\ issued' \in Nat /\ issued <= issued' /\ name' \in Original..issued'
         /\ exists \subseteq exists' /\ exists' \subseteq Original..issued'
         /\ exists' \subseteq exists \cup {name'}
         /\ UNCHANGED <<bound, available>>
         /\ ~kind.serverNamed => UNCHANGED <<name, issued>>
         /\ name' = name \/ name' \in exists'
<1> USE DEF BrokerTypes, NameTypes, Original
<1>1. CASE UNCHANGED <<brokerVars, name>>
  BY <1>1 DEF brokerVars
<1>2. CASE ~UNCHANGED <<brokerVars, name>>
  <2> DEFINE new == IF kind.serverNamed THEN issued + 1 ELSE name
  <2>1. /\ name' = new /\ exists' = exists \cup {new}
        /\ issued' = IF kind.serverNamed THEN new ELSE issued
        /\ UNCHANGED <<bound, available>>
    BY <1>2 DEF RecoverQueue
  <2> QED BY <2>1
<1> QED BY <1>1, <1>2

\* The cancellation of the consumer ends its subscription and schedules a new one.
LEMMA HandleCancelTypes ==
  ASSUME TypeInv, NEW q, HandleCancel(q), issued' = issued
  PROVE  /\ TaskTypes' /\ sub' \in {sub, None} /\ (sub = q => sub' = None)
         /\ sub = None => UNCHANGED <<sub, tasks>>
<1>1. CancelTask \in Task(issued)
  BY TopologyAssumption DEF CancelTask, Task, TypeInv, BrokerTypes, Original
<1>2. tasks \in Seq(Task(issued))
  BY DEF TypeInv, TaskTypes
<1>3. CASE sub = q /\ q # None
  <2>1. Append(tasks, CancelTask) \in Seq(Task(issued))
    BY <1>1, <1>2
  <2> QED BY <1>3, <2>1 DEF HandleCancel, TaskTypes
<1>4. CASE ~(sub = q /\ q # None)
  BY <1>2, <1>4 DEF HandleCancel, TaskTypes
<1> QED BY <1>3, <1>4

\* Failures of the connection, the queue and its node keep the types.
LEMMA FailureTypeInv ==
  ASSUME TypeInv,
         ConnectionLost \/ (\E q \in exists : DeleteQueue(q)) \/ NodeDown \/ NodeUp
  PROVE  TypeInv'
<1>1. /\ BrokerTypes /\ NameTypes /\ ThreadTypes /\ TaskTypes /\ NoSubscription
      /\ issued \in Nat /\ issued <= issued
  BY DEF TypeInv, BrokerTypes
<1>2. CASE ConnectionLost
  <2>1. /\ conn' = "lost" /\ sub' = None /\ exists' \subseteq exists /\ bound' = bound \cap exists'
        /\ UNCHANGED <<available, issued, chan>>
    BY <1>1, <1>2, DisconnectEffect DEF ConnectionLost
  <2>2. /\ failures' = failures + 1
        /\ UNCHANGED <<kind, at, target, old, gaveUp, tasks, name, queueNames, version>>
    BY <1>2 DEF ConnectionLost, threadVars, pollVars
  <2>3. BrokerTypes'
    BY <1>1, <2>1, <2>2 DEF BrokerTypes
  <2> QED BY <1>1, <2>1, <2>2, <2>3, SameTypes DEF TypeInv, NoSubscription, DropFormer
<1>3. ASSUME NEW q \in exists, DeleteQueue(q) PROVE TypeInv'
  <2>1. /\ exists' = exists \ {q} /\ bound' = bound \ {q} /\ HandleCancel(q)
        /\ UNCHANGED <<kind, issued, available, conn, chan, at, target, old, gaveUp, name,
                       queueNames, version, failures>>
    BY <1>3 DEF DeleteQueue, threadVars, pollVars
  <2>2. /\ TaskTypes' /\ sub' \in {sub, None} /\ (sub = q => sub' = None)
        /\ sub = None => UNCHANGED <<sub, tasks>>
    BY <2>1, HandleCancelTypes
  <2>3. BrokerTypes'
    BY <1>1, <2>1, <2>2 DEF BrokerTypes
  <2> QED BY <1>1, <2>1, <2>2, <2>3, SameTypes DEF TypeInv, NoSubscription, DropFormer
<1>4. CASE NodeDown
  <2>1. /\ available' = FALSE /\ HandleCancel(sub)
        /\ UNCHANGED <<kind, issued, exists, bound, conn, chan, at, target, old, gaveUp, name,
                       queueNames, version, failures>>
    BY <1>4 DEF NodeDown, threadVars, pollVars
  <2>2. /\ TaskTypes' /\ sub' \in {sub, None}
        /\ sub = None => UNCHANGED <<sub, tasks>>
    BY <2>1, HandleCancelTypes
  <2>3. BrokerTypes'
    BY <1>1, <2>1, <2>2 DEF BrokerTypes
  <2> QED BY <1>1, <2>1, <2>2, <2>3, SameTypes DEF TypeInv, NoSubscription, DropFormer
<1>5. CASE NodeUp
  <2>1. /\ available' = TRUE
        /\ UNCHANGED <<kind, issued, exists, bound, conn, chan, sub, at, target, old, gaveUp, name,
                       queueNames, version, tasks, failures>>
    BY <1>5 DEF NodeUp, threadVars, pollVars, clientVars, boundVars
  <2>2. BrokerTypes'
    BY <1>1, <2>1 DEF BrokerTypes
  <2> QED BY <1>1, <2>1, <2>2, SameTypes DEF TypeInv, NoSubscription, DropFormer
<1> QED BY <1>2, <1>3, <1>4, <1>5

\* Recovery by the recovery thread keeps the types.
LEMMA RecoveryTypeInv ==
  ASSUME TypeInv, Reopen \/ Declare \/ Drop \/ Bindings \/ SetQueueNames \/ SetVersion
  PROVE  TypeInv'
<1>1. /\ BrokerTypes /\ NameTypes /\ ThreadTypes /\ TaskTypes /\ NoSubscription
      /\ issued \in Nat /\ issued <= issued /\ (at["recovery"] = "drop" => DropFormer)
      /\ kind.polling \in BOOLEAN
  BY KindTypes DEF TypeInv, BrokerTypes
<1>2. CASE Reopen
  <2>1. /\ conn' = "open" /\ at' = [at EXCEPT !["recovery"] = "declare"]
        /\ UNCHANGED <<kind, issued, exists, bound, available, chan, sub, target, old, gaveUp,
                       name, queueNames, version, tasks, failures>>
    BY <1>2 DEF Reopen, Move, brokerVars, pollVars, boundVars
  <2>2. BrokerTypes'
    BY <1>1, <2>1 DEF BrokerTypes
  <2>3. ThreadTypes' /\ NoSubscription' /\ at'["recovery"] = "declare"
    BY <1>1, <2>1 DEF ThreadTypes, NoSubscription, Threads
  <2> QED BY <1>1, <2>1, <2>2, <2>3, SameTypes DEF TypeInv
<1>3. CASE Declare
  <2>1. /\ RecoverQueue /\ old' = [old EXCEPT !["recovery"] = name]
        /\ at' = [at EXCEPT !["recovery"] = IF DropFormer THEN "drop" ELSE "bindings"]
        /\ UNCHANGED <<kind, conn, chan, sub, target, gaveUp, queueNames, version, tasks, failures>>
    BY <1>3 DEF Declare, Move, clientVars, pollVars, boundVars
  <2>2. /\ issued' \in Nat /\ issued <= issued' /\ name' \in Original..issued'
        /\ exists \subseteq exists' /\ exists' \subseteq Original..issued'
        /\ UNCHANGED <<bound, available>>
    BY <1>1, <2>1, RecoverQueueEffect
  <2>3. BrokerTypes'
    BY <1>1, <2>1, <2>2 DEF BrokerTypes
  <2>4. Original..issued \subseteq Original..issued'
    BY <1>1, <2>2 DEF Original
  <2>5. NameTypes'
    BY <1>1, <2>1, <2>2, <2>4 DEF NameTypes
  <2>6. ThreadTypes' /\ NoSubscription' /\ (at'["recovery"] = "drop" => DropFormer)
    BY <1>1, <2>1, <2>4 DEF ThreadTypes, NoSubscription, Threads, NameTypes
  <2>7. DropFormer' = DropFormer
    BY <2>1 DEF DropFormer
  <2> QED BY <1>1, <2>1, <2>2, <2>3, <2>5, <2>6, <2>7, SameTypes DEF TypeInv
<1>4. CASE Drop
  <2>1. /\ exists' = exists \ {old["recovery"]} /\ bound' = bound \ {old["recovery"]}
        /\ at["recovery"] = "drop" /\ at' = [at EXCEPT !["recovery"] = "bindings"]
        /\ UNCHANGED <<kind, issued, available, conn, chan, sub, target, old, gaveUp, name,
                       queueNames, version, tasks, failures>>
    BY <1>4 DEF Drop, Move, clientVars, pollVars, boundVars
  <2>2. sub = None
    BY <1>1, <2>1 DEF DropFormer, NoSubscription
  <2>3. BrokerTypes'
    BY <1>1, <2>1, <2>2 DEF BrokerTypes
  <2>4. ThreadTypes' /\ NoSubscription' /\ at'["recovery"] = "bindings"
    BY <1>1, <2>1 DEF ThreadTypes, NoSubscription, Threads
  <2> QED BY <1>1, <2>1, <2>3, <2>4, SameTypes DEF TypeInv
<1>5. CASE Bindings
  <2>1. /\ Bind(name) /\ target' = [target EXCEPT !["recovery"] = name]
        /\ at' = [at EXCEPT !["recovery"] = IF kind.polling THEN "names" ELSE "check"]
        /\ UNCHANGED <<kind, issued, exists, available, conn, chan, sub, old, name,
                       queueNames, version, tasks, failures>>
    BY <1>5 DEF Bindings, Move, clientVars, pollVars, boundVars
  <2>2. BrokerTypes'
    BY <1>1, <2>1 DEF BrokerTypes, Bind, Found
  <2>3. gaveUp' \subseteq {"subscription", "binding"}
    BY <1>1, <2>1 DEF Bind, ThreadTypes
  <2>4. ThreadTypes' /\ NoSubscription' /\ at'["recovery"] # "drop"
    BY <1>1, <2>1, <2>3 DEF ThreadTypes, NoSubscription, Threads, NameTypes
  <2> QED BY <1>1, <2>1, <2>2, <2>4, SameTypes DEF TypeInv
<1>6. CASE SetQueueNames \/ SetVersion
  <2>1. /\ at' = [at EXCEPT !["recovery"] = IF SetQueueNames THEN "version" ELSE "idle"]
        /\ UNCHANGED <<kind, issued, exists, bound, available, conn, chan, sub, old, target, name,
                       gaveUp, tasks, failures>>
    BY <1>1, <1>6 DEF SetQueueNames, SetVersion, Move, brokerVars, clientVars, boundVars
  <2>2. BrokerTypes'
    BY <1>1, <2>1 DEF BrokerTypes
  <2>3. NameTypes'
    BY <1>1, <1>6, <2>1 DEF NameTypes, SetQueueNames, SetVersion
  <2>4. ThreadTypes' /\ NoSubscription' /\ at'["recovery"] # "drop"
    BY <1>1, <2>1 DEF ThreadTypes, NoSubscription, Threads
  <2> QED BY <1>1, <2>1, <2>2, <2>3, <2>4, SameTypes DEF TypeInv
<1> QED BY <1>2, <1>3, <1>4, <1>5, <1>6

\* So do the steps of either thread that restore the subscription.
LEMMA ThreadTypeInv ==
  ASSUME TypeInv, NEW t \in Threads, Thread(t)
  PROVE  TypeInv'
<1>1. /\ BrokerTypes /\ NameTypes /\ ThreadTypes /\ TaskTypes /\ NoSubscription
      /\ issued \in Nat /\ issued <= issued /\ (at["recovery"] = "drop" => DropFormer)
      /\ kind.polling \in BOOLEAN /\ t \in {"recovery", "task"}
      /\ at \in [{"recovery", "task"} -> {"idle", "declare", "drop", "bindings", "check",
                         "former", "recreate", "rebind", "consume", "names", "version"}]
  BY KindTypes DEF TypeInv, BrokerTypes, Threads, ThreadTypes
<1>2. ASSUME NEW n \in {0}
      PROVE  Append(tasks, Resubscription(target[t], n)) \in Seq(Task(issued))
  <2>1. target[t] \in Original..issued
    BY <1>1 DEF ThreadTypes
  <2>2. Resubscription(target[t], n) \in Task(issued)
    BY <2>1, TopologyAssumption DEF Resubscription, Task
  <2> QED BY <1>1, <2>2 DEF TaskTypes
<1>3. CASE Check(t) \/ FormerName(t) \/ Recreate(t) \/ Rebind(t) \/ Consume(t)
  <2>1. /\ ~kind.polling /\ at[t] \in {"check", "former", "recreate", "rebind", "consume"}
        /\ at' = [at EXCEPT ![t] = at'[t]]
        /\ at'[t] \in {"idle", "former", "recreate", "rebind", "consume"}
        /\ kind' = kind /\ target' = target /\ UNCHANGED <<queueNames, version, failures>>
    BY <1>1, <1>3 DEF Check, FormerName, Recreate, Rebind, Consume, Move, NoSubscription,
                          pollVars, boundVars
  <2>2. /\ at' \in [Threads -> {"idle", "declare", "drop", "bindings", "check", "former",
                                 "recreate", "rebind", "consume", "names", "version"}]
        /\ at'["task"] \in {"idle", "check", "former", "recreate", "rebind", "consume"}
        /\ at'["recovery"] = "drop" => at["recovery"] = "drop"
    BY <1>1, <2>1 DEF ThreadTypes, Threads
  <2>3. NoSubscription' /\ DropFormer' = DropFormer
    BY <2>1 DEF NoSubscription, DropFormer
  <2>4. CASE Check(t) \/ FormerName(t)
    <3>1. /\ UNCHANGED <<issued, exists, bound, available, conn, chan, sub, name, gaveUp, tasks>>
          /\ old' = old \/ old' = [old EXCEPT ![t] = name]
      BY <2>4 DEF Check, FormerName, brokerVars, clientVars
    <3>2. BrokerTypes'
      BY <1>1, <2>1, <3>1 DEF BrokerTypes
    <3>3. ThreadTypes'
      BY <1>1, <2>1, <2>2, <3>1 DEF ThreadTypes, NameTypes
    <3> QED BY <1>1, <2>1, <2>2, <2>3, <3>1, <3>2, <3>3, SameTypes DEF TypeInv
  <2>5. CASE Recreate(t)
    <3>1. RecoverQueue /\ UNCHANGED <<conn, chan, sub, old, gaveUp, tasks>>
      BY <2>5 DEF Recreate, clientVars
    <3>2. /\ issued' \in Nat /\ issued <= issued' /\ name' \in Original..issued'
          /\ exists \subseteq exists' /\ exists' \subseteq Original..issued'
          /\ UNCHANGED <<bound, available>>
      BY <1>1, <3>1, RecoverQueueEffect
    <3>3. BrokerTypes'
      BY <1>1, <2>1, <3>1, <3>2 DEF BrokerTypes
    <3>4. Original..issued \subseteq Original..issued'
      BY <1>1, <3>2 DEF Original
    <3>5. NameTypes'
      BY <1>1, <2>1, <3>2, <3>4 DEF NameTypes
    <3>6. ThreadTypes'
      BY <1>1, <2>1, <2>2, <3>1, <3>4 DEF ThreadTypes
    <3> QED BY <1>1, <2>1, <2>2, <2>3, <3>1, <3>2, <3>3, <3>5, <3>6, SameTypes DEF TypeInv
  <2>6. CASE Rebind(t)
    <3>1. /\ UNCHANGED <<issued, exists, available, conn, chan, sub, name, old>>
          /\ Bind(name) \/ UNCHANGED <<bound, gaveUp>>
          /\ tasks' = tasks \/ tasks' = Append(tasks, Resubscription(target[t], 0))
      BY <2>6 DEF Rebind, clientVars
    <3>2. BrokerTypes' /\ gaveUp' \subseteq {"subscription", "binding"}
      BY <1>1, <2>1, <3>1 DEF BrokerTypes, Bind, Found, ThreadTypes
    <3>3. ThreadTypes'
      BY <1>1, <2>1, <2>2, <3>1, <3>2 DEF ThreadTypes
    <3>4. TaskTypes'
      BY <1>1, <1>2, <3>1 DEF TaskTypes
    <3> QED BY <1>1, <2>1, <2>2, <2>3, <3>1, <3>2, <3>3, <3>4, SameTypes DEF TypeInv
  <2>7. CASE Consume(t)
    <3>1. UNCHANGED <<name, old, gaveUp, tasks>> /\ \E q : BasicConsume(q)
      BY <2>7 DEF Consume
    <3>2. BrokerTypes' /\ issued' = issued
      <4>1. CASE Disconnect
        BY <1>1, <2>1, <4>1, DisconnectEffect DEF BrokerTypes
      <4>2. CASE ~Disconnect
        BY <1>1, <2>1, <3>1, <4>2 DEF BrokerTypes, BasicConsume, Found, brokerVars, clientVars
      <4> QED BY <4>1, <4>2
    <3>3. ThreadTypes'
      BY <1>1, <2>1, <2>2, <3>1, <3>2 DEF ThreadTypes
    <3> QED BY <1>1, <2>1, <2>2, <2>3, <3>1, <3>2, <3>3, SameTypes DEF TypeInv
  <2> QED BY <1>3, <2>4, <2>5, <2>6, <2>7
<1>4. CASE Fail(t)
  <2>1. /\ UNCHANGED <<kind, issued, exists, bound, available, conn, chan, sub, name, target, old,
                       gaveUp, queueNames, version, failures>>
        /\ at[t] # "idle" /\ at' = [at EXCEPT ![t] = IF kind.polling THEN "names" ELSE "idle"]
        /\ tasks' = tasks \/ tasks' = Append(tasks, Resubscription(target[t], 0))
        /\ at[t] \notin {"former", "recreate", "rebind"} => tasks' = tasks
    BY <1>4 DEF Fail, brokerVars, clientVars, pollVars, boundVars
  <2>2. BrokerTypes'
    BY <1>1, <2>1 DEF BrokerTypes
  <2>3. ThreadTypes' /\ NoSubscription' /\ (at'["recovery"] = "drop" => at["recovery"] = "drop")
    BY <1>1, <2>1 DEF ThreadTypes, NoSubscription, Threads
  <2>4. TaskTypes' /\ DropFormer' = DropFormer
    BY <1>1, <1>2, <2>1 DEF TaskTypes, DropFormer
  <2> QED BY <1>1, <2>1, <2>2, <2>3, <2>4, SameTypes DEF TypeInv
<1> QED BY <1>3, <1>4 DEF Thread

\* So do the tasks of the executor.
LEMMA TaskTypeInv ==
  ASSUME TypeInv, NEW i \in DOMAIN tasks, RunCancelTask(i) \/ RunResubscription(i)
  PROVE  TypeInv'
<1>1. /\ BrokerTypes /\ NameTypes /\ ThreadTypes /\ TaskTypes /\ NoSubscription
      /\ issued \in Nat /\ issued <= issued /\ (at["recovery"] = "drop" => DropFormer)
  BY DEF TypeInv, BrokerTypes
<1>2. tasks \in Seq(Task(issued)) /\ tasks[i] \in Task(issued)
  BY <1>1 DEF TaskTypes
<1>3. RemoveAt(tasks, i) \in Seq(Task(issued)) /\ tasks # <<>>
  BY <1>2, RemoveAtType
<1>4. tasks[i].queue \in Original..issued /\ tasks[i].retry \in 0..MaxRetry
  BY <1>2 DEF Task
<1>5. /\ UNCHANGED <<kind, issued, exists, bound, available, conn, chan, sub, name, old,
                     queueNames, version, failures>>
      /\ at' = [at EXCEPT !["task"] = at'["task"]]
      /\ at'["task"] \in {"idle", "check", "consume"}
      /\ target' = [target EXCEPT !["task"] = tasks[i].queue]
      /\ gaveUp' \subseteq gaveUp \cup {"subscription"}
  BY <1>1 DEF RunCancelTask, RunResubscription, Move, brokerVars, clientVars, pollVars, boundVars,
              ThreadTypes, Threads
<1>6. TaskTypes'
  <2>1. CASE tasks' = RemoveAt(tasks, i)
    BY <1>3, <1>5, <2>1 DEF TaskTypes
  <2>2. CASE tasks' # RemoveAt(tasks, i)
    <3> DEFINE retry == tasks[i].retry + 1
    <3>1. /\ MayRetry(retry)
          /\ tasks' = Append(RemoveAt(tasks, i), Resubscription(tasks[i].queue, retry))
      BY <2>2 DEF RunCancelTask, RunResubscription
    <3>2. retry \in 0..MaxRetry
      BY <1>4, <3>1, TopologyAssumption DEF MayRetry
    <3>3. Resubscription(tasks[i].queue, retry) \in Task(issued)
      BY <1>4, <3>2 DEF Resubscription, Task
    <3> HIDE DEF retry
    <3>4. tasks' \in Seq(Task(issued))
      BY <1>3, <3>1, <3>3
    <3> QED BY <1>5, <3>4 DEF TaskTypes
  <2> QED BY <2>1, <2>2
<1>7. BrokerTypes'
  BY <1>1, <1>5 DEF BrokerTypes
<1>8. ThreadTypes' /\ at'["recovery"] = at["recovery"]
  BY <1>1, <1>4, <1>5 DEF ThreadTypes, Threads
<1>9. NoSubscription'
  BY <1>1, <1>3, <1>5 DEF NoSubscription
<1> QED BY <1>1, <1>5, <1>6, <1>7, <1>8, <1>9, SameTypes DEF TypeInv, DropFormer

LEMMA StepTypeInv == TypeInv /\ [Next]_vars => TypeInv'
<1> SUFFICES ASSUME TypeInv, [Next]_vars PROVE TypeInv'
  OBVIOUS
<1>1. CASE Poller \/ UNCHANGED vars
  <2>1. UNCHANGED <<kind, issued, exists, bound, available, conn, chan, sub, name, target, old, at,
                    gaveUp, queueNames, version, tasks, failures>>
    BY <1>1 DEF Poller, SeeVersion, ReadNames, ReadVersion, PollStep, vars, brokerVars, clientVars,
                threadVars, pollVars, boundVars
  <2>2. issued \in Nat /\ issued <= issued
    BY DEF TypeInv, BrokerTypes
  <2>3. BrokerTypes' /\ NoSubscription' /\ (at'["recovery"] = "drop" => DropFormer')
    BY <2>1 DEF TypeInv, BrokerTypes, NoSubscription, DropFormer
  <2> QED BY <2>1, <2>2, <2>3, SameTypes DEF TypeInv
<1> QED BY <1>1, FailureTypeInv, RecoveryTypeInv, ThreadTypeInv, TaskTypeInv
        DEF Next, RecoveryThread, TaskThread, Quiet, Threads

\* The inductive invariant of the types, for every kind of queue.
THEOREM TypeInvariance == Spec => []TypeInv
BY InitTypeInv, StepTypeInv, PTL DEF Spec

\* What a run checks of it: the subscription is to a queue that exists, only
\* queues that exist have bindings, and a re-subscription is not retried more
\* often than it may be.
THEOREM TypeCorrect == Spec => []TypeOK
BY TypeInvTypeOK, TypeInvariance, PTL

-----------------------------------------------------------------------------
(***************************************************************************)
(* The binding of a queue that keeps its name.                             *)
(***************************************************************************)
\* The queue is there without its binding, which has not been given up.
Unbound == Original \in exists \ bound /\ "binding" \notin gaveUp

\* A thread is going to bind it, or a connection has to be recovered first.
BindingToCome ==
  \/ conn = "lost" \/ at["recovery"] \in {"declare", "bindings", "rebind"}
  \/ at["task"] = "rebind"

\* No name is ever generated for a queue with a name, and it is without its
\* binding only as long as a thread is going to bind it.
NamedInv == ~kind.serverNamed => issued = Original /\ (Unbound => BindingToCome)

LEMMA InitNamedInv == Init => NamedInv
BY DEF Init, NamedInv, Unbound

\* A queue that is bound is not without its binding, unless that is given up.
LEMMA BindEffect ==
  ASSUME BrokerTypes, Bind(Original), exists' = exists
  PROVE  ~Unbound'
<1>1. CASE available
  BY <1>1 DEF Bind, Found, Unbound
<1>2. CASE ~available
  BY <1>2 DEF Bind, Unbound
<1> QED BY <1>1, <1>2

LEMMA StepNamedInv == TypeInv /\ NamedInv /\ [Next]_vars => NamedInv'
<1> SUFFICES ASSUME TypeInv, NamedInv, [Next]_vars, ~kind.serverNamed
             PROVE  issued' = Original /\ (Unbound' => BindingToCome')
  BY SameKind DEF NamedInv
<1>1. /\ BrokerTypes /\ NameTypes /\ issued = Original /\ (Unbound => BindingToCome)
      /\ name = Original /\ (\A t \in Threads : old[t] = Original) /\ ~DropFormer
      /\ at["recovery"] # "drop"
      /\ at \in [{"recovery", "task"} -> {"idle", "declare", "drop", "bindings", "check",
                         "former", "recreate", "rebind", "consume", "names", "version"}]
  BY DEF NamedInv, TypeInv, NameTypes, ThreadTypes, Threads, Original, DropFormer
<1>2. ASSUME issued' = issued, conn' = conn, Unbound' => Unbound,
             \A t \in Threads : at'[t] = at[t] \/ at[t] \notin {"declare", "bindings", "rebind"}
      PROVE  issued' = Original /\ (Unbound' => BindingToCome')
  BY <1>1, <1>2 DEF BindingToCome, Threads
<1>3. CASE ConnectionLost
  BY <1>1, <1>3, DisconnectEffect DEF ConnectionLost, BindingToCome
<1>4. ASSUME NEW q \in exists, DeleteQueue(q)
      PROVE  issued' = Original /\ (Unbound' => BindingToCome')
  BY <1>2, <1>4 DEF DeleteQueue, Unbound, threadVars
<1>5. CASE NodeDown \/ NodeUp
  BY <1>2, <1>5 DEF NodeDown, NodeUp, Unbound, threadVars, clientVars
<1>6. CASE Reopen \/ Declare
  <2>1. at'["recovery"] \in {"declare", "bindings"}
    BY <1>1, <1>6 DEF Reopen, Declare, Move
  <2>2. issued' = issued
    BY <1>1, <1>6, RecoverQueueEffect DEF Reopen, Declare, brokerVars
  <2> QED BY <1>1, <2>1, <2>2 DEF BindingToCome
<1>7. CASE Drop
  BY <1>1, <1>7 DEF Drop, Move
<1>8. CASE Bindings
  <2>1. Bind(Original) /\ UNCHANGED <<exists, issued>>
    BY <1>1, <1>8 DEF Bindings
  <2> QED BY <1>1, <2>1, BindEffect
<1>9. CASE SetQueueNames \/ SetVersion
  BY <1>1, <1>2, <1>9 DEF SetQueueNames, SetVersion, Move, Unbound, Threads, brokerVars, clientVars
<1>10. ASSUME NEW t \in Threads, Thread(t)
       PROVE  issued' = Original /\ (Unbound' => BindingToCome')
  <2>1. t \in {"recovery", "task"}
    BY DEF Threads
  <2>2. CASE Check(t) \/ FormerName(t)
    BY <1>1, <1>2, <2>1, <2>2 DEF Check, FormerName, Move, Unbound, Threads,
                                 brokerVars, clientVars
  <2>3. CASE Recreate(t)
    <3>1. at'[t] = "rebind" /\ issued' = issued
      BY <1>1, <2>1, <2>3, RecoverQueueEffect DEF Recreate, Move
    <3> QED BY <1>1, <2>1, <3>1 DEF BindingToCome
  <2>4. CASE Rebind(t)
    <3>1. Bind(Original) /\ UNCHANGED <<exists, issued>>
      BY <1>1, <2>4 DEF Rebind
    <3> QED BY <1>1, <3>1, BindEffect
  <2>5. CASE Consume(t)
    <3>1. PICK q : BasicConsume(q)
      BY <2>5 DEF Consume
    <3>2. CASE Disconnect
      BY <1>1, <3>2, DisconnectEffect DEF BindingToCome
    <3>3. CASE ~Disconnect
      <4>1. UNCHANGED <<issued, exists, bound, conn, gaveUp>>
        BY <2>5, <3>1, <3>3 DEF Consume, BasicConsume, brokerVars, clientVars
      <4>2. at[t] = "consume" /\ at' = [at EXCEPT ![t] = "idle"]
        BY <2>5 DEF Consume, Move
      <4> QED BY <1>1, <1>2, <2>1, <4>1, <4>2 DEF Unbound, Threads
    <3> QED BY <3>2, <3>3
  <2>6. CASE Fail(t)
    BY <1>1, <2>6 DEF Fail, BindingToCome, brokerVars, clientVars
  <2> QED BY <1>10, <2>2, <2>3, <2>4, <2>5, <2>6 DEF Thread
<1>11. ASSUME NEW i \in DOMAIN tasks, RunCancelTask(i) \/ RunResubscription(i)
       PROVE  issued' = Original /\ (Unbound' => BindingToCome')
  <2>1. /\ UNCHANGED <<issued, exists, bound, conn>> /\ gaveUp \subseteq gaveUp'
        /\ at["task"] = "idle" /\ at'["recovery"] = at["recovery"]
    BY <1>1, <1>11 DEF RunCancelTask, RunResubscription, Move, brokerVars, clientVars
  <2> QED BY <1>2, <2>1 DEF Unbound, Threads
<1>12. CASE Poller \/ UNCHANGED vars
  BY <1>2, <1>12 DEF Poller, SeeVersion, ReadNames, ReadVersion, PollStep, vars, brokerVars,
                     clientVars, threadVars, Unbound
<1> QED BY <1>3, <1>4, <1>5, <1>6, <1>7, <1>8, <1>9, <1>10, <1>11, <1>12
        DEF Next, RecoveryThread, TaskThread, Quiet, Threads

-----------------------------------------------------------------------------
(***************************************************************************)
(* The binding of a queue that ends with its connection.                   *)
(***************************************************************************)
\* Only the recovery thread works, on one queue per connection: there is none
\* before it is declared, and then the one with the name it has now, bound once
\* the bindings are through.
ExclusiveInv ==
  kind.exclusive =>
    /\ available /\ tasks = <<>> /\ at["task"] = "idle"
    /\ at["recovery"] \notin {"drop", "former", "recreate", "rebind"}
    /\ (conn = "lost" \/ at["recovery"] = "declare") => exists = {}
    /\ (conn = "open" /\ at["recovery"] # "declare") => exists = {name}
    /\ at["recovery"] \notin {"declare", "bindings"} => exists \subseteq bound
    /\ (conn = "open" /\ at["recovery"] \in {"check", "consume"}) => target["recovery"] = name

LEMMA InitExclusiveInv == Init => ExclusiveInv
BY DEF Init, ExclusiveInv, Threads

LEMMA StepExclusiveInv == TypeInv /\ ExclusiveInv /\ [Next]_vars => ExclusiveInv'
<1> SUFFICES ASSUME TypeInv, ExclusiveInv, [Next]_vars, kind.exclusive
             PROVE  ExclusiveInv'
  BY SameKind DEF ExclusiveInv
<1>1. /\ BrokerTypes /\ NameTypes /\ ~DropFormer /\ ~QueueMayBeDown
      /\ conn \in {"open", "lost"}
      /\ at \in [{"recovery", "task"} -> {"idle", "declare", "drop", "bindings", "check",
                         "former", "recreate", "rebind", "consume", "names", "version"}]
      /\ target \in [{"recovery", "task"} -> Original..issued]
  BY DEF TypeInv, BrokerTypes, ThreadTypes, Threads, DropFormer, QueueMayBeDown, Durable
<1>2. /\ available /\ tasks = <<>> /\ at["task"] = "idle"
      /\ at["recovery"] \notin {"drop", "former", "recreate", "rebind"}
      /\ (conn = "lost" \/ at["recovery"] = "declare") => exists = {}
      /\ (conn = "open" /\ at["recovery"] # "declare") => exists = {name}
      /\ at["recovery"] \notin {"declare", "bindings"} => exists \subseteq bound
      /\ (conn = "open" /\ at["recovery"] \in {"check", "consume"}) => target["recovery"] = name
  BY DEF ExclusiveInv
<1>3. CASE ConnectionLost
  <2>1. conn' = "lost" /\ exists' = {} /\ available' = available
    BY <1>1, <1>3, DisconnectEffect DEF ConnectionLost
  <2>2. UNCHANGED <<at, tasks>>
    BY <1>3 DEF ConnectionLost, threadVars
  <2> QED BY <1>2, <2>1, <2>2 DEF ExclusiveInv
<1>4. ASSUME NEW q \in exists, DeleteQueue(q) PROVE ExclusiveInv'
  BY <1>4 DEF DeleteQueue
<1>5. CASE NodeDown \/ NodeUp
  BY <1>1, <1>2, <1>5 DEF NodeDown, NodeUp
<1>6. CASE Reopen
  BY <1>1, <1>2, <1>6 DEF Reopen, Move, ExclusiveInv, brokerVars
<1>7. CASE Declare
  <2>1. exists = {} /\ RecoverQueue
    BY <1>2, <1>7 DEF Declare, Move
  <2>2. exists' = {name'} /\ available' = available
    BY <1>2, <2>1 DEF RecoverQueue
  <2>3. /\ at'["recovery"] = "bindings" /\ at'["task"] = at["task"]
        /\ conn' = "open" /\ tasks' = tasks
    BY <1>1, <1>7 DEF Declare, Move, clientVars
  <2> QED BY <1>2, <2>2, <2>3 DEF ExclusiveInv
<1>8. CASE Drop
  BY <1>2, <1>8 DEF Drop, Move
<1>9. CASE Bindings
  <2>1. conn = "open" /\ at["recovery"] = "bindings" /\ Bind(name)
    BY <1>9 DEF Bindings, Move
  <2>2. exists = {name} /\ name \in bound'
    BY <1>2, <2>1 DEF Bind, Found
  <2>3. /\ at'["recovery"] \in {"names", "check"} /\ at'["task"] = at["task"]
        /\ target'["recovery"] = name /\ UNCHANGED <<conn, tasks, available, exists, name>>
    BY <1>1, <1>9 DEF Bindings, Move, clientVars
  <2> QED BY <1>2, <2>1, <2>2, <2>3 DEF ExclusiveInv
<1>10. CASE SetQueueNames \/ SetVersion
  <2>1. /\ at["recovery"] \in {"names", "version"} /\ at'["recovery"] \in {"version", "idle"}
        /\ at'["task"] = at["task"]
        /\ UNCHANGED <<conn, tasks, available, exists, bound, name>>
    BY <1>1, <1>10 DEF SetQueueNames, SetVersion, Move, brokerVars, clientVars
  <2> QED BY <1>2, <2>1 DEF ExclusiveInv
<1>11. ASSUME NEW t \in Threads, Thread(t) PROVE ExclusiveInv'
  <2>1. t = "recovery" /\ at[t] # "idle"
    BY <1>2, <1>11 DEF Threads, Thread, Check, FormerName, Recreate, Rebind, Consume, Fail, Move
  <2>2. CASE Check(t)
    <3>1. conn = "open" /\ at["recovery"] = "check" /\ Found(target["recovery"])
      BY <1>2, <2>1, <2>2 DEF Check, Move, Found
    <3>2. /\ at'["recovery"] = "consume" /\ at'["task"] = at["task"]
          /\ UNCHANGED <<conn, tasks, available, exists, bound, name, target>>
      BY <1>1, <2>1, <2>2, <3>1 DEF Check, Move, brokerVars, clientVars
    <3> QED BY <1>2, <3>1, <3>2 DEF ExclusiveInv
  <2>3. CASE FormerName(t) \/ Recreate(t) \/ Rebind(t)
    BY <1>2, <2>1, <2>3 DEF FormerName, Recreate, Rebind, Move
  <2>4. CASE Consume(t)
    <3>1. PICK q : BasicConsume(q)
      BY <2>4 DEF Consume
    <3>2. /\ conn = "open" /\ at["recovery"] = "consume" /\ at'["recovery"] = "idle"
          /\ at'["task"] = at["task"] /\ UNCHANGED <<tasks, name>>
      BY <1>1, <2>1, <2>4 DEF Consume, Move
    <3>3. CASE Disconnect
      <4>1. conn' = "lost" /\ exists' = {} /\ available' = available
        BY <1>1, <3>3, DisconnectEffect
      <4> QED BY <1>2, <3>2, <4>1 DEF ExclusiveInv
    <3>4. CASE ~Disconnect
      <4>1. UNCHANGED <<exists, bound, conn, available>>
        BY <3>1, <3>4 DEF BasicConsume, brokerVars, clientVars
      <4> QED BY <1>2, <3>2, <4>1 DEF ExclusiveInv
    <3> QED BY <3>3, <3>4
  <2>5. CASE Fail(t)
    <3>1. /\ conn = "lost" /\ at'["recovery"] \in {"names", "idle"} /\ at'["task"] = at["task"]
          /\ UNCHANGED <<conn, tasks, available, exists, bound, name>>
      BY <1>1, <2>1, <2>5 DEF Fail, brokerVars, clientVars
    <3> QED BY <1>2, <3>1 DEF ExclusiveInv
  <2> QED BY <1>11, <2>2, <2>3, <2>4, <2>5 DEF Thread
<1>12. ASSUME NEW i \in DOMAIN tasks, RunCancelTask(i) \/ RunResubscription(i)
       PROVE  ExclusiveInv'
  BY <1>2
<1>13. CASE Poller \/ UNCHANGED vars
  BY <1>2, <1>13 DEF Poller, SeeVersion, ReadNames, ReadVersion, PollStep, vars, brokerVars,
                     clientVars, threadVars, ExclusiveInv
<1> QED BY <1>3, <1>4, <1>5, <1>6, <1>7, <1>8, <1>9, <1>10, <1>11, <1>12, <1>13
        DEF Next, RecoveryThread, TaskThread, Quiet, Threads

\* The kinds of queue whose binding is recorded under the name the queue has, or
\* that have no subscription: the bindings of a server-named queue that outlives
\* its connection are recorded under its first name only.
BindingKept(k) == ~k.serverNamed \/ k.exclusive \/ k.polling

\* Once the recoveries are over, the queue the consumer is subscribed to has its
\* binding, for each of these kinds.
THEOREM Rebinding == Spec => [](BindingKept(kind) => Rebound)
<1>1. TypeInv /\ NamedInv /\ ExclusiveInv => (BindingKept(kind) => Rebound)
  <2> SUFFICES ASSUME TypeInv, NamedInv, ExclusiveInv, BindingKept(kind), Settled, sub # None,
                      "binding" \notin gaveUp
               PROVE  sub \in bound
    BY DEF Rebound
  <2>1. /\ sub \in exists /\ exists \subseteq Original..issued /\ ~kind.polling
        /\ conn = "open" /\ at["recovery"] = "idle" /\ at["task"] = "idle"
    BY DEF TypeInv, BrokerTypes, NoSubscription, Settled, Threads
  <2>2. CASE kind.exclusive
    BY <2>1, <2>2 DEF ExclusiveInv
  <2>3. CASE ~kind.serverNamed
    <3>1. sub = Original
      BY <2>1, <2>3 DEF NamedInv, Original
    <3> QED BY <2>1, <2>3, <3>1 DEF NamedInv, Unbound, BindingToCome
  <2> QED BY <2>1, <2>2, <2>3 DEF BindingKept
<1> QED BY <1>1, InitNamedInv, StepNamedInv, InitExclusiveInv, StepExclusiveInv, TypeInvariance,
           PTL DEF Spec

-----------------------------------------------------------------------------
(***************************************************************************)
(* Queues nobody uses any more.                                            *)
(***************************************************************************)
\* A polling consumer leaves one queue, and a former one until it is dropped: only
\* a further failure, just then, leaves that behind.
LeftoverInv ==
  kind.polling =>
    /\ failures = 0 => conn = "open" /\ at["recovery"] = "idle"
    /\ \/ DropFormer /\ failures > 1
       \/ exists \subseteq {name}
       \/ /\ at["recovery"] = "drop" /\ conn = "open"
          /\ exists \subseteq {name, old["recovery"]}

LEMMA InitLeftoverInv == Init => LeftoverInv
BY DEF Init, LeftoverInv, Threads

LEMMA StepLeftoverInv == TypeInv /\ ExclusiveInv /\ LeftoverInv /\ [Next]_vars => LeftoverInv'
<1> SUFFICES ASSUME TypeInv, ExclusiveInv, LeftoverInv, [Next]_vars, kind.polling
             PROVE  LeftoverInv'
  BY SameKind DEF LeftoverInv
<1>1. /\ BrokerTypes /\ NameTypes /\ DropFormer' = DropFormer /\ failures \in Nat
      /\ tasks = <<>> /\ at["task"] = "idle"
      /\ at["recovery"] \in {"idle", "declare", "drop", "bindings", "names", "version"}
      /\ at["recovery"] = "drop" => DropFormer
  BY SameKind DEF TypeInv, BrokerTypes, NoSubscription
<1>2. /\ failures = 0 => conn = "open" /\ at["recovery"] = "idle"
      /\ \/ DropFormer /\ failures > 1
         \/ exists \subseteq {name}
         \/ /\ at["recovery"] = "drop" /\ conn = "open"
            /\ exists \subseteq {name, old["recovery"]}
  BY DEF LeftoverInv
<1>3. at \in [{"recovery", "task"} -> {"idle", "declare", "drop", "bindings", "check",
                         "former", "recreate", "rebind", "consume", "names", "version"}]
      /\ old \in [{"recovery", "task"} -> Original..issued]
  BY DEF TypeInv, ThreadTypes, Threads
<1>4. CASE ConnectionLost
  <2>1. exists' \subseteq exists
    BY <1>1, <1>4, DisconnectEffect DEF ConnectionLost
  <2>2. failures' = failures + 1 /\ name' = name
    BY <1>4 DEF ConnectionLost
  <2> QED BY <1>1, <1>2, <2>1, <2>2 DEF LeftoverInv
<1>5. ASSUME exists' \subseteq exists, UNCHANGED <<failures, conn, at, old, name>>
      PROVE  LeftoverInv'
  BY <1>1, <1>2, <1>5 DEF LeftoverInv
<1>6. ASSUME NEW q \in exists, DeleteQueue(q) PROVE LeftoverInv'
  BY <1>5, <1>6 DEF DeleteQueue, threadVars
<1>7. CASE NodeDown \/ NodeUp
  BY <1>5, <1>7 DEF NodeDown, NodeUp, threadVars, clientVars, boundVars
<1>8. ASSUME exists' \subseteq exists, UNCHANGED <<failures, name>>, at["recovery"] # "drop",
             failures # 0
      PROVE  LeftoverInv'
  BY <1>1, <1>2, <1>8 DEF LeftoverInv
<1>9. CASE Reopen
  <2>1. at["recovery"] = "idle" /\ failures # 0 /\ UNCHANGED <<exists, failures, name>>
    BY <1>2, <1>9 DEF Reopen, Move, brokerVars, boundVars
  <2> QED BY <1>8, <2>1
<1>10. CASE Declare
  <2>1. /\ at["recovery"] = "declare" /\ conn = "open" /\ RecoverQueue
        /\ at'["recovery"] = (IF DropFormer THEN "drop" ELSE "bindings")
        /\ old'["recovery"] = name /\ UNCHANGED <<conn, failures>>
    BY <1>3, <1>10 DEF Declare, Move, clientVars, boundVars
  <2>2. failures # 0 /\ ((DropFormer /\ failures > 1) \/ exists \subseteq {name})
    BY <1>2, <2>1
  <2>3. exists' \subseteq exists \cup {name'}
    BY <1>1, <2>1, RecoverQueueEffect
  <2>4. CASE DropFormer
    BY <1>1, <2>1, <2>2, <2>3, <2>4 DEF LeftoverInv
  <2>5. CASE ~DropFormer
    <3>1. CASE name' = name
      BY <1>1, <2>1, <2>2, <2>3, <2>5, <3>1 DEF LeftoverInv
    <3>2. CASE name' # name
      <4>1. CASE kind.exclusive
        BY <1>1, <2>1, <2>2, <2>3, <4>1 DEF LeftoverInv, ExclusiveInv
      <4>2. CASE ~kind.exclusive
        <5>1. kind.serverNamed /\ ~kind.autoDelete /\ name \notin exists
          BY <2>1, <2>5, <3>2, <4>2 DEF RecoverQueue, Durable, Found, DropFormer
        <5> QED BY <1>1, <2>1, <2>2, <2>3, <2>5, <5>1 DEF LeftoverInv
      <4> QED BY <4>1, <4>2
    <3> QED BY <3>1, <3>2
  <2> QED BY <2>4, <2>5
<1>11. CASE Drop
  <2>1. /\ at["recovery"] = "drop" /\ exists' = exists \ {old["recovery"]}
        /\ UNCHANGED <<failures, name>>
    BY <1>11 DEF Drop, Move, boundVars
  <2> QED BY <1>1, <1>2, <2>1 DEF LeftoverInv
<1>12. CASE Bindings
  BY <1>2, <1>8, <1>12 DEF Bindings, Move, boundVars
<1>13. CASE SetQueueNames \/ SetVersion
  BY <1>2, <1>8, <1>13 DEF SetQueueNames, SetVersion, Move, brokerVars, boundVars
<1>14. ASSUME NEW t \in Threads, Thread(t) PROVE LeftoverInv'
  <2>1. Fail(t) /\ t = "recovery" /\ conn = "lost"
    BY <1>1, <1>14 DEF Threads, Thread, Check, FormerName, Recreate, Rebind, Consume, Fail, Move
  <2>2. UNCHANGED <<conn, exists, failures, name>> /\ failures # 0
    BY <1>2, <2>1 DEF Fail, brokerVars, clientVars, boundVars
  <2> QED BY <1>1, <1>2, <2>1, <2>2 DEF LeftoverInv
<1>15. ASSUME NEW i \in DOMAIN tasks, RunCancelTask(i) \/ RunResubscription(i)
       PROVE  LeftoverInv'
  BY <1>1
<1>16. CASE Poller \/ UNCHANGED vars
  BY <1>5, <1>16 DEF Poller, SeeVersion, ReadNames, ReadVersion, PollStep, vars, brokerVars,
                     clientVars, threadVars, boundVars
<1> QED BY <1>4, <1>6, <1>7, <1>9, <1>10, <1>11, <1>12, <1>13, <1>14, <1>15, <1>16
        DEF Next, RecoveryThread, TaskThread, Quiet, Threads

\* Queues do not pile up when consumers poll, whatever the kind of queue.
THEOREM NoLeftovers == Spec => []NoLeftoverQueues
<1>1. TypeInv /\ LeftoverInv => NoLeftoverQueues
  BY DEF TypeInv, BrokerTypes, LeftoverInv, NoLeftoverQueues, Settled, Threads
<1> QED BY <1>1, InitExclusiveInv, StepExclusiveInv, InitLeftoverInv, StepLeftoverInv,
           TypeInvariance, PTL DEF Spec
=============================================================================
