--------------------------- MODULE ConsumerProofs ---------------------------
(***************************************************************************)
(* Proofs about the asynchronous consumer, for every set of options, any   *)
(* number of messages, failures and exit-when checks.                      *)
(***************************************************************************)
EXTENDS Consumer, Remainders, FiniteSetTheorems, TLAPS

-----------------------------------------------------------------------------
(***************************************************************************)
(* Types.                                                                  *)
(***************************************************************************)

\* TypeOK in parts, with what it needs to be inductive: a new channel starts
\* after the last delivery, only an open one has unacknowledged deliveries, and
\* the exit-when check runs only if it is asked for.
CountTypes ==
  /\ received \in Nat /\ epochMessageCount \in Nat /\ processed \in Nat
  /\ lastDeliveryTag \in Nat /\ lastAckedDeliveryTag \in Nat

ThreadTypes ==
  /\ exitChecks \in Nat /\ failures \in Nat /\ seen \in Nat
  /\ activity \in {"never", "fresh", "idle"}
  /\ reason \in {"none", "limit", "idle", "empty", "shutdown"}
  /\ epc \in {"idle", "look", "compare", "read", "ack", "commit", "count"}
  /\ rpc \in {"idle", "recover", "consume"}
  /\ params \in Options
  /\ epc # "idle" => ExitWhen # "never"

WorkTypes ==
  /\ pool \in [Workers -> Seq(1..Len(origin))]
  /\ at \in [Workers -> {"idle", "received", "ack", "mark", "commit", "finish"}]
  /\ tag \in [Workers -> 0..Len(origin)]

BrokerTypes ==
  /\ chan \in {"open", "lost", "closed", "rejected"} /\ subscribed \in BOOLEAN
  /\ toPublish \in Nat /\ origin \in Seq(Queues) /\ ready \in [Queues -> Nat]
  /\ offset \in Nat /\ offset <= Len(origin)
  /\ txAcks \subseteq unacked /\ unacked \subseteq (offset + 1)..Len(origin)
  /\ chan # "open" => unacked = {}

TypeInv == CountTypes /\ ThreadTypes /\ WorkTypes /\ BrokerTypes

LEMMA TypeInvTypeOK == TypeInv => TypeOK
<1> SUFFICES ASSUME TypeInv PROVE TypeOK
  OBVIOUS
<1>1. {received, epochMessageCount, processed, lastDeliveryTag, lastAckedDeliveryTag, seen,
       exitChecks, failures, offset, toPublish} \subseteq Nat
  BY DEF TypeInv, CountTypes, ThreadTypes, BrokerTypes
<1>2. /\ params \in Options /\ activity \in {"never", "fresh", "idle"}
      /\ reason \in {"none", "limit", "idle", "empty", "shutdown"}
      /\ epc \in {"idle", "look", "compare", "read", "ack", "commit", "count"}
      /\ rpc \in {"idle", "recover", "consume"}
  BY DEF TypeInv, ThreadTypes
<1> QED BY <1>1, <1>2, Zenon DEF TypeInv, TypeOK, WorkTypes, BrokerTypes

\* The options a consumer can have are well-formed.
LEMMA OptionTypes ==
  ASSUME params \in Options
  PROVE  /\ AutoAck \in BOOLEAN /\ RecoveryEnabled \in BOOLEAN
         /\ MultiAckEvery \in Nat /\ TxSize \in Nat /\ Qos \in Nat /\ MsgLimit \in Nat
         /\ ExitWhen \in {"never", "idle", "empty"}
         /\ AckInterval \in Nat \ {0}
         /\ Qos > 0 => AckInterval <= Qos
<1>1. params \in ConsumerParameters
  BY OptionsAssumption
<1>2. MultiAckEvery = 0 \/ Qos = 0 \/ MultiAckEvery <= Qos
  BY OptionsAssumption DEF MultiAckEvery, Qos
<1>3. /\ AutoAck \in BOOLEAN /\ RecoveryEnabled \in BOOLEAN
      /\ MultiAckEvery \in Nat /\ TxSize \in Nat /\ Qos \in Nat /\ MsgLimit \in Nat
      /\ ExitWhen \in {"never", "idle", "empty"}
  BY <1>1 DEF ConsumerParameters, AutoAck, RecoveryEnabled, MultiAckEvery, TxSize, Qos,
              MsgLimit, ExitWhen
<1> QED BY <1>2, <1>3 DEF AckInterval

\* A sequence over a set is one over every larger set.
LEMMA WiderSeq ==
  ASSUME NEW A, NEW B, A \subseteq B, NEW s \in Seq(A)
  PROVE  s \in Seq(B)
OBVIOUS

\* The next delivery tag at the end of a queue of deliveries.
LEMMA AppendTag ==
  ASSUME NEW k \in Nat, NEW s \in Seq(1..k)
  PROVE  /\ Append(s, k + 1) \in Seq(1..(k + 1))
         /\ Len(Append(s, k + 1)) = Len(s) + 1
         /\ \A i \in 1..Len(s) : Append(s, k + 1)[i] = s[i]
         /\ Append(s, k + 1)[Len(s) + 1] = k + 1
OBVIOUS

\* The first delivery of a queue of deliveries, and the others.
LEMMA FirstRest ==
  ASSUME NEW S, NEW s \in Seq(S), s # <<>>
  PROVE  /\ Len(s) \in Nat \ {0} /\ Head(s) = s[1] /\ Head(s) \in S
         /\ Tail(s) \in Seq(S) /\ Len(Tail(s)) = Len(s) - 1
         /\ \A i \in 1..Len(Tail(s)) : Tail(s)[i] = s[i + 1]
OBVIOUS

\* Requeued deliveries are counted: the broker never holds infinitely many.
LEMMA RequeuedType ==
  ASSUME BrokerTypes
  PROVE  Requeued(unacked) \in [Queues -> Nat]
<1>1. ASSUME NEW q \in Queues
      PROVE  ready[q] + Cardinality({t \in unacked : origin[t] = q}) \in Nat
  <2>1. unacked \subseteq (offset + 1)..Len(origin) /\ offset + 1 \in Int /\ Len(origin) \in Int
    BY DEF BrokerTypes
  <2>2. IsFiniteSet((offset + 1)..Len(origin))
    BY <2>1, FS_Interval
  <2>3. IsFiniteSet({t \in unacked : origin[t] = q})
    BY <2>1, <2>2, FS_Subset
  <2>4. Cardinality({t \in unacked : origin[t] = q}) \in Nat
    BY <2>3, FS_CardinalityType
  <2>5. ready[q] \in Nat
    BY DEF BrokerTypes
  <2> QED BY <2>4, <2>5
<1> QED BY <1>1 DEF Requeued

\* What an ack does to the broker: it settles deliveries, at the commit if there
\* is a transaction, or it closes the channel.
LEMMA AckEffect ==
  ASSUME BrokerTypes, chan = "open", NEW t \in Nat, NEW multiple \in BOOLEAN, Ack(t, multiple)
  PROVE  \/ /\ t > offset /\ Settled(t, multiple) = {}
            /\ chan' = "rejected" /\ subscribed' = FALSE /\ ready' \in [Queues -> Nat]
            /\ unacked' = {} /\ txAcks' = {}
         \/ /\ ~(t > offset /\ Settled(t, multiple) = {})
            /\ chan' = "open" /\ subscribed' = subscribed /\ ready' = ready
            /\ unacked' \subseteq unacked /\ txAcks' \subseteq unacked'
            /\ txAcks' \subseteq txAcks \cup Settled(t, multiple)
            /\ TxSize = 0 => txAcks' = txAcks
            /\ t > offset => unacked' \ txAcks' = (unacked \ txAcks) \ Settled(t, multiple)
            /\ ~(t > offset) => unacked' = unacked /\ txAcks' = txAcks
<1>1. CASE t > offset /\ Settled(t, multiple) = {}
  BY <1>1, RequeuedType DEF Ack, Close
<1>2. CASE ~(t > offset /\ Settled(t, multiple) = {})
  <2> DEFINE settled == Settled(t, multiple)
  <2>1. /\ unacked' = IF t > offset /\ TxSize = 0 THEN unacked \ settled ELSE unacked
        /\ txAcks' = IF t > offset /\ TxSize # 0 THEN txAcks \cup settled ELSE txAcks
        /\ chan' = "open" /\ subscribed' = subscribed /\ ready' = ready
    BY <1>2 DEF Ack
  <2>2. settled \subseteq unacked \ txAcks /\ txAcks \subseteq unacked
    BY DEF Settled, BrokerTypes
  <2> HIDE DEF settled
  <2>3. /\ unacked' \subseteq unacked /\ txAcks' \subseteq unacked'
        /\ txAcks' \subseteq txAcks \cup settled /\ (TxSize = 0 => txAcks' = txAcks)
    BY <2>1, <2>2
  <2>4. t > offset => unacked' \ txAcks' = (unacked \ txAcks) \ settled
    BY <2>1, <2>2
  <2> QED BY <1>2, <2>1, <2>3, <2>4 DEF settled
<1> QED BY <1>1, <1>2

LEMMA InitTypeInv == Init => TypeInv
<1> SUFFICES ASSUME Init PROVE TypeInv
  OBVIOUS
<1>1. CountTypes /\ ThreadTypes
  BY DEF Init, CountTypes, ThreadTypes
<1>2. WorkTypes
  BY DEF Init, WorkTypes
<1>3. BrokerTypes
  BY OptionsAssumption DEF Init, BrokerTypes
<1> QED BY <1>1, <1>2, <1>3 DEF TypeInv

\* The options never change.
LEMMA SameOptions ==
  [Next]_vars => /\ params' = params /\ Queues' = Queues /\ AutoAck' = AutoAck
                 /\ MultiAckEvery' = MultiAckEvery /\ TxSize' = TxSize /\ Qos' = Qos
                 /\ MsgLimit' = MsgLimit /\ ExitWhen' = ExitWhen
                 /\ RecoveryEnabled' = RecoveryEnabled /\ AckInterval' = AckInterval
<1>1. [Next]_vars => params' = params
  BY DEF Next, vars, Publish, Deliver, Worker, HandleDelivery, Process, AckIfNecessary, MarkAcked,
         CommitIfNecessary, WriteError, Finish, HandleShutdownSignal, TimePasses, ExitCheck,
         CheckFirst, CheckIdle, MaybeAckCommitBeforeExit, ReadLastAcked,
         CompareLastDelivery, ReadLastDelivery, AckBeforeExit, CommitBeforeExit, CountDownExit,
         ConnectionLost,
         RecoveryThread, Reopen, RecoverResetEpoch, RecoverConsume, Quiet
<1> QED BY <1>1 DEF Queues, AutoAck, MultiAckEvery, TxSize, Qos, MsgLimit, ExitWhen,
                    RecoveryEnabled, AckInterval

\* Each part of the types depends on its own variables.
LEMMA SameTypes ==
  /\ CountTypes /\ UNCHANGED <<received, epochMessageCount, processed, tagVars>> => CountTypes'
  /\ ThreadTypes /\ UNCHANGED <<params, activity, reason, exitVars, rpc, failures>>
       => ThreadTypes'
  /\ WorkTypes /\ UNCHANGED <<workVars, origin>> => WorkTypes'
  /\ BrokerTypes /\ UNCHANGED <<params, brokerVars, feedVars, offset>> => BrokerTypes'
<1>1. CountTypes /\ UNCHANGED <<received, epochMessageCount, processed, tagVars>> => CountTypes'
  BY DEF CountTypes, tagVars
<1>2. ThreadTypes /\ UNCHANGED <<params, activity, reason, exitVars, rpc, failures>>
        => ThreadTypes'
  BY DEF ThreadTypes, exitVars, ExitWhen
<1>3. WorkTypes /\ UNCHANGED <<workVars, origin>> => WorkTypes'
  BY DEF WorkTypes, workVars
<1>4. BrokerTypes /\ UNCHANGED <<params, brokerVars, feedVars, offset>> => BrokerTypes'
  BY DEF BrokerTypes, brokerVars, feedVars, Queues
<1> QED BY <1>1, <1>2, <1>3, <1>4

\* The steps of the broker keep the types.
LEMMA BrokerTypeInv ==
  ASSUME TypeInv, NEW q \in Queues, Publish(q) \/ Deliver(q)
  PROVE  TypeInv'
<1> USE DEF TypeInv
<1>1. CASE Publish(q)
  <2>1. BrokerTypes'
    BY <1>1 DEF Publish, BrokerTypes, Queues, recoveryVars
  <2> QED BY <1>1, <2>1, SameTypes DEF Publish, countVars, recoveryVars
<1>2. CASE Deliver(q)
  <2> DEFINE n == Len(origin)
  <2>1. n \in Nat /\ offset \in Nat /\ offset <= n
    BY DEF BrokerTypes
  <2>2. origin' \in Seq(Queues) /\ Len(origin') = n + 1
    BY <1>2 DEF Deliver, BrokerTypes
  <2>3. WorkTypes'
    <3>1. \A w \in Workers : pool[w] \in Seq(1..n) /\ tag[w] \in 0..n
      BY DEF WorkTypes
    <3> HIDE DEF n
    <3>2. \A w \in Workers : pool[w] \in Seq(1..(n + 1)) /\ tag[w] \in 0..(n + 1)
      BY <2>1, <3>1, WiderSeq
    <3>3. Append(pool["cur"], n + 1) \in Seq(1..(n + 1))
      BY <2>1, <3>1, AppendTag DEF Workers
    <3>4. pool' = [pool EXCEPT !["cur"] = Append(pool["cur"], n + 1)] /\ at' = at /\ tag' = tag
      BY <1>2 DEF Deliver, n
    <3>5. pool' \in [Workers -> Seq(1..(n + 1))] /\ tag' \in [Workers -> 0..(n + 1)]
      BY <3>2, <3>3, <3>4 DEF WorkTypes
    <3> QED BY <2>2, <3>4, <3>5 DEF WorkTypes
  <2>4. BrokerTypes'
    <3>1. ready' \in [Queues -> Nat]
      BY <1>2 DEF Deliver, BrokerTypes
    <3>2. /\ unacked \subseteq (offset + 1)..n /\ txAcks \subseteq unacked /\ txAcks' = txAcks
          /\ unacked' = IF AutoAck THEN unacked ELSE unacked \cup {n + 1}
      BY <1>2 DEF Deliver, BrokerTypes
    <3> HIDE DEF n
    <3>3. unacked' \subseteq (offset + 1)..(n + 1) /\ txAcks' \subseteq unacked'
      BY <2>1, <3>2
    <3> QED BY <1>2, <2>1, <2>2, <3>1, <3>3 DEF Deliver, BrokerTypes, Queues, recoveryVars
  <2> QED BY <1>2, <2>3, <2>4, SameTypes DEF Deliver, countVars, recoveryVars
<1> QED BY <1>1, <1>2

\* An ack keeps the types.
LEMMA AckTypes ==
  ASSUME BrokerTypes, chan = "open", NEW t \in Nat, NEW multiple \in BOOLEAN,
         Ack(t, multiple),
         UNCHANGED <<params, feedVars, offset>>
  PROVE  BrokerTypes'
<1>1. /\ chan' \in {"open", "rejected"} /\ subscribed' \in BOOLEAN
      /\ ready' \in [Queues -> Nat]
      /\ unacked' \subseteq unacked /\ txAcks' \subseteq unacked'
      /\ chan' # "open" => unacked' = {}
  BY AckEffect DEF BrokerTypes
<1> QED BY <1>1 DEF BrokerTypes, Queues, feedVars

\* So does a commit.
LEMMA CommitTypes ==
  ASSUME BrokerTypes, TxCommit, UNCHANGED <<params, feedVars, offset>>
  PROVE  BrokerTypes'
BY DEF TxCommit, BrokerTypes, Queues, feedVars

\* The steps of a worker keep the types.
LEMMA WorkerTypeInv ==
  ASSUME TypeInv, NEW w \in Workers, Worker(w)
  PROVE  TypeInv'
<1> USE DEF TypeInv
<1>1. CASE HandleDelivery(w)
  <2>1. pool[w] \in Seq(1..Len(origin)) /\ pool[w] # <<>>
    BY <1>1 DEF HandleDelivery, WorkTypes
  <2>2. Tail(pool[w]) \in Seq(1..Len(origin)) /\ Head(pool[w]) \in 1..Len(origin)
    BY <2>1, FirstRest
  <2>3. origin' = origin /\ Len(origin) \in Nat
    BY <1>1 DEF HandleDelivery, feedVars, BrokerTypes
  <2>4. pool' \in [Workers -> Seq(1..Len(origin))]
    BY <1>1, <2>2 DEF HandleDelivery, WorkTypes
  <2>5. tag' \in [Workers -> 0..Len(origin)]
    <3>1. tag' = tag \/ tag' = [tag EXCEPT ![w] = Head(pool[w])]
      BY <1>1 DEF HandleDelivery
    <3>2. tag \in [Workers -> 0..Len(origin)] /\ Head(pool[w]) \in 0..Len(origin)
      BY <2>2, <2>3 DEF WorkTypes
    <3> QED BY <3>1, <3>2
  <2>6. WorkTypes'
    BY <1>1, <2>3, <2>4, <2>5 DEF HandleDelivery, WorkTypes
  <2>7. CountTypes'
    BY <1>1 DEF HandleDelivery, CountTypes, tagVars
  <2>8. ThreadTypes'
    BY <1>1 DEF HandleDelivery, ThreadTypes, exitVars, recoveryVars, ExitWhen
  <2> QED BY <1>1, <2>6, <2>7, <2>8, SameTypes DEF HandleDelivery, recoveryVars
<1>2. CASE Process(w)
  <2>1. CountTypes'
    BY <1>2 DEF Process, CountTypes, tagVars
  <2>2. WorkTypes'
    BY <1>2 DEF Process, MoveTo, WorkTypes, feedVars
  <2> QED BY <1>2, <2>1, <2>2, SameTypes DEF Process, recoveryVars
<1>3. CASE AckIfNecessary(w)
  <2>1. WorkTypes'
    BY <1>3 DEF AckIfNecessary, MoveTo, WorkTypes, feedVars
  <2>2. tag[w] \in Nat
    BY DEF WorkTypes, BrokerTypes
  <2>3. CASE AckDue /\ chan = "open"
    <3>1. BrokerTypes'
      BY <1>3, <2>2, <2>3, AckTypes DEF AckIfNecessary, recoveryVars
    <3> QED BY <1>3, <2>1, <3>1, SameTypes DEF AckIfNecessary, recoveryVars, countVars
  <2>4. CASE ~(AckDue /\ chan = "open")
    BY <1>3, <2>1, <2>4, SameTypes DEF AckIfNecessary, recoveryVars, countVars
  <2> QED BY <2>3, <2>4
<1>9. CASE MarkAcked(w)
  <2>1. WorkTypes'
    BY <1>9 DEF MarkAcked, MoveTo, WorkTypes, feedVars
  <2>2. tag[w] \in Nat
    BY DEF WorkTypes, BrokerTypes
  <2>3. CountTypes'
    BY <1>9, <2>2 DEF MarkAcked, CountTypes, countVars
  <2> QED BY <1>9, <2>1, <2>3, SameTypes DEF MarkAcked, recoveryVars, countVars
<1>4. CASE CommitIfNecessary(w)
  <2>1. WorkTypes'
    BY <1>4 DEF CommitIfNecessary, MoveTo, WorkTypes, feedVars
  <2>2. tag[w] \in Nat
    BY DEF WorkTypes, BrokerTypes
  <2>3. CountTypes'
    BY <1>4, <2>2 DEF CommitIfNecessary, CountTypes, countVars
  <2>4. CASE CommitDue
    <3>1. BrokerTypes'
      BY <1>4, <2>4, CommitTypes DEF CommitIfNecessary, recoveryVars
    <3> QED BY <1>4, <2>1, <2>3, <3>1, SameTypes DEF CommitIfNecessary, recoveryVars, countVars
  <2>5. CASE ~CommitDue
    <3>1. UNCHANGED brokerVars
      BY <1>4, <2>5 DEF CommitIfNecessary
    <3> QED BY <1>4, <2>1, <2>3, <3>1, SameTypes DEF CommitIfNecessary, recoveryVars, countVars
  <2> QED BY <2>4, <2>5
<1>5. CASE WriteError(w)
  <2>1. WorkTypes'
    BY <1>5 DEF WriteError, WorkTypes, feedVars
  <2> QED BY <1>5, <2>1, SameTypes DEF WriteError, recoveryVars, countVars
<1>6. CASE Finish(w)
  <2>1. WorkTypes'
    BY <1>6 DEF Finish, MoveTo, WorkTypes, feedVars
  <2>2. ThreadTypes'
    BY <1>6 DEF Finish, CountDown, ThreadTypes, exitVars, recoveryVars, countVars, ExitWhen
  <2> QED BY <1>6, <2>1, <2>2, SameTypes DEF Finish, recoveryVars, countVars
<1> QED BY <1>1, <1>2, <1>3, <1>4, <1>5, <1>6, <1>9 DEF Worker

\* So do those of the other threads.
LEMMA ThreadsTypeInv ==
  ASSUME TypeInv, HandleShutdownSignal \/ TimePasses \/ ExitCheck \/ ConnectionLost
                  \/ RecoveryThread
  PROVE  TypeInv'
<1> USE DEF TypeInv
<1>1. CASE HandleShutdownSignal
  <2>1. ThreadTypes'
    BY <1>1 DEF HandleShutdownSignal, CountDown, ThreadTypes, exitVars, recoveryVars,
                countVars, ExitWhen
  <2> QED BY <1>1, <2>1, SameTypes DEF HandleShutdownSignal, recoveryVars, countVars, feedVars
<1>2. CASE TimePasses \/ CheckFirst
  <2>1. ThreadTypes'
    BY <1>2 DEF TimePasses, CheckFirst, ThreadTypes, exitVars, recoveryVars, ExitWhen
  <2> QED BY <1>2, <2>1, SameTypes DEF TimePasses, CheckFirst, recoveryVars, feedVars
<1>3. CASE CheckIdle
  <2>1. ThreadTypes'
    BY <1>3 DEF CheckIdle, ThreadTypes, recoveryVars, countVars, ExitWhen
  <2> QED BY <1>3, <2>1, SameTypes DEF CheckIdle, recoveryVars, countVars, feedVars
<1>4. CASE ReadLastAcked \/ CompareLastDelivery \/ ReadLastDelivery
  <2>1. seen' \in Nat /\ epc # "idle"
    BY <1>4 DEF ReadLastAcked, CompareLastDelivery, ReadLastDelivery, ThreadTypes, CountTypes
  <2>2. ThreadTypes'
    BY <1>4, <2>1 DEF ReadLastAcked, CompareLastDelivery, ReadLastDelivery, ThreadTypes,
                      recoveryVars, countVars, ExitWhen
  <2>3. UNCHANGED <<params, countVars, tagVars, workVars, recoveryVars, brokerVars, feedVars>>
    BY <1>4 DEF ReadLastAcked, CompareLastDelivery, ReadLastDelivery
  <2> QED BY <2>2, <2>3, SameTypes DEF countVars, recoveryVars, feedVars
<1>10. CASE AckBeforeExit \/ CommitBeforeExit
  <2>1. ThreadTypes'
    BY <1>10 DEF AckBeforeExit, CommitBeforeExit, ThreadTypes, recoveryVars, countVars, ExitWhen
  <2>2. BrokerTypes'
    <3>1. seen \in Nat
      BY DEF ThreadTypes
    <3>2. CASE AckBeforeExit /\ chan = "open"
      BY <3>1, <3>2, AckTypes DEF AckBeforeExit, recoveryVars
    <3>3. CASE AckBeforeExit /\ chan # "open"
      BY <3>3, SameTypes DEF AckBeforeExit, recoveryVars
    <3>4. CASE CommitBeforeExit
      BY <3>4, CommitTypes DEF CommitBeforeExit, recoveryVars
    <3> QED BY <1>10, <3>2, <3>3, <3>4
  <2> QED BY <1>10, <2>1, <2>2, SameTypes DEF AckBeforeExit, CommitBeforeExit, countVars, feedVars
<1>5. CASE CountDownExit
  <2>1. ExitWhen \in {"never", "idle", "empty"} /\ ExitWhen # "never"
    BY <1>5, OptionTypes DEF ThreadTypes, CountDownExit
  <2>2. reason' \in {"none", "limit", "idle", "empty", "shutdown"}
    BY <1>5, <2>1 DEF CountDownExit, CountDown, ThreadTypes
  <2>3. ThreadTypes'
    BY <1>5, <2>2 DEF CountDownExit, ThreadTypes, recoveryVars, countVars, ExitWhen
  <2> QED BY <1>5, <2>3, SameTypes DEF CountDownExit, countVars, recoveryVars, feedVars
<1>6. CASE ConnectionLost
  <2>1. BrokerTypes'
    BY <1>6, RequeuedType DEF ConnectionLost, Close, BrokerTypes, Queues, feedVars
  <2>2. WorkTypes'
    BY <1>6 DEF ConnectionLost, WorkTypes, Workers, feedVars, BrokerTypes
  <2>3. ThreadTypes'
    BY <1>6 DEF ConnectionLost, ThreadTypes, exitVars, countVars, ExitWhen
  <2> QED BY <1>6, <2>1, <2>2, <2>3, SameTypes DEF ConnectionLost, countVars
<1>7. CASE Reopen
  <2>1. BrokerTypes'
    BY <1>7 DEF Reopen, BrokerTypes, feedVars, Queues
  <2>2. ThreadTypes'
    BY <1>7 DEF Reopen, ThreadTypes, exitVars, countVars, ExitWhen
  <2> QED BY <1>7, <2>1, <2>2, SameTypes DEF Reopen, countVars, feedVars
<1>8. CASE RecoverResetEpoch
  <2>1. CountTypes'
    BY <1>8 DEF RecoverResetEpoch, CountTypes, tagVars
  <2>2. ThreadTypes'
    BY <1>8 DEF RecoverResetEpoch, ThreadTypes, exitVars, ExitWhen
  <2> QED BY <1>8, <2>1, <2>2, SameTypes DEF RecoverResetEpoch, feedVars
<1>9. CASE RecoverConsume
  <2>1. BrokerTypes'
    BY <1>9 DEF RecoverConsume, BrokerTypes, feedVars, Queues
  <2>2. ThreadTypes'
    BY <1>9 DEF RecoverConsume, ThreadTypes, exitVars, countVars, ExitWhen
  <2> QED BY <1>9, <2>1, <2>2, SameTypes DEF RecoverConsume, countVars, feedVars
<1> QED BY <1>1, <1>2, <1>3, <1>4, <1>5, <1>6, <1>7, <1>8, <1>9, <1>10
        DEF ExitCheck, MaybeAckCommitBeforeExit, RecoveryThread

\* What the last ack and commit of the exit-when check leave alone.
LEMMA ExitStep ==
  ASSUME MaybeAckCommitBeforeExit
  PROVE  /\ UNCHANGED <<params, exitChecks, countVars, tagVars, reason, workVars, recoveryVars,
                        feedVars>>
         /\ chan' = chan \/ (chan' = "rejected" /\ chan = "open")
<1>1. UNCHANGED <<params, exitChecks, countVars, tagVars, reason, workVars, recoveryVars, feedVars>>
  BY DEF MaybeAckCommitBeforeExit, ReadLastAcked, CompareLastDelivery, ReadLastDelivery,
         AckBeforeExit, CommitBeforeExit
<1>2. chan' = chan \/ (chan' = "rejected" /\ chan = "open")
  BY DEF MaybeAckCommitBeforeExit, ReadLastAcked, CompareLastDelivery, ReadLastDelivery,
         AckBeforeExit, CommitBeforeExit, Ack, Close, TxCommit, brokerVars
<1> QED BY <1>1, <1>2

LEMMA StepTypeInv == TypeInv /\ [Next]_vars => TypeInv'
<1> SUFFICES ASSUME TypeInv, [Next]_vars PROVE TypeInv'
  OBVIOUS
<1>1. CASE UNCHANGED vars
  BY <1>1, SameTypes DEF vars, TypeInv, countVars, tagVars, recoveryVars, feedVars, workVars
<1> QED BY <1>1, BrokerTypeInv, WorkerTypeInv, ThreadsTypeInv DEF Next, Quiet

\* The inductive invariant of the types, for every set of options.
THEOREM TypeInvariance == Spec => []TypeInv
BY InitTypeInv, StepTypeInv, PTL DEF Spec

\* What a run checks of it: the broker holds deliveries of the current channel
\* only, whatever recoveries and late acks of an earlier one do.
THEOREM TypeCorrect == Spec => []TypeOK
BY TypeInvTypeOK, TypeInvariance, PTL

-----------------------------------------------------------------------------
(***************************************************************************)
(* The limit of messages.                                                  *)
(***************************************************************************)
InHand(w) == IF at[w] = "received" THEN 1 ELSE 0

\* Every message is counted before it is looked at: the messages processed and
\* those a worker is about to look at are among the ones received, so whoever
\* finds the count within the limit may process one more.
LimitInv == LimitHonoured /\ processed + InHand("cur") + InHand("old") <= received

LEMMA InitLimitInv == Init => LimitInv
<1> SUFFICES ASSUME Init PROVE LimitInv
  OBVIOUS
<1>1. TypeInv
  BY InitTypeInv
<1>2. MsgLimit \in Nat
  BY <1>1, OptionTypes DEF TypeInv, ThreadTypes
<1> QED BY <1>2 DEF Init, LimitInv, LimitHonoured, InHand, Workers

\* The steps of a worker keep the limit.
LEMMA WorkerLimitInv ==
  ASSUME TypeInv, LimitInv, NEW w \in Workers, Worker(w), MsgLimit' = MsgLimit
  PROVE  LimitInv'
<1>1. /\ MsgLimit \in Nat /\ received \in Nat /\ processed \in Nat
      /\ w \in {"cur", "old"}
      /\ at \in [{"cur", "old"} -> {"idle", "received", "ack", "mark", "commit", "finish"}]
  BY OptionTypes DEF TypeInv, ThreadTypes, CountTypes, WorkTypes, Workers
<1> USE DEF LimitInv, LimitHonoured, InHand
<1>2. CASE HandleDelivery(w)
  BY <1>1, <1>2 DEF HandleDelivery
<1>3. CASE Process(w)
  BY <1>1, <1>3 DEF Process, MoveTo, WithinLimit
<1>4. CASE AckIfNecessary(w) \/ MarkAcked(w)
  BY <1>1, <1>4 DEF AckIfNecessary, MarkAcked, MoveTo, countVars
<1>5. CASE CommitIfNecessary(w)
  BY <1>1, <1>5 DEF CommitIfNecessary, MoveTo, countVars
<1>6. CASE WriteError(w)
  BY <1>1, <1>6 DEF WriteError, countVars
<1>7. CASE Finish(w)
  BY <1>1, <1>7 DEF Finish, MoveTo, CountDown, countVars
<1> QED BY <1>2, <1>3, <1>4, <1>5, <1>6, <1>7 DEF Worker

LEMMA StepLimitInv == TypeInv /\ LimitInv /\ [Next]_vars => LimitInv'
<1> SUFFICES ASSUME TypeInv, LimitInv, [Next]_vars PROVE LimitInv'
  OBVIOUS
<1>1. /\ MsgLimit \in Nat /\ received \in Nat /\ processed \in Nat
      /\ at \in [{"cur", "old"} -> {"idle", "received", "ack", "mark", "commit", "finish"}]
      /\ MsgLimit' = MsgLimit
  BY OptionTypes, SameOptions DEF TypeInv, ThreadTypes, CountTypes, WorkTypes, Workers
<1>2. ASSUME UNCHANGED <<received, processed, at, reason>> PROVE LimitInv'
  BY <1>1, <1>2 DEF LimitInv, LimitHonoured, InHand
<1>3. ASSUME NEW q \in Queues, Publish(q) \/ Deliver(q) PROVE LimitInv'
  BY <1>2, <1>3 DEF Publish, Deliver, countVars, workVars
<1>4. CASE \E w \in Workers : Worker(w)
  BY <1>1, <1>4, WorkerLimitInv
<1>5. CASE HandleShutdownSignal
  BY <1>1, <1>5 DEF HandleShutdownSignal, CountDown, LimitInv, LimitHonoured, InHand,
                    countVars, workVars
<1>6. CASE CountDownExit
  <2>1. ExitWhen # "limit"
    BY OptionTypes DEF TypeInv, ThreadTypes
  <2> QED BY <1>1, <1>6, <2>1 DEF CountDownExit, CountDown, LimitInv, LimitHonoured, InHand,
                                  countVars, workVars
<1>7. CASE ConnectionLost
  BY <1>1, <1>7 DEF ConnectionLost, LimitInv, LimitHonoured, InHand, countVars
<1>8. CASE TimePasses \/ CheckFirst \/ CheckIdle \/ MaybeAckCommitBeforeExit
  BY <1>2, <1>8, ExitStep DEF TimePasses, CheckFirst, CheckIdle, countVars, workVars
<1>9. CASE RecoveryThread \/ UNCHANGED vars
  BY <1>2, <1>9 DEF RecoveryThread, Reopen, RecoverResetEpoch, RecoverConsume, countVars,
                    workVars, vars
<1> QED BY <1>3, <1>4, <1>5, <1>6, <1>7, <1>8, <1>9 DEF Next, ExitCheck, Quiet

\* The limit is honoured whatever the options, and however the workers of two
\* connections interleave.
THEOREM Limit == Spec => []LimitHonoured
<1>1. LimitInv => LimitHonoured
  BY DEF LimitInv
<1> QED BY <1>1, InitLimitInv, StepLimitInv, TypeInvariance, PTL DEF Spec

-----------------------------------------------------------------------------
(***************************************************************************)
(* Without connection recovery there is one connection: no tags of an      *)
(* earlier channel, and no other worker until it is lost.                  *)
(***************************************************************************)
OneConnection ==
  ~RecoveryEnabled =>
    /\ offset = 0 /\ chan # "lost" /\ rpc = "idle"
    /\ chan \in {"open", "rejected"} => pool["old"] = <<>> /\ at["old"] = "idle"

LEMMA InitOneConnection == Init => OneConnection
BY DEF Init, OneConnection, Workers

LEMMA StepOneConnection == TypeInv /\ OneConnection /\ [Next]_vars => OneConnection'
<1> SUFFICES ASSUME TypeInv, OneConnection, [Next]_vars, ~RecoveryEnabled
             PROVE  OneConnection'
  BY SameOptions DEF OneConnection
<1>1. /\ RecoveryEnabled' = RecoveryEnabled
      /\ at \in [{"cur", "old"} -> {"idle", "received", "ack", "mark", "commit", "finish"}]
      /\ pool \in [{"cur", "old"} -> Seq(1..Len(origin))]
      /\ chan \in {"open", "lost", "closed", "rejected"}
  BY SameOptions DEF TypeInv, WorkTypes, BrokerTypes, Workers
<1>2. ASSUME UNCHANGED <<offset, rpc>>, pool'["old"] = pool["old"], at'["old"] = at["old"],
             chan' = chan \/ (chan' = "rejected" /\ chan = "open")
      PROVE  OneConnection'
  BY <1>1, <1>2 DEF OneConnection
<1>3. ASSUME NEW q \in Queues, Publish(q) \/ Deliver(q) PROVE OneConnection'
  BY <1>1, <1>2, <1>3 DEF Publish, Deliver, workVars, recoveryVars
<1>4. ASSUME NEW w \in Workers, Worker(w) PROVE OneConnection'
  <2>1. chan' = chan \/ (chan' = "rejected" /\ chan = "open")
    BY <1>4 DEF Worker, HandleDelivery, Process, AckIfNecessary, MarkAcked, CommitIfNecessary,
                WriteError, Finish, Ack, Close, TxCommit, brokerVars
  <2>2. UNCHANGED <<offset, rpc>>
    BY <1>4 DEF Worker, HandleDelivery, Process, AckIfNecessary, MarkAcked, CommitIfNecessary,
                WriteError, Finish, recoveryVars
  <2>3. /\ \A v \in Workers : v # w => pool'[v] = pool[v] /\ at'[v] = at[v]
        /\ at[w] # "idle" \/ pool[w] # <<>>
    BY <1>1, <1>4 DEF Worker, HandleDelivery, Process, AckIfNecessary, MarkAcked, CommitIfNecessary,
                WriteError, Finish, MoveTo, Workers
  <2>4. CASE w = "cur"
    BY <1>2, <2>1, <2>2, <2>3, <2>4 DEF Workers
  <2>5. CASE w = "old"
    BY <2>1, <2>2, <2>3, <2>5 DEF OneConnection
  <2> QED BY <2>4, <2>5 DEF Workers
<1>5. CASE ConnectionLost
  BY <1>1, <1>5 DEF ConnectionLost, Close, OneConnection
<1>6. CASE MaybeAckCommitBeforeExit
  BY <1>2, <1>6, ExitStep DEF workVars, recoveryVars
<1>7. CASE HandleShutdownSignal \/ TimePasses \/ CheckFirst \/ CheckIdle \/ CountDownExit
  BY <1>2, <1>7 DEF HandleShutdownSignal, TimePasses, CheckFirst, CheckIdle, CountDownExit,
                    workVars, recoveryVars, brokerVars
<1>8. CASE RecoveryThread
  BY <1>8 DEF RecoveryThread, Reopen, RecoverResetEpoch, RecoverConsume, OneConnection
<1>9. CASE UNCHANGED vars
  BY <1>2, <1>9 DEF vars, workVars, recoveryVars, brokerVars
<1> QED BY <1>1, <1>3, <1>4, <1>5, <1>6, <1>7, <1>8, <1>9 DEF Next, ExitCheck, Quiet

-----------------------------------------------------------------------------
\* A consumer that has received its limit of messages and has not said so still
\* handles one, unless its channel is closed for good, or a commit that was
\* pending when the connection was lost has thrown.
LimitReported ==
  (MsgLimit > 0 /\ received >= MsgLimit /\ reason = "none" /\ chan \in {"open", "lost"}
     /\ (TxSize = 0 \/ ~RecoveryEnabled))
    => at["cur"] # "idle" \/ at["old"] # "idle"

LEMMA InitLimitReported == Init => LimitReported
<1> SUFFICES ASSUME Init PROVE LimitReported
  OBVIOUS
<1>1. MsgLimit \in Nat
  BY InitTypeInv, OptionTypes DEF TypeInv, ThreadTypes
<1> QED BY <1>1 DEF Init, LimitReported

LEMMA StepLimitReported ==
  TypeInv /\ OneConnection /\ LimitReported /\ [Next]_vars => LimitReported'
<1> SUFFICES ASSUME TypeInv, OneConnection, LimitReported, [Next]_vars PROVE LimitReported'
  OBVIOUS
<1>1. /\ MsgLimit \in Nat /\ received \in Nat /\ MsgLimit' = MsgLimit
      /\ TxSize' = TxSize /\ RecoveryEnabled' = RecoveryEnabled
      /\ at \in [{"cur", "old"} -> {"idle", "received", "ack", "mark", "commit", "finish"}]
      /\ chan \in {"open", "lost", "closed", "rejected"}
  BY OptionTypes, SameOptions
     DEF TypeInv, ThreadTypes, CountTypes, WorkTypes, BrokerTypes, Workers
<1>2. ASSUME UNCHANGED <<received, at, reason>>, chan' \in {"open", "lost"} => chan = chan'
                                                  \/ chan = "lost"
      PROVE  LimitReported'
  BY <1>1, <1>2 DEF LimitReported
<1>3. ASSUME NEW q \in Queues, Publish(q) \/ Deliver(q) PROVE LimitReported'
  BY <1>2, <1>3 DEF Publish, Deliver, countVars, workVars
<1>4. ASSUME NEW w \in Workers, Worker(w) PROVE LimitReported'
  <2>1. w \in {"cur", "old"}
    BY DEF Workers
  <2> USE DEF LimitReported
  <2>2. CASE HandleDelivery(w)
    BY <1>1, <2>1, <2>2 DEF HandleDelivery, brokerVars
  <2>3. CASE Process(w)
    BY <1>1, <2>1, <2>3 DEF Process, MoveTo
  <2>4. CASE AckIfNecessary(w) \/ MarkAcked(w)
    <3>1. at' = [at EXCEPT ![w] = "commit"] \/ at' = [at EXCEPT ![w] = "mark"]
      BY <2>4 DEF AckIfNecessary, MarkAcked, MoveTo
    <3> QED BY <1>1, <2>1, <3>1
  <2>5. CASE CommitIfNecessary(w)
    BY <1>1, <2>1, <2>5 DEF CommitIfNecessary, MoveTo
  <2>6. CASE WriteError(w)
    BY <1>1, <2>1, <2>6 DEF WriteError, WriteErrorStops, CommitDue, OneConnection, brokerVars
  <2>7. CASE Finish(w)
    BY <1>1, <2>1, <2>7 DEF Finish, MoveTo, CountDown, countVars
  <2> QED BY <1>4, <2>2, <2>3, <2>4, <2>5, <2>6, <2>7 DEF Worker
<1>5. CASE HandleShutdownSignal \/ CountDownExit
  <2>1. ExitWhen # "none"
    BY OptionTypes DEF TypeInv, ThreadTypes
  <2> QED BY <1>5, <2>1 DEF HandleShutdownSignal, CountDownExit, CountDown, LimitReported
<1>6. CASE ConnectionLost
  BY <1>1, <1>6 DEF ConnectionLost, LimitReported, countVars
<1>7. CASE MaybeAckCommitBeforeExit
  BY <1>2, <1>7, ExitStep DEF countVars, workVars
<1>8. CASE TimePasses \/ CheckFirst \/ CheckIdle
  BY <1>2, <1>8 DEF TimePasses, CheckFirst, CheckIdle, countVars, workVars, brokerVars
<1>9. CASE RecoveryThread \/ UNCHANGED vars
  BY <1>2, <1>9 DEF RecoveryThread, Reopen, RecoverResetEpoch, RecoverConsume, countVars,
                    workVars, brokerVars, vars
<1> QED BY <1>3, <1>4, <1>5, <1>6, <1>7, <1>8, <1>9 DEF Next, ExitCheck, Quiet

-----------------------------------------------------------------------------
(***************************************************************************)
(* Delivery tags.                                                          *)
(***************************************************************************)
\* The tag of the last delivery a worker of the channel has taken.
Delivered == Len(origin) - Len(pool["cur"])

\* The deliveries that wait for their ack.
Awaited == unacked \ txAcks

\* The worker of the channel takes the deliveries in the order of their tags, and
\* handles the last one it took.
InOrder ==
  /\ \A i \in 1..Len(pool["cur"]) : pool["cur"][i] = Delivered + i
  /\ offset <= Delivered
  /\ at["cur"] # "idle" => tag["cur"] = Delivered /\ offset < tag["cur"]
  /\ chan \in {"lost", "closed"} => pool["cur"] = <<>> /\ at["cur"] = "idle"

\* The worker of an earlier connection has tags of an earlier channel.
OldTags ==
  chan \in {"open", "rejected"} =>
    /\ at["old"] # "idle" => tag["old"] <= offset
    /\ \A i \in 1..Len(pool["old"]) : pool["old"][i] <= offset

\* lastDeliveryTag, and what the exit-when check has read of it, is behind the
\* worker of the channel as long as its ack is to come.
BehindWorker(t) ==
  /\ t <= Delivered
  /\ at["cur"] \in {"received", "ack"} => t < tag["cur"]

Behind == BehindWorker(lastDeliveryTag) /\ (epc = "ack" => BehindWorker(seen))

TagInv == InOrder /\ OldTags /\ Behind

\* The types the tags have.
LEMMA TagTypes ==
  ASSUME TypeInv
  PROVE  /\ offset \in Nat /\ Len(origin) \in Nat /\ offset <= Len(origin)
         /\ pool["cur"] \in Seq(1..Len(origin)) /\ Len(pool["cur"]) \in Nat
         /\ pool["old"] \in Seq(1..Len(origin)) /\ Len(pool["old"]) \in Nat
         /\ Delivered \in Int
         /\ tag \in [{"cur", "old"} -> Nat] /\ tag["old"] <= Len(origin)
         /\ at \in [{"cur", "old"} -> {"idle", "received", "ack", "mark", "commit", "finish"}]
         /\ lastDeliveryTag \in Nat /\ lastAckedDeliveryTag \in Nat /\ seen \in Nat
         /\ chan \in {"open", "lost", "closed", "rejected"}
<1>1. /\ pool["cur"] \in Seq(1..Len(origin)) /\ pool["old"] \in Seq(1..Len(origin))
      /\ Len(origin) \in Nat
  BY DEF TypeInv, WorkTypes, BrokerTypes, Workers
<1>2. Len(pool["cur"]) \in Nat /\ Len(pool["old"]) \in Nat
  BY <1>1
<1>3. tag \in [{"cur", "old"} -> Nat] /\ tag["old"] <= Len(origin)
  BY <1>1 DEF TypeInv, WorkTypes, Workers
<1> QED BY <1>1, <1>2, <1>3 DEF TypeInv, WorkTypes, BrokerTypes, CountTypes, ThreadTypes,
                                   Workers, Delivered

LEMMA InitTagInv == Init => TagInv
<1> SUFFICES ASSUME Init PROVE TagInv
  OBVIOUS
<1>1. /\ pool["cur"] = <<>> /\ pool["old"] = <<>> /\ at["cur"] = "idle" /\ at["old"] = "idle"
      /\ origin = <<>> /\ offset = 0 /\ lastDeliveryTag = 0 /\ epc = "idle"
  BY DEF Init, Workers
<1>2. Delivered = 0
  BY <1>1 DEF Delivered
<1> QED BY <1>1, <1>2 DEF TagInv, InOrder, OldTags, Behind, BehindWorker

LEMMA SameTagInv ==
  ASSUME TagInv, UNCHANGED <<origin, offset, workVars, lastDeliveryTag>>,
         chan' = chan \/ (chan' = "rejected" /\ chan = "open"),
         epc' = "ack" => epc = "ack" /\ seen' = seen
  PROVE  TagInv'
BY DEF TagInv, InOrder, OldTags, Behind, BehindWorker, Delivered, workVars

\* A delivery gets the next tag.
LEMMA DeliverTagInv ==
  ASSUME TypeInv, TagInv, NEW q \in Queues, Deliver(q)
  PROVE  TagInv' /\ Delivered' = Delivered /\ Len(origin') = Len(origin) + 1
<1> DEFINE n == Len(origin)
           s == pool["cur"]
<1>1. n \in Nat /\ s \in Seq(1..n) /\ Len(s) \in Nat /\ Delivered = n - Len(s)
  BY TagTypes DEF Delivered
<1>2. Len(origin') = n + 1
  BY DEF Deliver, TypeInv, BrokerTypes
<1>3. pool'["cur"] = Append(s, n + 1) /\ pool'["old"] = pool["old"]
  BY DEF Deliver, TypeInv, WorkTypes, Workers
<1>4. UNCHANGED <<offset, at, tag, chan, lastDeliveryTag, epc, seen>> /\ chan = "open"
  BY DEF Deliver, recoveryVars, tagVars, exitVars
<1> HIDE DEF n, s
<1>5. /\ Len(pool'["cur"]) = Len(s) + 1 /\ pool'["cur"][Len(s) + 1] = n + 1
      /\ \A i \in 1..Len(s) : pool'["cur"][i] = s[i]
  BY <1>1, <1>3, AppendTag
<1>6. Delivered' = Delivered
  <2>1. Delivered' = Len(origin') - Len(pool'["cur"])
    BY DEF Delivered
  <2> QED BY <1>1, <1>2, <1>5, <2>1
<1>7. \A i \in 1..Len(s) : s[i] = Delivered + i
  BY DEF TagInv, InOrder, s
<1>8. \A i \in 1..Len(pool'["cur"]) : pool'["cur"][i] = Delivered' + i
  BY <1>1, <1>5, <1>6, <1>7
<1>9. InOrder'
  BY <1>4, <1>6, <1>8 DEF TagInv, InOrder
<1>10. OldTags' /\ Behind'
  BY <1>3, <1>4, <1>6 DEF TagInv, OldTags, Behind, BehindWorker
<1> QED BY <1>2, <1>6, <1>9, <1>10 DEF TagInv, n

\* A worker takes its first delivery.
LEMMA HandleTagInv ==
  ASSUME TypeInv, TagInv, NEW w \in Workers, HandleDelivery(w)
  PROVE  /\ TagInv' /\ Len(origin') = Len(origin)
         /\ w = "cur" => Delivered' = Delivered + 1
         /\ w = "old" => Delivered' = Delivered
<1> DEFINE s == pool[w]
<1>1. s \in Seq(1..Len(origin)) /\ s # <<>> /\ w \in {"cur", "old"}
  BY DEF HandleDelivery, TypeInv, WorkTypes, Workers
<1>2. /\ pool'[w] = Tail(s) /\ \A v \in Workers : v # w => pool'[v] = pool[v]
      /\ UNCHANGED <<origin, offset, chan, lastDeliveryTag, epc, seen>>
  BY DEF HandleDelivery, TypeInv, WorkTypes, recoveryVars, brokerVars, feedVars, tagVars,
         exitVars
<1>3. /\ \A v \in Workers : v # w => at'[v] = at[v] /\ tag'[v] = tag[v]
      /\ at'[w] # "idle" => at'[w] = "received" /\ tag'[w] = Head(s) /\ chan = "open"
  BY DEF HandleDelivery, TypeInv, WorkTypes
<1> HIDE DEF s
<1>4. /\ Len(s) \in Nat \ {0} /\ Head(s) = s[1] /\ Len(Tail(s)) = Len(s) - 1
      /\ \A i \in 1..Len(Tail(s)) : Tail(s)[i] = s[i + 1]
  BY <1>1, FirstRest
<1>5. CASE w = "cur"
  <2>1. pool'["old"] = pool["old"] /\ at'["old"] = at["old"] /\ tag'["old"] = tag["old"]
    BY <1>2, <1>3, <1>5 DEF Workers
  <2>2. OldTags'
    BY <1>2, <2>1 DEF TagInv, OldTags
  <2>3. Delivered' = Delivered + 1 /\ Delivered \in Int
    <3>1. /\ Delivered' = Len(origin') - Len(pool'["cur"])
          /\ Delivered = Len(origin) - Len(s) /\ Len(origin) \in Nat
      BY <1>5, TagTypes DEF Delivered, s
    <3>2. Len(pool'["cur"]) = Len(s) - 1 /\ Len(s) \in Nat /\ origin' = origin
      BY <1>2, <1>4, <1>5
    <3> QED BY <3>1, <3>2
  <2>4. \A i \in 1..Len(s) : s[i] = Delivered + i
    BY <1>5 DEF TagInv, InOrder, s
  <2>5. \A i \in 1..Len(pool'["cur"]) : pool'["cur"][i] = Delivered' + i
    BY <1>2, <1>4, <1>5, <2>3, <2>4
  <2>6. Head(s) = Delivered'
    BY <1>4, <2>3, <2>4
  <2>7. /\ offset \in Nat /\ offset <= Delivered /\ lastDeliveryTag \in Nat /\ seen \in Nat
        /\ lastDeliveryTag <= Delivered /\ (epc = "ack" => seen <= Delivered)
    BY TagTypes DEF TagInv, InOrder, Behind, BehindWorker
  <2>8. ~(chan \in {"lost", "closed"})
    BY <1>1, <1>5 DEF TagInv, InOrder, s
  <2>9. InOrder'
    BY <1>2, <1>3, <1>5, <2>3, <2>5, <2>6, <2>7, <2>8 DEF InOrder
  <2>10. Behind'
    BY <1>2, <1>3, <1>5, <2>3, <2>6, <2>7 DEF Behind, BehindWorker
  <2> QED BY <1>2, <1>5, <2>2, <2>3, <2>9, <2>10 DEF TagInv
<1>6. CASE w = "old"
  <2>1. pool'["cur"] = pool["cur"] /\ at'["cur"] = at["cur"] /\ tag'["cur"] = tag["cur"]
    BY <1>2, <1>3, <1>6 DEF Workers
  <2>2. Delivered' = Delivered
    BY <1>2, <2>1 DEF Delivered
  <2>3. InOrder' /\ Behind'
    BY <1>2, <2>1, <2>2 DEF TagInv, InOrder, Behind, BehindWorker
  <2>4. ASSUME chan \in {"open", "rejected"}
        PROVE  \A i \in 1..Len(s) : s[i] <= offset
    BY <1>6, <2>4 DEF TagInv, OldTags, s
  <2>5. OldTags'
    BY <1>2, <1>3, <1>4, <1>6, <2>4 DEF OldTags
  <2> QED BY <1>2, <1>6, <2>2, <2>3, <2>5 DEF TagInv
<1> QED BY <1>1, <1>5, <1>6

\* The other steps of a worker move it on, and a commit sets lastDeliveryTag.
LEMMA WorkTagInv ==
  ASSUME TypeInv, TagInv, NEW w \in Workers,
         Process(w) \/ AckIfNecessary(w) \/ MarkAcked(w) \/ CommitIfNecessary(w)
           \/ WriteError(w) \/ Finish(w)
  PROVE  /\ TagInv' /\ Delivered' = Delivered
         /\ UNCHANGED <<pool, tag, origin, offset, epc, seen>>
<1>1. UNCHANGED <<pool, tag, origin, offset, epc, seen>>
  BY DEF Process, AckIfNecessary, MarkAcked, CommitIfNecessary, WriteError, Finish, feedVars,
         recoveryVars, exitVars
<1>2. Delivered' = Delivered
  BY <1>1 DEF Delivered
<1>3. /\ at[w] # "idle" /\ \A v \in Workers : v # w => at'[v] = at[v]
      /\ at'[w] = "received" => at[w] = "received"
      /\ at'[w] = "ack" => at[w] = "received"
      /\ lastDeliveryTag' # lastDeliveryTag => lastDeliveryTag' = tag[w] /\ at'[w] = "finish"
  BY DEF Process, AckIfNecessary, MarkAcked, CommitIfNecessary, WriteError, Finish, MoveTo, tagVars,
         TypeInv, WorkTypes
<1>4. chan' = chan \/ (chan' = "rejected" /\ chan = "open")
  BY DEF Process, AckIfNecessary, MarkAcked, CommitIfNecessary, WriteError, Finish, Ack, Close,
         TxCommit, brokerVars
<1>5. w \in {"cur", "old"} /\ \A v \in Workers : v # w => at'[v] = at[v]
  BY <1>3 DEF Workers
<1>6. InOrder'
  BY <1>1, <1>2, <1>3, <1>4, <1>5 DEF TagInv, InOrder, Workers
<1>7. OldTags'
  BY <1>1, <1>3, <1>4, <1>5 DEF TagInv, OldTags, Workers
<1>8. Behind'
  <2>1. CASE w = "cur"
    <3>1. tag["cur"] = Delivered
      BY <1>3, <2>1 DEF TagInv, InOrder
    <3>2. Delivered \in Int /\ lastDeliveryTag \in Nat
      BY TagTypes
    <3>3. Behind
      BY DEF TagInv
    <3> QED BY <1>1, <1>2, <1>3, <2>1, <3>1, <3>2, <3>3 DEF Behind, BehindWorker
  <2>2. CASE w = "old"
    <3>1. tag["old"] <= Delivered /\ (at["cur"] # "idle" => tag["old"] < tag["cur"])
      <4>1. CASE chan \in {"open", "rejected"}
        BY <1>3, <2>2, <4>1, TagTypes DEF TagInv, InOrder, OldTags
      <4>2. CASE chan \in {"lost", "closed"}
        <5>1. Delivered = Len(origin)
          BY <4>2, TagTypes DEF TagInv, InOrder, Delivered
        <5> QED BY <4>2, <5>1, TagTypes DEF TagInv, InOrder
      <4> QED BY <4>1, <4>2, TagTypes
    <3>2. at'["cur"] = at["cur"]
      BY <1>3, <2>2 DEF Workers
    <3> QED BY <1>1, <1>2, <1>3, <2>2, <3>1, <3>2 DEF TagInv, Behind, BehindWorker
  <2> QED BY <1>5, <2>1, <2>2
<1> QED BY <1>1, <1>2, <1>6, <1>7, <1>8 DEF TagInv

\* The lost connection's worker goes on with what the channel had queued.
LEMMA LostTagInv ==
  ASSUME TypeInv, TagInv, ConnectionLost
  PROVE  TagInv'
<1>1. /\ pool'["cur"] = <<>> /\ at'["cur"] = "idle" /\ chan' \in {"lost", "closed"}
      /\ UNCHANGED <<origin, offset, lastDeliveryTag, epc, seen>>
  BY DEF ConnectionLost, Close, TypeInv, WorkTypes, Workers, feedVars, tagVars, exitVars
<1>2. Delivered' = Len(origin) /\ Delivered <= Len(origin)
  BY <1>1, TagTypes DEF Delivered
<1>3. InOrder'
  BY <1>1, <1>2, TagTypes DEF InOrder
<1>4. OldTags' /\ Behind'
  BY <1>1, <1>2, TagTypes DEF OldTags, Behind, BehindWorker, TagInv
<1> QED BY <1>3, <1>4 DEF TagInv

\* A recovered channel starts after every delivery made so far.
LEMMA ReopenTagInv ==
  ASSUME TypeInv, TagInv, Reopen
  PROVE  TagInv'
<1>1. /\ chan = "lost" /\ chan' = "open" /\ offset' = Len(origin)
      /\ UNCHANGED <<origin, pool, at, tag, lastDeliveryTag, epc, seen>>
  BY DEF Reopen, workVars, feedVars, tagVars, exitVars
<1>2. Delivered' = Len(origin) /\ Delivered = Len(origin)
  BY <1>1, TagTypes DEF TagInv, InOrder, Delivered
<1>3. InOrder' /\ Behind'
  BY <1>1, <1>2, TagTypes DEF TagInv, InOrder, Behind, BehindWorker
<1>4. \A i \in 1..Len(pool["old"]) : pool["old"][i] <= Len(origin)
  <2>1. pool["old"] \in Seq(1..Len(origin)) /\ Len(origin) \in Nat
    BY TagTypes
  <2> QED BY <2>1
<1>5. OldTags'
  BY <1>1, <1>4, TagTypes DEF OldTags
<1> QED BY <1>3, <1>5 DEF TagInv

LEMMA StepTagInv == TypeInv /\ TagInv /\ [Next]_vars => TagInv'
<1> SUFFICES ASSUME TypeInv, TagInv, [Next]_vars PROVE TagInv'
  OBVIOUS
<1>1. ASSUME NEW q \in Queues, Publish(q) \/ Deliver(q) PROVE TagInv'
  BY <1>1, DeliverTagInv, SameTagInv DEF Publish, recoveryVars, tagVars, exitVars
<1>2. CASE \E w \in Workers : Worker(w)
  BY <1>2, HandleTagInv, WorkTagInv DEF Worker
<1>3. CASE MaybeAckCommitBeforeExit
  <2>1. /\ UNCHANGED <<origin, offset, workVars, lastDeliveryTag>>
        /\ chan' = chan \/ (chan' = "rejected" /\ chan = "open")
    BY <1>3, ExitStep DEF feedVars, recoveryVars, tagVars
  <2>2. CASE ReadLastDelivery
    <3>1. /\ UNCHANGED <<origin, offset, pool, at, tag, chan, lastDeliveryTag>>
          /\ seen' = lastDeliveryTag /\ Delivered' = Delivered
      BY <2>1, <2>2 DEF ReadLastDelivery, workVars, brokerVars, Delivered
    <3> QED BY <3>1 DEF TagInv, InOrder, OldTags, Behind, BehindWorker
  <2>3. CASE ~ReadLastDelivery
    <3>1. epc' # "ack"
      BY <1>3, <2>3 DEF MaybeAckCommitBeforeExit, ReadLastAcked, CompareLastDelivery,
                        AckBeforeExit, CommitBeforeExit
    <3> QED BY <2>1, <3>1, SameTagInv
  <2> QED BY <2>2, <2>3
<1>4. CASE ConnectionLost \/ Reopen
  BY <1>4, LostTagInv, ReopenTagInv
<1>5. CASE HandleShutdownSignal \/ TimePasses \/ CheckFirst \/ CheckIdle \/ CountDownExit
  BY <1>5, SameTagInv DEF HandleShutdownSignal, TimePasses, CheckFirst, CheckIdle,
                          CountDownExit, feedVars, recoveryVars, brokerVars, tagVars, exitVars
<1>6. CASE RecoverResetEpoch \/ RecoverConsume
  BY <1>6, SameTagInv DEF RecoverResetEpoch, RecoverConsume, feedVars, brokerVars, tagVars,
                          exitVars
<1>7. CASE UNCHANGED vars
  BY <1>7, SameTagInv DEF vars, feedVars, recoveryVars, brokerVars, tagVars, exitVars
<1> QED BY <1>1, <1>2, <1>3, <1>4, <1>5, <1>6, <1>7 DEF Next, ExitCheck, RecoveryThread, Quiet

-----------------------------------------------------------------------------
(***************************************************************************)
(* The deliveries that are still to be acknowledged.                       *)
(***************************************************************************)
\* The broker waits for the acks of all the deliveries not taken yet, and for
\* that of the one taken last until its ack is due; with automatic acks it waits
\* for none.
AcksToCome ==
  /\ AutoAck => unacked = {}
  /\ (chan = "open" /\ ~AutoAck) =>
       /\ \A u \in (Delivered + 1)..Len(origin) : u \in Awaited
       /\ at["cur"] \in {"received", "ack"} => tag["cur"] \in Awaited

\* An ack leaves the deliveries after its tag alone, and one with a tag of an
\* earlier channel every delivery. The channel is closed only if the ack is for
\* nothing the broker waits for.
LEMMA AckAwaited ==
  ASSUME BrokerTypes, chan = "open", NEW t \in Nat, NEW multiple \in BOOLEAN,
         Ack(t, multiple)
  PROVE  /\ chan' \in {"open", "rejected"} /\ unacked' \subseteq unacked
         /\ chan' = "rejected" <=> t > offset /\ Settled(t, multiple) = {}
         /\ chan' = "open" =>
              /\ Awaited' = IF t > offset THEN Awaited \ Settled(t, multiple) ELSE Awaited
              /\ \A u \in Awaited : u > t => u \in Awaited'
<1>1. \A u \in Awaited : u \in Nat
  BY DEF Awaited, BrokerTypes
<1>2. \A u \in Awaited : u > t => u \notin Settled(t, multiple)
  BY <1>1 DEF Settled
<1>3. Awaited' = unacked' \ txAcks'
  BY DEF Awaited
<1> QED BY <1>2, <1>3, AckEffect DEF Awaited

LEMMA InitAcksToCome == Init => AcksToCome
<1> SUFFICES ASSUME Init PROVE AcksToCome
  OBVIOUS
<1>1. unacked = {} /\ origin = <<>> /\ pool["cur"] = <<>> /\ at["cur"] = "idle"
  BY DEF Init, Workers
<1>2. Delivered = 0 /\ Len(origin) = 0
  BY <1>1 DEF Delivered
<1> QED BY <1>1, <1>2 DEF AcksToCome

LEMMA SameAcksToCome ==
  ASSUME AcksToCome, UNCHANGED <<params, origin, workVars, chan, unacked, txAcks>>
  PROVE  AcksToCome'
BY DEF AcksToCome, Delivered, Awaited, AutoAck, workVars

LEMMA WorkerAcksToCome ==
  ASSUME TypeInv, TagInv, TagInv', AcksToCome, NEW w \in Workers, Worker(w),
         AutoAck' = AutoAck
  PROVE  AcksToCome'
<1>1. /\ Len(origin) \in Nat /\ Delivered \in Int /\ w \in {"cur", "old"}
      /\ at \in [{"cur", "old"} -> {"idle", "received", "ack", "mark", "commit", "finish"}]
      /\ tag \in [{"cur", "old"} -> Nat] /\ BrokerTypes
  BY TagTypes DEF Workers, TypeInv
<1>2. CASE HandleDelivery(w)
  <2>1. /\ UNCHANGED <<chan, unacked, txAcks, origin>> /\ Awaited' = Awaited
        /\ Len(origin') = Len(origin)
    BY <1>2 DEF HandleDelivery, brokerVars, feedVars, Awaited
  <2>2. CASE w = "cur"
    <3>1. Delivered' = Delivered + 1
      BY <1>2, <2>2, HandleTagInv
    <3>2. pool["cur"] \in Seq(1..Len(origin)) /\ pool["cur"] # <<>>
      BY <1>2, <2>2, TagTypes DEF HandleDelivery
    <3>3. Len(pool["cur"]) \in Nat \ {0}
      BY <3>2, FirstRest
    <3>4. Delivered + 1 <= Len(origin)
      BY <1>1, <3>3 DEF Delivered
    <3>5. at'["cur"] # "idle" => tag'["cur"] = Delivered + 1
      BY <3>1 DEF TagInv, InOrder
    <3> QED BY <1>1, <2>1, <3>1, <3>4, <3>5 DEF AcksToCome
  <2>3. CASE w = "old"
    <3>1. Delivered' = Delivered /\ at'["cur"] = at["cur"] /\ tag'["cur"] = tag["cur"]
      BY <1>1, <1>2, <2>3, HandleTagInv DEF HandleDelivery
    <3> QED BY <1>1, <2>1, <3>1 DEF AcksToCome
  <2> QED BY <1>1, <2>2, <2>3
<1>3. CASE ~HandleDelivery(w)
  <2>1. Process(w) \/ AckIfNecessary(w) \/ MarkAcked(w) \/ CommitIfNecessary(w)
           \/ WriteError(w) \/ Finish(w)
    BY <1>3 DEF Worker
  <2>2. Delivered' = Delivered /\ UNCHANGED <<pool, tag, origin>>
    BY <2>1, WorkTagInv
  <2>3. at'["cur"] \in {"received", "ack"} => at["cur"] \in {"received", "ack"}
    BY <1>1, <2>1 DEF Process, AckIfNecessary, MarkAcked, CommitIfNecessary, WriteError, Finish,
         MoveTo
  <2>4. ASSUME UNCHANGED <<chan, unacked>>, Awaited' = Awaited PROVE AcksToCome'
    BY <2>2, <2>3, <2>4 DEF AcksToCome
  <2>5. CASE Process(w) \/ WriteError(w) \/ Finish(w)
    <3>1. UNCHANGED <<chan, unacked, txAcks>>
      BY <2>5 DEF Process, WriteError, Finish, brokerVars
    <3> QED BY <2>4, <3>1 DEF Awaited
  <2>8. CASE MarkAcked(w)
    BY <2>4, <2>8 DEF MarkAcked, brokerVars, Awaited
  <2>6. CASE AckIfNecessary(w)
    <3>1. CASE AckDue /\ chan = "open"
      <4>1. Ack(tag[w], MultiAckEvery # 0) /\ tag[w] \in Nat
        BY <1>1, <2>6, <3>1 DEF AckIfNecessary
      <4>2. /\ chan' \in {"open", "rejected"} /\ unacked' \subseteq unacked
            /\ chan' = "open" => \A u \in Awaited : u > tag[w] => u \in Awaited'
            /\ ~(tag[w] > offset) => chan' = "open" /\ Awaited' = Awaited
        BY <1>1, <3>1, <4>1, AckAwaited
      <4>3. CASE w = "cur"
        <5>1. at'["cur"] \notin {"received", "ack"} /\ tag["cur"] = Delivered
          BY <1>1, <2>6, <4>3 DEF AckIfNecessary, MoveTo, TagInv, InOrder
        <5> QED BY <1>1, <2>2, <3>1, <4>2, <4>3, <5>1 DEF AcksToCome
      <4>4. CASE w = "old"
        <5>1. offset \in Nat /\ tag["old"] <= offset
          BY <2>6, <3>1, <4>4 DEF AckIfNecessary, MoveTo, TagInv, OldTags, TypeInv, BrokerTypes
        <5>2. chan' = "open" /\ Awaited' = Awaited /\ unacked' \subseteq unacked
          BY <1>1, <4>2, <4>4, <5>1
        <5> QED BY <2>2, <2>3, <3>1, <5>2 DEF AcksToCome
      <4> QED BY <1>1, <4>3, <4>4
    <3>2. CASE ~(AckDue /\ chan = "open")
      BY <2>4, <2>6, <3>2 DEF AckIfNecessary, brokerVars, Awaited
    <3> QED BY <3>1, <3>2
  <2>7. CASE CommitIfNecessary(w)
    <3>1. Awaited' = Awaited /\ chan' = chan /\ unacked' \subseteq unacked
      BY <2>7 DEF CommitIfNecessary, TxCommit, brokerVars, Awaited
    <3> QED BY <2>2, <2>3, <3>1 DEF AcksToCome
  <2> QED BY <2>1, <2>5, <2>6, <2>7, <2>8
<1> QED BY <1>2, <1>3

LEMMA StepAcksToCome ==
  TypeInv /\ TagInv /\ AcksToCome /\ [Next]_vars => AcksToCome'
<1> SUFFICES ASSUME TypeInv, TagInv, AcksToCome, [Next]_vars PROVE AcksToCome'
  OBVIOUS
<1>1. /\ TagInv' /\ AutoAck' = AutoAck /\ Len(origin) \in Nat /\ Delivered \in Int
      /\ BrokerTypes
  BY StepTagInv, SameOptions, TagTypes DEF TypeInv
<1>2. ASSUME NEW q \in Queues, Publish(q) PROVE AcksToCome'
  BY <1>2, SameAcksToCome DEF Publish
<1>3. ASSUME NEW q \in Queues, Deliver(q) PROVE AcksToCome'
  <2>1. Delivered' = Delivered /\ Len(origin') = Len(origin) + 1
    BY <1>3, DeliverTagInv
  <2>2. /\ unacked' = IF AutoAck THEN unacked ELSE unacked \cup {Len(origin) + 1}
        /\ UNCHANGED <<chan, txAcks, at, tag>>
    BY <1>3 DEF Deliver
  <2>3. Len(origin) + 1 \notin txAcks
    BY <1>1 DEF BrokerTypes
  <2>4. ~AutoAck => Awaited' = Awaited \cup {Len(origin) + 1}
    BY <2>2, <2>3 DEF Awaited
  <2> QED BY <1>1, <2>1, <2>2, <2>4 DEF AcksToCome
<1>4. CASE \E w \in Workers : Worker(w)
  BY <1>1, <1>4, WorkerAcksToCome
<1>5. CASE MaybeAckCommitBeforeExit
  <2>1. UNCHANGED <<params, origin, pool, at, tag, workVars>>
    BY <1>5, ExitStep DEF workVars, feedVars
  <2>2. Delivered' = Delivered
    BY <2>1 DEF Delivered
  <2>3. CASE AckBeforeExit /\ chan = "open"
    <3>1. Ack(seen, TRUE) /\ seen \in Nat /\ epc = "ack"
      BY <2>3, TagTypes DEF AckBeforeExit
    <3>2. /\ chan' \in {"open", "rejected"} /\ unacked' \subseteq unacked
          /\ chan' = "open" => \A u \in Awaited : u > seen => u \in Awaited'
      BY <1>1, <2>3, <3>1, AckAwaited
    <3>3. seen <= Delivered /\ (at["cur"] \in {"received", "ack"} => tag["cur"] > seen)
      BY <3>1, TagTypes DEF TagInv, Behind, BehindWorker
    <3> QED BY <1>1, <2>1, <2>2, <2>3, <3>1, <3>2, <3>3 DEF AcksToCome
  <2>4. CASE CommitBeforeExit
    <3>1. Awaited' = Awaited /\ chan' = chan /\ unacked' \subseteq unacked
      BY <2>4 DEF CommitBeforeExit, TxCommit, Awaited
    <3> QED BY <1>1, <2>1, <2>2, <3>1 DEF AcksToCome
  <2>5. CASE ~(AckBeforeExit /\ chan = "open") /\ ~CommitBeforeExit
    <3>1. UNCHANGED brokerVars
      BY <1>5, <2>5 DEF MaybeAckCommitBeforeExit, ReadLastAcked, CompareLastDelivery,
                        ReadLastDelivery, AckBeforeExit
    <3> QED BY <2>1, <3>1, SameAcksToCome DEF brokerVars
  <2> QED BY <2>3, <2>4, <2>5
<1>6. CASE ConnectionLost
  BY <1>1, <1>6 DEF ConnectionLost, Close, AcksToCome
<1>7. CASE Reopen
  <2>1. /\ pool["cur"] = <<>> /\ at["cur"] = "idle"
        /\ UNCHANGED <<origin, pool, at, unacked>>
    BY <1>7 DEF Reopen, TagInv, InOrder, workVars, feedVars
  <2>2. Delivered' = Len(origin) /\ Len(origin') = Len(origin)
    BY <1>1, <2>1 DEF Delivered
  <2> QED BY <1>1, <2>1, <2>2 DEF AcksToCome
<1>8. CASE HandleShutdownSignal \/ TimePasses \/ CheckFirst \/ CheckIdle \/ CountDownExit
  BY <1>8, SameAcksToCome DEF HandleShutdownSignal, TimePasses, CheckFirst, CheckIdle,
                              CountDownExit, feedVars, brokerVars
<1>9. CASE RecoverResetEpoch \/ RecoverConsume
  BY <1>9, SameAcksToCome DEF RecoverResetEpoch, RecoverConsume, feedVars, brokerVars
<1>10. CASE UNCHANGED vars
  BY <1>10, SameAcksToCome DEF vars, feedVars, brokerVars
<1> QED BY <1>2, <1>3, <1>4, <1>5, <1>6, <1>7, <1>8, <1>9, <1>10
        DEF Next, ExitCheck, RecoveryThread, Quiet

-----------------------------------------------------------------------------
(***************************************************************************)
(* Acks the broker accepts.                                                *)
(***************************************************************************)
\* No worker ever acknowledges what the broker does not wait for.
LEMMA WorkerAcks ==
  ASSUME TypeInv, TagInv, AcksToCome, NEW w \in Workers, Worker(w)
  PROVE  chan' = chan
<1>1. CASE AckIfNecessary(w) /\ AckDue /\ chan = "open"
  <2>1. /\ Ack(tag[w], MultiAckEvery # 0) /\ at[w] = "ack" /\ ~AutoAck
        /\ tag[w] \in Nat /\ BrokerTypes
    BY <1>1, TagTypes DEF AckIfNecessary, MoveTo, AckDue, Workers, TypeInv
  <2>2. /\ chan' \in {"open", "rejected"}
        /\ chan' = "rejected" => tag[w] > offset /\ Settled(tag[w], MultiAckEvery # 0) = {}
    BY <1>1, <2>1, AckAwaited
  <2>3. CASE w = "cur"
    <3>1. tag[w] \in Settled(tag[w], MultiAckEvery # 0)
      BY <1>1, <2>1, <2>3 DEF AcksToCome, Settled, Awaited
    <3> QED BY <1>1, <2>2, <3>1
  <2>4. CASE w = "old"
    <3>1. offset \in Nat /\ tag[w] <= offset
      BY <1>1, <2>1, <2>4 DEF TagInv, OldTags, BrokerTypes
    <3> QED BY <1>1, <2>1, <2>2, <3>1
  <2> QED BY <2>3, <2>4 DEF Workers
<1>2. CASE ~(AckIfNecessary(w) /\ AckDue /\ chan = "open")
  BY <1>2 DEF Worker, HandleDelivery, Process, AckIfNecessary, MarkAcked, CommitIfNecessary,
              WriteError, Finish, TxCommit, brokerVars
<1> QED BY <1>1, <1>2

\* The channel of a worker whose ack is next closes on that ack only if something
\* else closes it.
LEMMA AcksValid ==
  ASSUME TypeInv, TagInv, AcksToCome, [Next]_vars, NEW w \in Workers,
         at[w] = "ack", at'[w] # "ack", chan' = "rejected"
  PROVE  chan = "rejected"
<1>1. CASE \E v \in Workers : Worker(v)
  BY <1>1, WorkerAcks
<1>2. CASE ConnectionLost
  BY <1>2 DEF ConnectionLost, Close
<1>3. CASE ~(\E v \in Workers : Worker(v)) /\ ~ConnectionLost
  <2>1. at' = at
    BY <1>3, ExitStep DEF Next, vars, Publish, Deliver, HandleShutdownSignal, TimePasses,
           ExitCheck, CheckFirst, CheckIdle, CountDownExit, RecoveryThread, Reopen,
           RecoverResetEpoch, RecoverConsume, Quiet, workVars
  <2> QED BY <2>1
<1> QED BY <1>1, <1>2, <1>3

\* The broker refuses no ack of a worker, on any option, although the exit-when
\* check reads the tags and acknowledges them in steps of its own.
THEOREM Acknowledgements == Spec => ValidAcks
<1>1. Spec => [](TypeInv /\ TagInv /\ AcksToCome)
  BY InitTypeInv, InitTagInv, InitAcksToCome, StepTypeInv, StepTagInv, StepAcksToCome, PTL
     DEF Spec
<1>2. ASSUME TypeInv, TagInv, AcksToCome, [Next]_vars
      PROVE  [\A w \in Workers :
                (at[w] = "ack" /\ at'[w] # "ack") => (chan' = "rejected" => chan = "rejected")]_vars
  BY <1>2, AcksValid
<1> QED BY <1>1, <1>2, PTL DEF Spec, ValidAcks

-----------------------------------------------------------------------------
(***************************************************************************)
(* Deliveries left unacknowledged: one ack per message.                    *)
(***************************************************************************)
\* One ack per message and no transactions.
Prompt(o) == o.txSize = 0 /\ o.multiAckEvery \in {0, 1}

\* lastAckedDeliveryTag is the tag of a delivery.
AckedTag == lastAckedDeliveryTag <= Len(origin)

\* Among the deliveries a worker has taken only the one in hand, until its ack,
\* and those past the limit are unacknowledged; none of them is at or before the
\* tag acknowledged last.
PromptInv ==
  Prompt(params) =>
    /\ txAcks = {}
    /\ \A u \in unacked :
         /\ \/ u > Delivered
            \/ u = Delivered /\ at["cur"] \in {"received", "ack"}
            \/ MsgLimit # 0 /\ received > MsgLimit
         /\ at["cur"] = "ack" => u >= tag["cur"]
         /\ at["cur"] \in {"mark", "commit"} => u > tag["cur"]
         /\ u > lastAckedDeliveryTag

LEMMA InitAckedTag == Init => AckedTag
BY DEF Init, AckedTag

LEMMA StepAckedTag == TypeInv /\ AckedTag /\ [Next]_vars => AckedTag'
<1> SUFFICES ASSUME TypeInv, AckedTag, [Next]_vars PROVE AckedTag'
  OBVIOUS
<1>1. /\ lastAckedDeliveryTag \in Nat /\ Len(origin) \in Nat
      /\ \A w \in Workers : tag[w] \in 0..Len(origin)
  BY TagTypes DEF TypeInv, WorkTypes
<1>2. \A q \in Queues : Len(Append(origin, q)) = Len(origin) + 1
  BY DEF TypeInv, BrokerTypes
<1>3. origin' = origin \/ \E q \in Queues : origin' = Append(origin, q)
  BY DEF Next, vars, Publish, Deliver, Worker, HandleDelivery, Process, AckIfNecessary, MarkAcked,
         CommitIfNecessary, WriteError, Finish, HandleShutdownSignal, TimePasses, ExitCheck,
         CheckFirst, CheckIdle, MaybeAckCommitBeforeExit, ReadLastAcked,
         CompareLastDelivery, ReadLastDelivery, AckBeforeExit, CommitBeforeExit, CountDownExit,
         ConnectionLost,
         RecoveryThread, Reopen, RecoverResetEpoch, RecoverConsume, Quiet, feedVars
<1>4. \/ lastAckedDeliveryTag' = lastAckedDeliveryTag
      \/ \E w \in Workers : lastAckedDeliveryTag' = tag[w]
  BY DEF Next, vars, Publish, Deliver, Worker, HandleDelivery, Process, AckIfNecessary, MarkAcked,
         CommitIfNecessary, WriteError, Finish, HandleShutdownSignal, TimePasses, ExitCheck,
         CheckFirst, CheckIdle, MaybeAckCommitBeforeExit, ReadLastAcked,
         CompareLastDelivery, ReadLastDelivery, AckBeforeExit, CommitBeforeExit, CountDownExit,
         ConnectionLost,
         RecoveryThread, Reopen, RecoverResetEpoch, RecoverConsume, Quiet, tagVars
<1>5. Len(origin') \in Nat /\ Len(origin) <= Len(origin')
  BY <1>1, <1>2, <1>3
<1>6. lastAckedDeliveryTag' <= Len(origin)
  BY <1>1, <1>4 DEF AckedTag
<1>7. lastAckedDeliveryTag' \in Nat
  BY <1>1, <1>4
<1> QED BY <1>1, <1>5, <1>6, <1>7 DEF AckedTag

LEMMA InitPromptInv == Init => PromptInv
BY DEF Init, PromptInv

\* The facts about the options with one ack per message.
LEMMA PromptOptions ==
  ASSUME params \in Options, Prompt(params)
  PROVE  TxSize = 0 /\ AckInterval = 1 /\ ~CommitDue
BY DEF Prompt, TxSize, AckInterval, MultiAckEvery, CommitDue

LEMMA WorkerPromptInv ==
  ASSUME TypeInv, TagInv, TagInv', AcksToCome, PromptInv, Prompt(params),
         NEW w \in Workers, Worker(w), MsgLimit' = MsgLimit
  PROVE  PromptInv'
<1>1. /\ Len(origin) \in Nat /\ Delivered \in Int /\ w \in {"cur", "old"} /\ offset \in Nat
      /\ at \in [{"cur", "old"} -> {"idle", "received", "ack", "mark", "commit", "finish"}]
      /\ tag \in [{"cur", "old"} -> Nat] /\ BrokerTypes /\ MsgLimit \in Nat /\ received \in Nat
      /\ lastAckedDeliveryTag \in Nat /\ TxSize = 0 /\ AckInterval = 1 /\ ~CommitDue
  BY TagTypes, OptionTypes, PromptOptions DEF Workers, TypeInv, ThreadTypes, CountTypes
<1>2. \A u \in unacked : u \in Nat /\ u > offset /\ chan = "open"
  BY <1>1 DEF BrokerTypes
<1>3. /\ txAcks = {}
      /\ \A u \in unacked :
           /\ \/ u > Delivered
              \/ u = Delivered /\ at["cur"] \in {"received", "ack"}
              \/ MsgLimit # 0 /\ received > MsgLimit
           /\ at["cur"] = "ack" => u >= tag["cur"]
           /\ at["cur"] \in {"mark", "commit"} => u > tag["cur"]
           /\ u > lastAckedDeliveryTag
  BY DEF PromptInv
<1>4. CASE HandleDelivery(w)
  <2>1. UNCHANGED <<unacked, txAcks, lastAckedDeliveryTag>>
    BY <1>4 DEF HandleDelivery, brokerVars, tagVars
  <2>2. CASE chan = "open"
    <3>1. received' = received + 1
      BY <1>4, <2>2 DEF HandleDelivery
    <3>2. CASE w = "cur"
      <4>1. Delivered' = Delivered + 1 /\ at["cur"] = "idle" /\ at'["cur"] = "received"
        BY <1>1, <1>4, <2>2, <3>2, HandleTagInv DEF HandleDelivery
      <4> QED BY <1>1, <1>2, <1>3, <2>1, <3>1, <4>1 DEF PromptInv
    <3>3. CASE w = "old"
      <4>1. Delivered' = Delivered /\ at'["cur"] = at["cur"] /\ tag'["cur"] = tag["cur"]
        BY <1>1, <1>4, <2>2, <3>3, HandleTagInv DEF HandleDelivery
      <4> QED BY <1>1, <1>2, <1>3, <2>1, <3>1, <4>1 DEF PromptInv
    <3> QED BY <1>1, <3>2, <3>3
  <2>3. CASE chan # "open"
    BY <1>2, <1>3, <2>1, <2>3 DEF PromptInv
  <2> QED BY <2>2, <2>3
<1>5. CASE ~HandleDelivery(w)
  <2>1. Process(w) \/ AckIfNecessary(w) \/ MarkAcked(w) \/ CommitIfNecessary(w)
           \/ WriteError(w) \/ Finish(w)
    BY <1>5 DEF Worker
  <2>2. Delivered' = Delivered /\ UNCHANGED <<tag, received>>
    BY <2>1, WorkTagInv DEF Process, AckIfNecessary, MarkAcked, CommitIfNecessary, WriteError,
         Finish,
                            countVars
  <2>3. CASE Process(w)
    <3>1. UNCHANGED <<unacked, txAcks, lastAckedDeliveryTag>>
      BY <2>3 DEF Process, brokerVars, tagVars
    <3>2. CASE w = "cur"
      <4>1. /\ at["cur"] = "received" /\ tag["cur"] = Delivered
            /\ at'["cur"] = IF WithinLimit THEN "ack" ELSE "finish"
        BY <1>1, <2>3, <3>2 DEF Process, MoveTo, TagInv, InOrder
      <4> QED BY <1>1, <1>2, <1>3, <2>2, <3>1, <4>1 DEF PromptInv, WithinLimit
    <3>3. CASE w = "old"
      <4>1. at'["cur"] = at["cur"]
        BY <1>1, <2>3, <3>3 DEF Process, MoveTo
      <4> QED BY <1>1, <1>2, <1>3, <2>2, <3>1, <4>1 DEF PromptInv
    <3> QED BY <1>1, <3>2, <3>3
  <2>4. CASE AckIfNecessary(w)
    <3>1. CASE AckDue /\ chan = "open"
      <4>1. /\ Ack(tag[w], MultiAckEvery # 0) /\ tag[w] \in Nat /\ ~AutoAck
            /\ lastAckedDeliveryTag' = lastAckedDeliveryTag
        BY <1>1, <2>4, <3>1 DEF AckIfNecessary, AckDue, tagVars
      <4>2. chan' = "open"
        BY <3>1, WorkerAcks
      <4>3. /\ txAcks' = {}
            /\ ~(tag[w] > offset) => unacked' = unacked
            /\ tag[w] > offset => unacked' = unacked \ Settled(tag[w], MultiAckEvery # 0)
        BY <1>1, <1>3, <3>1, <4>1, <4>2, AckEffect
      <4>4. CASE w = "cur"
        <5>1. /\ at["cur"] = "ack" /\ at'["cur"] = "mark"
              /\ tag["cur"] = Delivered /\ tag["cur"] > offset
          BY <1>1, <2>4, <3>1, <4>4 DEF AckIfNecessary, MoveTo, TagInv, InOrder
        <5>2. tag["cur"] \in Settled(tag["cur"], MultiAckEvery # 0)
          BY <3>1, <4>1, <5>1 DEF AcksToCome, Settled, Awaited
        <5>3. \A u \in unacked' : u \in unacked /\ u > tag["cur"]
          BY <1>1, <1>2, <1>3, <4>3, <4>4, <5>1, <5>2
        <5> QED BY <1>1, <1>2, <1>3, <2>2, <4>1, <4>3, <4>4, <5>1, <5>3 DEF PromptInv
      <4>5. CASE w = "old"
        <5>1. at'["cur"] = at["cur"] /\ tag["old"] <= offset
          BY <1>1, <2>4, <3>1, <4>5 DEF AckIfNecessary, MoveTo, TagInv, OldTags
        <5> QED BY <1>1, <1>2, <1>3, <2>2, <4>1, <4>3, <4>5, <5>1 DEF PromptInv
      <4> QED BY <1>1, <4>4, <4>5
    <3>2. CASE ~(AckDue /\ chan = "open")
      <4>1. unacked = {}
        <5>1. AckDue \/ AutoAck
          BY <1>1 DEF AckDue, TypeInv, CountTypes
        <5> QED BY <1>2, <3>2, <5>1 DEF AcksToCome
      <4>2. UNCHANGED <<unacked, txAcks>>
        BY <2>4, <3>2 DEF AckIfNecessary, brokerVars
      <4> QED BY <1>3, <4>1, <4>2 DEF PromptInv
    <3> QED BY <3>1, <3>2
  <2>7. CASE MarkAcked(w)
    <3>1. UNCHANGED <<unacked, txAcks>> /\ lastAckedDeliveryTag' = tag[w] /\ at[w] = "mark"
      BY <2>7 DEF MarkAcked, MoveTo, brokerVars
    <3>2. CASE w = "cur"
      <4>1. at'["cur"] = "commit"
        BY <1>1, <2>7, <3>2 DEF MarkAcked, MoveTo
      <4> QED BY <1>1, <1>2, <1>3, <2>2, <3>1, <3>2, <4>1 DEF PromptInv
    <3>3. CASE w = "old"
      <4>1. at'["cur"] = at["cur"] /\ (chan = "open" => tag["old"] <= offset)
        BY <1>1, <2>7, <3>1, <3>3 DEF MarkAcked, MoveTo, TagInv, OldTags
      <4> QED BY <1>1, <1>2, <1>3, <2>2, <3>1, <3>3, <4>1 DEF PromptInv
    <3> QED BY <1>1, <3>2, <3>3
  <2>5. CASE CommitIfNecessary(w) \/ Finish(w)
    <3>1. UNCHANGED <<unacked, txAcks, lastAckedDeliveryTag>>
      BY <1>1, <2>5 DEF CommitIfNecessary, Finish, tagVars, brokerVars
    <3>2. at'["cur"] = at["cur"] \/ (at["cur"] \in {"commit", "finish"}
                                     /\ at'["cur"] \in {"finish", "idle"})
      BY <1>1, <2>5 DEF CommitIfNecessary, Finish, MoveTo
    <3> QED BY <1>3, <2>2, <3>1, <3>2 DEF PromptInv
  <2>6. CASE WriteError(w)
    BY <1>2, <1>3, <2>6 DEF WriteError, PromptInv, brokerVars
  <2> QED BY <2>1, <2>3, <2>4, <2>5, <2>6, <2>7
<1> QED BY <1>4, <1>5

LEMMA StepPromptInv ==
  TypeInv /\ TagInv /\ AcksToCome /\ AckedTag /\ PromptInv /\ [Next]_vars => PromptInv'
<1> SUFFICES ASSUME TypeInv, TagInv, AcksToCome, AckedTag, PromptInv, [Next]_vars,
                    Prompt(params)
             PROVE  PromptInv'
  BY SameOptions DEF PromptInv
<1>1. /\ TagInv' /\ MsgLimit' = MsgLimit /\ Len(origin) \in Nat /\ Delivered \in Int
      /\ BrokerTypes /\ lastAckedDeliveryTag \in Nat /\ TxSize = 0
  BY StepTagInv, SameOptions, TagTypes, PromptOptions DEF TypeInv, ThreadTypes
<1>2. ASSUME txAcks' = {}, unacked' \subseteq unacked, Delivered' = Delivered,
             UNCHANGED <<at, tag, received, lastAckedDeliveryTag>>
      PROVE  PromptInv'
  BY <1>1, <1>2 DEF PromptInv
<1>3. txAcks = {} /\ (chan # "open" => unacked = {})
  BY <1>1 DEF PromptInv, BrokerTypes
<1>4. ASSUME UNCHANGED <<origin, workVars, received, lastAckedDeliveryTag, unacked, txAcks>>
      PROVE  PromptInv'
  BY <1>2, <1>3, <1>4 DEF workVars, Delivered
<1>5. ASSUME NEW q \in Queues, Publish(q) PROVE PromptInv'
  BY <1>4, <1>5 DEF Publish, countVars, tagVars
<1>6. ASSUME NEW q \in Queues, Deliver(q) PROVE PromptInv'
  <2>1. Delivered' = Delivered /\ Delivered <= Len(origin)
    BY <1>1, <1>6, DeliverTagInv, TagTypes DEF Delivered
  <2>2. /\ \A u \in unacked' : u \in unacked \/ u = Len(origin) + 1
        /\ UNCHANGED <<txAcks, at, tag, received, lastAckedDeliveryTag>>
    BY <1>6 DEF Deliver, countVars, tagVars
  <2>3. /\ at["cur"] # "idle" => tag["cur"] = Delivered
        /\ lastAckedDeliveryTag <= Len(origin)
    BY DEF TagInv, InOrder, AckedTag
  <2> QED BY <1>1, <2>1, <2>2, <2>3 DEF PromptInv
<1>7. CASE \E w \in Workers : Worker(w)
  BY <1>1, <1>7, WorkerPromptInv
<1>8. CASE MaybeAckCommitBeforeExit
  <2>1. UNCHANGED <<origin, workVars, received, lastAckedDeliveryTag>>
    BY <1>8, ExitStep DEF feedVars, countVars, tagVars
  <2>2. CASE AckBeforeExit /\ chan = "open"
    <3>1. Ack(seen, TRUE) /\ seen \in Nat
      BY <2>2, TagTypes DEF AckBeforeExit
    <3>2. txAcks' = {} /\ unacked' \subseteq unacked
      BY <1>1, <1>3, <2>2, <3>1, AckEffect
    <3> QED BY <1>2, <2>1, <3>2 DEF workVars, Delivered
  <2>3. CASE CommitBeforeExit
    <3>1. txAcks' = {} /\ unacked' \subseteq unacked
      BY <2>3 DEF CommitBeforeExit, TxCommit
    <3> QED BY <1>2, <2>1, <3>1 DEF workVars, Delivered
  <2>4. CASE ~(AckBeforeExit /\ chan = "open") /\ ~CommitBeforeExit
    <3>1. UNCHANGED brokerVars
      BY <1>8, <2>4 DEF MaybeAckCommitBeforeExit, ReadLastAcked, CompareLastDelivery,
                        ReadLastDelivery, AckBeforeExit
    <3> QED BY <1>4, <2>1, <3>1 DEF brokerVars
  <2> QED BY <2>2, <2>3, <2>4
<1>9. CASE ConnectionLost
  BY <1>9 DEF ConnectionLost, Close, PromptInv
<1>10. CASE HandleShutdownSignal \/ TimePasses \/ CheckFirst \/ CheckIdle \/ CountDownExit
  BY <1>4, <1>10 DEF HandleShutdownSignal, TimePasses, CheckFirst, CheckIdle, CountDownExit,
                     feedVars, brokerVars, countVars, tagVars
<1>11. CASE RecoveryThread
  BY <1>4, <1>11 DEF RecoveryThread, Reopen, RecoverResetEpoch, RecoverConsume, feedVars,
                     brokerVars, countVars, tagVars
<1>12. CASE UNCHANGED vars
  BY <1>4, <1>12 DEF vars, feedVars, brokerVars, countVars, tagVars
<1> QED BY <1>5, <1>6, <1>7, <1>8, <1>9, <1>10, <1>11, <1>12 DEF Next, ExitCheck, Quiet

-----------------------------------------------------------------------------
(***************************************************************************)
(* Deliveries left unacknowledged: one ack per batch, without recovery.    *)
(***************************************************************************)
AckEvery(o) == IF o.multiAckEvery = 0 THEN 1 ELSE o.multiAckEvery

\* One connection, and transactions, if any, as long as the batches of acks.
Batched(o) == ~o.recovery /\ o.txSize \in {0, AckEvery(o)}

\* The deliveries whose ack was due or passed over: the one in hand is not.
Passed == IF at["cur"] \in {"received", "ack"} THEN Delivered - 1 ELSE Delivered

\* The worker is between the ack and the commit of a full batch.
Committing == at["cur"] \in {"mark", "commit"} /\ CommitDue

\* Deliveries since the last full batch.
Recent(S) == \A u \in S : u > Passed - (Passed % AckInterval)

\* On its only channel the consumer counts what it is delivered, so that within
\* the limit only the deliveries since the last full batch are unacknowledged,
\* and a transaction is open only between the ack and the commit of a batch, or
\* those of the exit-when check.
BatchInv ==
  (Batched(params) /\ chan = "open") =>
    /\ epochMessageCount = Delivered /\ received = Delivered
    /\ at["cur"] = "ack" => WithinLimit
    /\ WithinLimit => Recent(Awaited) /\ (Committing \/ Recent(txAcks))
    /\ \A u \in Awaited : u > lastAckedDeliveryTag
    /\ at["cur"] = "mark" => \A u \in Awaited : u > tag["cur"]
    /\ txAcks # {} => TxSize # 0 /\ (Committing \/ epc = "commit")

\* A full batch starts a new one, any other message is of the same batch.
LEMMA BatchStart ==
  ASSUME NEW n \in Nat \ {0}, NEW k \in Nat \ {0}
  PROVE  /\ n - (n % k) \in Int /\ n - (n % k) <= n
         /\ n % k # 0 => n - (n % k) = (n - 1) - ((n - 1) % k)
<1>1. n - 1 \in Nat /\ (n - 1) + 1 = n
  OBVIOUS
<1>2. /\ (n - 1) % k \in 0..(k - 1)
      /\ ((n - 1) % k) + 1 < k => n % k = ((n - 1) % k) + 1
      /\ ((n - 1) % k) + 1 >= k => n % k = 0
  BY <1>1, NextRemainder
<1>3. n % k \in 0..(k - 1)
  BY NextRemainder
<1> DEFINE r == n % k
           p == (n - 1) % k
<1>4. r \in 0..(k - 1) /\ p \in 0..(k - 1) /\ (r # 0 => r = p + 1)
  BY <1>2, <1>3
<1> HIDE DEF r, p
<1>5. n - r \in Int /\ n - r <= n /\ (r # 0 => n - r = (n - 1) - p)
  BY <1>4
<1> QED BY <1>5 DEF r, p

LEMMA InitBatchInv == Init => BatchInv
<1> SUFFICES ASSUME Init PROVE BatchInv
  OBVIOUS
<1>1. /\ origin = <<>> /\ pool["cur"] = <<>> /\ at["cur"] = "idle" /\ unacked = {}
      /\ txAcks = {} /\ received = 0 /\ epochMessageCount = 0
  BY DEF Init, Workers
<1>2. Delivered = 0 /\ Awaited = {}
  BY <1>1 DEF Delivered, Awaited
<1> QED BY <1>1, <1>2 DEF BatchInv, Recent

\* The facts about the options with batches.
LEMMA BatchedOptions ==
  ASSUME params \in Options, Batched(params)
  PROVE  ~RecoveryEnabled /\ TxSize \in {0, AckInterval}
BY DEF Batched, AckEvery, TxSize, AckInterval, MultiAckEvery, RecoveryEnabled

\* The facts a step of the only worker starts from.
LEMMA OneWorker ==
  ASSUME TypeInv, OneConnection, ~RecoveryEnabled, chan = "open", NEW w \in Workers, Worker(w)
  PROVE  w = "cur"
<1>1. pool["old"] = <<>> /\ at["old"] = "idle"
  BY DEF OneConnection
<1> QED BY <1>1 DEF Worker, HandleDelivery, Process, AckIfNecessary, MarkAcked, CommitIfNecessary,
                    WriteError, Finish, MoveTo, Workers

LEMMA WorkerBatchInv ==
  ASSUME TypeInv, TagInv, AcksToCome, OneConnection, BatchInv, Batched(params),
         NEW w \in Workers, Worker(w), MsgLimit' = MsgLimit, TxSize' = TxSize,
         AckInterval' = AckInterval, chan' = "open"
  PROVE  BatchInv'
<1> DEFINE n == Delivered
           k == AckInterval
<1>1. /\ MsgLimit \in Nat /\ k \in Nat \ {0} /\ TxSize \in {0, k} /\ ~RecoveryEnabled
      /\ received \in Nat /\ lastAckedDeliveryTag \in Nat /\ n \in Int /\ offset \in Nat
      /\ at \in [{"cur", "old"} -> {"idle", "received", "ack", "mark", "commit", "finish"}]
      /\ BrokerTypes
  BY OptionTypes, BatchedOptions, TagTypes DEF TypeInv, ThreadTypes, CountTypes
<1>2. chan = "open"
  BY WorkerAcks
<1>3. w = "cur"
  BY <1>1, <1>2, OneWorker
<1>4. /\ epochMessageCount = n /\ received = n /\ n \in Nat
      /\ at["cur"] = "ack" => WithinLimit
      /\ WithinLimit => Recent(Awaited) /\ (Committing \/ Recent(txAcks))
      /\ \A u \in Awaited : u > lastAckedDeliveryTag
      /\ at["cur"] = "mark" => \A u \in Awaited : u > tag["cur"]
      /\ txAcks # {} => TxSize # 0 /\ (Committing \/ epc = "commit")
  BY <1>1, <1>2 DEF BatchInv
<1>5. at["cur"] # "idle" => tag["cur"] = n /\ n \in Nat \ {0}
  BY <1>1 DEF TagInv, InOrder
<1>6. \A u \in Awaited : u \in Nat
  BY <1>1 DEF Awaited, BrokerTypes
<1>7. epc' = epc
  BY DEF Worker, HandleDelivery, Process, AckIfNecessary, MarkAcked, CommitIfNecessary,
         WriteError, Finish, exitVars
\* A step that leaves the deliveries and what has passed alone.
<1>8. ASSUME Awaited' = Awaited, txAcks' \subseteq txAcks, Passed' = Passed,
             epochMessageCount' = Delivered', received' = Delivered',
             at'["cur"] = "ack" => WithinLimit', WithinLimit' => WithinLimit,
             \A u \in Awaited : u > lastAckedDeliveryTag', at'["cur"] # "mark",
             Committing => Committing' \/ txAcks' = {}
      PROVE  BatchInv'
  <2> HIDE DEF n, k
  <2>1. \A S : Recent(S) => \A u \in S : u > Passed' - (Passed' % AckInterval')
    BY <1>8 DEF Recent
  <2>2. WithinLimit' => Recent(Awaited)'
    BY <1>4, <1>8, <2>1 DEF Recent
  <2>3. WithinLimit' => (Committing' \/ Recent(txAcks)')
    BY <1>4, <1>8, <2>1 DEF Recent
  <2> QED BY <1>4, <1>7, <1>8, <2>2, <2>3 DEF BatchInv
<1>9. CASE HandleDelivery(w)
  <2>1. /\ UNCHANGED <<unacked, txAcks, lastAckedDeliveryTag>> /\ Awaited' = Awaited
        /\ epochMessageCount' = epochMessageCount + 1 /\ received' = received + 1
        /\ at["cur"] = "idle" /\ at'["cur"] = "received"
    BY <1>1, <1>2, <1>3, <1>9 DEF HandleDelivery, brokerVars, tagVars, Awaited
  <2>2. Delivered' = n + 1
    BY <1>3, <1>9, HandleTagInv
  <2>3. Passed = n /\ Passed' = n
    BY <1>1, <2>1, <2>2 DEF Passed
  <2>4. (WithinLimit' => WithinLimit) /\ ~Committing
    BY <1>1, <2>1 DEF WithinLimit, Committing
  <2> HIDE DEF n, k
  <2> QED BY <1>4, <1>8, <2>1, <2>2, <2>3, <2>4
<1>10. CASE ~HandleDelivery(w)
  <2>1. Process(w) \/ AckIfNecessary(w) \/ MarkAcked(w) \/ CommitIfNecessary(w)
           \/ WriteError(w) \/ Finish(w)
    BY <1>10 DEF Worker
  <2>2. /\ Delivered' = n /\ UNCHANGED <<tag, received, epochMessageCount>>
        /\ WithinLimit' = WithinLimit /\ CommitDue' = CommitDue
    BY <2>1, WorkTagInv DEF Process, AckIfNecessary, MarkAcked, CommitIfNecessary, WriteError,
                            Finish, countVars, WithinLimit, CommitDue
  <2>3. CASE Process(w)
    <3>1. /\ UNCHANGED <<unacked, txAcks, lastAckedDeliveryTag>> /\ Awaited' = Awaited
          /\ at["cur"] = "received" /\ at'["cur"] = IF WithinLimit THEN "ack" ELSE "finish"
      BY <1>1, <1>3, <2>3 DEF Process, MoveTo, brokerVars, tagVars, Awaited
    <3>2. ~Committing
      BY <3>1 DEF Committing
    <3>3. CASE WithinLimit
      <4>1. Passed' = Passed
        BY <2>2, <3>1, <3>3 DEF Passed
      <4> HIDE DEF n, k
      <4> QED BY <1>4, <1>8, <2>2, <3>1, <3>2, <3>3, <4>1 DEF n
    <3>4. CASE ~WithinLimit
      <4> HIDE DEF n, k
      <4> QED BY <1>4, <1>7, <2>2, <3>1, <3>2, <3>4 DEF BatchInv, n
    <3> QED BY <3>3, <3>4
  <2>4. CASE AckIfNecessary(w)
    <3>1. /\ at["cur"] = "ack" /\ at'["cur"] = (IF AckDue THEN "mark" ELSE "commit")
          /\ WithinLimit /\ lastAckedDeliveryTag' = lastAckedDeliveryTag
      BY <1>1, <1>2, <1>3, <1>4, <2>4 DEF AckIfNecessary, MoveTo, tagVars
    <3>2. /\ Passed = n - 1 /\ Passed' = n /\ tag["cur"] = n /\ n \in Nat \ {0}
          /\ ~Committing
      BY <1>4, <1>5, <2>2, <3>1 DEF Passed, Committing
    <3>3. /\ \A u \in Awaited : u > (n - 1) - ((n - 1) % k)
          /\ \A u \in txAcks : u > (n - 1) - ((n - 1) % k)
      BY <1>4, <3>1, <3>2 DEF Recent
    <3>4. /\ n - (n % k) \in Int /\ n - (n % k) <= n /\ n % k \in 0..(k - 1)
          /\ n % k # 0 => n - (n % k) = (n - 1) - ((n - 1) % k)
      BY <1>1, <3>2, BatchStart, NextRemainder
    <3>5. CASE AckDue
      <4>1. Ack(n, MultiAckEvery # 0) /\ n % k = 0 /\ ~AutoAck
        BY <1>2, <1>3, <1>4, <2>4, <3>2, <3>5 DEF AckIfNecessary, AckDue
      <4>2. offset = 0
        BY <1>1 DEF OneConnection
      <4>3. /\ Awaited' = Awaited \ Settled(n, MultiAckEvery # 0)
            /\ TxSize = 0 => txAcks' = txAcks
        <5>1. n \in Nat /\ n > offset
          BY <3>2, <4>2
        <5> HIDE DEF n, k
        <5>2. /\ unacked' \ txAcks' = (unacked \ txAcks) \ Settled(n, MultiAckEvery # 0)
              /\ TxSize = 0 => txAcks' = txAcks
          BY <1>1, <1>2, <4>1, <5>1, AckEffect
        <5> QED BY <5>2 DEF Awaited
      <4>4. \A u \in Awaited' : u > n /\ u \in Awaited
        <5>2. CASE MultiAckEvery # 0
          <6> HIDE DEF n, k
          <6>1. \A u \in Awaited : u <= n => u \in Settled(n, MultiAckEvery # 0)
            BY <1>6, <3>2, <5>2 DEF Settled, Awaited
          <6> QED BY <1>6, <3>2, <4>3, <6>1
        <5>3. CASE MultiAckEvery = 0
          <6>1. k = 1
            BY <5>3 DEF AckInterval
          <6>2. \A u \in Awaited : u >= n
            BY <1>6, <3>2, <3>3, <6>1
          <6>3. \A u \in Awaited : u = n => u \in Settled(n, MultiAckEvery # 0)
            BY DEF Settled, Awaited
          <6> QED BY <1>6, <3>2, <4>3, <6>2, <6>3
        <5> QED BY <5>2, <5>3
      <4>5. TxSize # 0 => Committing'
        BY <1>1, <1>4, <2>2, <3>1, <3>5, <4>1 DEF CommitDue, Committing
      <4>6. TxSize = 0 => txAcks' = {}
        BY <1>4, <4>3
      <4> HIDE DEF n, k
      <4>7. Recent(Awaited)' /\ (Committing' \/ Recent(txAcks)')
        BY <3>2, <4>1, <4>4, <4>5, <4>6 DEF Recent, k
      <4> QED BY <1>4, <2>2, <3>1, <3>2, <3>5, <4>4, <4>5, <4>6, <4>7 DEF BatchInv, n
    <3>6. CASE ~AckDue
      <4>1. UNCHANGED <<unacked, txAcks>> /\ Awaited' = Awaited
        BY <2>4, <3>6 DEF AckIfNecessary, brokerVars, Awaited
      <4>2. \A u \in Awaited \cup txAcks : u > n - (n % k)
        <5>1. CASE AutoAck
          BY <5>1 DEF AcksToCome, Awaited, TypeInv, BrokerTypes
        <5>2. CASE ~AutoAck
          <6>1. n % k # 0
            BY <1>4, <3>6, <5>2 DEF AckDue
          <6> HIDE DEF n, k
          <6> QED BY <3>3, <3>4, <6>1
        <5> QED BY <5>1, <5>2
      <4> HIDE DEF n, k
      <4>3. Recent(Awaited)' /\ Recent(txAcks)'
        BY <3>2, <4>1, <4>2 DEF Recent, k
      <4> QED BY <1>4, <1>7, <2>2, <3>1, <3>2, <3>6, <4>1, <4>3 DEF BatchInv, n
    <3> QED BY <3>5, <3>6
  <2>5. CASE MarkAcked(w)
    <3>1. /\ at["cur"] = "mark" /\ at'["cur"] = "commit" /\ lastAckedDeliveryTag' = tag["cur"]
          /\ UNCHANGED <<unacked, txAcks>> /\ Awaited' = Awaited
      BY <1>1, <1>3, <2>5 DEF MarkAcked, MoveTo, brokerVars, Awaited
    <3>2. Passed' = Passed /\ Committing' = Committing
      BY <2>2, <3>1 DEF Passed, Committing
    <3> HIDE DEF n, k
    <3> QED BY <1>4, <1>8, <2>2, <3>1, <3>2 DEF n
  <2>6. CASE CommitIfNecessary(w)
    <3>1. /\ at["cur"] = "commit" /\ at'["cur"] = "finish"
          /\ lastAckedDeliveryTag' = lastAckedDeliveryTag
      BY <1>1, <1>3, <2>6 DEF CommitIfNecessary, MoveTo
    <3>2. Awaited' = Awaited /\ txAcks' \subseteq txAcks /\ (CommitDue => txAcks' = {})
      BY <2>6 DEF CommitIfNecessary, TxCommit, brokerVars, Awaited
    <3>3. Passed' = Passed /\ (Committing => txAcks' = {})
      BY <2>2, <3>1, <3>2 DEF Passed, Committing
    <3> HIDE DEF n, k
    <3> QED BY <1>4, <1>8, <2>2, <3>1, <3>2, <3>3 DEF n
  <2>7. CASE Finish(w)
    <3>1. /\ at["cur"] = "finish" /\ at'["cur"] = "idle" /\ Awaited' = Awaited
          /\ UNCHANGED <<txAcks, lastAckedDeliveryTag>>
      BY <1>1, <1>3, <2>7 DEF Finish, MoveTo, tagVars, brokerVars, Awaited
    <3>2. Passed' = Passed /\ ~Committing
      BY <2>2, <3>1 DEF Passed, Committing
    <3> HIDE DEF n, k
    <3> QED BY <1>4, <1>8, <2>2, <3>1, <3>2 DEF n
  <2>8. CASE WriteError(w)
    BY <1>2, <2>8 DEF WriteError
  <2> QED BY <2>1, <2>3, <2>4, <2>5, <2>6, <2>7, <2>8
<1> QED BY <1>9, <1>10

LEMMA StepBatchInv ==
  TypeInv /\ TagInv /\ AcksToCome /\ OneConnection /\ AckedTag /\ BatchInv /\ [Next]_vars
    => BatchInv'
<1> SUFFICES ASSUME TypeInv, TagInv, AcksToCome, OneConnection, AckedTag, BatchInv, [Next]_vars,
                    Batched(params), chan' = "open"
             PROVE  BatchInv'
  BY SameOptions DEF BatchInv
<1>1. /\ MsgLimit' = MsgLimit /\ TxSize' = TxSize /\ AckInterval' = AckInterval
      /\ AckInterval \in Nat \ {0} /\ TxSize \in Nat /\ ~RecoveryEnabled
      /\ Len(origin) \in Nat /\ Delivered \in Int /\ Delivered <= Len(origin)
      /\ lastAckedDeliveryTag \in Nat /\ BrokerTypes
  BY SameOptions, OptionTypes, BatchedOptions, TagTypes DEF TypeInv, ThreadTypes, Delivered
<1>2. \A u \in Awaited : u \in Nat
  BY <1>1 DEF BatchInv, Awaited, BrokerTypes
\* A step of another thread: the deliveries it adds are recent, those it adds to
\* the transaction were awaited.
<1>3. ASSUME chan = "open", Delivered' = Delivered,
             UNCHANGED <<at, tag, epochMessageCount, received, lastAckedDeliveryTag>>,
             \A u \in Awaited' : u \in Awaited \/ u = Len(origin) + 1,
             \A u \in txAcks' : u \in txAcks \/ u \in Awaited,
             txAcks' # {} => TxSize # 0 /\ (Committing \/ epc' = "commit")
      PROVE  BatchInv'
  <2>1. /\ Passed' = Passed /\ WithinLimit' = WithinLimit /\ CommitDue' = CommitDue
        /\ Committing' = Committing
    BY <1>1, <1>3 DEF Passed, WithinLimit, CommitDue, Committing
  <2>2. /\ epochMessageCount = Delivered /\ received = Delivered
        /\ at["cur"] = "ack" => WithinLimit
        /\ WithinLimit => Recent(Awaited) /\ (Committing \/ Recent(txAcks))
        /\ \A u \in Awaited : u > lastAckedDeliveryTag
        /\ at["cur"] = "mark" => \A u \in Awaited : u > tag["cur"]
    BY <1>3 DEF BatchInv
  <2>3. Len(origin) + 1 > Passed - (Passed % AckInterval)
    <3>1. offset \in Nat /\ offset <= Delivered
          /\ (at["cur"] # "idle" => offset < tag["cur"] /\ tag["cur"] = Delivered)
      BY TagTypes DEF TagInv, InOrder
    <3>2. Passed \in Nat /\ Passed <= Len(origin)
      BY <1>1, <3>1 DEF Passed
    <3>3. Passed % AckInterval \in 0..(AckInterval - 1)
      BY <1>1, <3>2, NextRemainder
    <3> QED BY <1>1, <3>2, <3>3
  <2>4. Len(origin) + 1 > lastAckedDeliveryTag
    BY <1>1 DEF AckedTag
  <2>5. at["cur"] = "mark" => Len(origin) + 1 > tag["cur"]
    BY <1>1 DEF TagInv, InOrder
  <2>6. WithinLimit' => Recent(Awaited)'
    BY <1>1, <1>3, <2>1, <2>2, <2>3 DEF Recent
  <2>7. WithinLimit' => (Committing' \/ Recent(txAcks)')
    BY <1>1, <1>3, <2>1, <2>2 DEF Recent
  <2>8. \A u \in Awaited' : u > lastAckedDeliveryTag'
    BY <1>3, <2>2, <2>4
  <2>9. at'["cur"] = "mark" => \A u \in Awaited' : u > tag'["cur"]
    BY <1>3, <2>2, <2>5
  <2> QED BY <1>1, <1>3, <2>1, <2>2, <2>6, <2>7, <2>8, <2>9 DEF BatchInv
<1>4. txAcks # {} => TxSize # 0 /\ (Committing \/ epc = "commit")
  BY <1>1 DEF BatchInv, BrokerTypes
<1>5. ASSUME UNCHANGED <<origin, workVars, chan, epochMessageCount, received,
                         lastAckedDeliveryTag, unacked, txAcks>>,
             epc = "commit" => epc' = "commit"
      PROVE  BatchInv'
  BY <1>3, <1>4, <1>5 DEF workVars, Delivered, Awaited
<1>6. ASSUME NEW q \in Queues, Publish(q) PROVE BatchInv'
  BY <1>5, <1>6 DEF Publish, countVars, tagVars, exitVars
<1>7. ASSUME NEW q \in Queues, Deliver(q) PROVE BatchInv'
  <2>1. Delivered' = Delivered /\ chan = "open"
    BY <1>7, DeliverTagInv DEF Deliver
  <2>2. UNCHANGED <<txAcks, at, tag, epochMessageCount, received, lastAckedDeliveryTag, epc>>
    BY <1>7 DEF Deliver, countVars, tagVars, exitVars
  <2>3. \A u \in Awaited' : u \in Awaited \/ u = Len(origin) + 1
    BY <1>7 DEF Deliver, Awaited
  <2> QED BY <1>3, <1>4, <2>1, <2>2, <2>3
<1>8. CASE \E w \in Workers : Worker(w)
  BY <1>1, <1>8, WorkerBatchInv
<1>9. CASE MaybeAckCommitBeforeExit
  <2>1. /\ UNCHANGED <<origin, workVars, pool, at, tag, epochMessageCount, received,
                       lastAckedDeliveryTag>>
        /\ Delivered' = Delivered /\ chan = "open"
    BY <1>9, ExitStep DEF feedVars, countVars, tagVars, workVars, Delivered
  <2>2. CASE AckBeforeExit
    <3>1. Ack(seen, TRUE) /\ seen \in Nat /\ epc = "ack" /\ (TxSize # 0 => epc' = "commit")
      BY <2>1, <2>2, TagTypes DEF AckBeforeExit
    <3>2. /\ (unacked' \ txAcks') \subseteq (unacked \ txAcks)
          /\ txAcks' \subseteq txAcks \cup Settled(seen, TRUE)
          /\ TxSize = 0 => txAcks' = txAcks
      BY <1>1, <2>1, <3>1, AckEffect
    <3>3. Settled(seen, TRUE) \subseteq Awaited
      BY DEF Settled, Awaited
    <3> QED BY <1>3, <1>4, <2>1, <3>1, <3>2, <3>3 DEF Awaited
  <2>3. CASE CommitBeforeExit
    <3>1. Awaited' = Awaited /\ txAcks' = {}
      BY <2>3 DEF CommitBeforeExit, TxCommit, Awaited
    <3> QED BY <1>3, <2>1, <3>1
  <2>4. CASE ~AckBeforeExit /\ ~CommitBeforeExit
    <3>1. UNCHANGED brokerVars /\ epc # "commit"
      BY <1>9, <2>4 DEF MaybeAckCommitBeforeExit, ReadLastAcked, CompareLastDelivery,
                        ReadLastDelivery
    <3> QED BY <1>5, <2>1, <3>1 DEF brokerVars
  <2> QED BY <2>2, <2>3, <2>4
<1>10. CASE ConnectionLost
  BY <1>10 DEF ConnectionLost, Close
<1>11. CASE HandleShutdownSignal \/ TimePasses \/ CheckFirst \/ CheckIdle \/ CountDownExit
  BY <1>5, <1>11 DEF HandleShutdownSignal, TimePasses, CheckFirst, CheckIdle, CountDownExit,
                     feedVars, brokerVars, countVars, tagVars, exitVars
<1>12. CASE RecoveryThread
  BY <1>1, <1>12 DEF RecoveryThread, Reopen, RecoverResetEpoch, RecoverConsume, OneConnection
<1>13. CASE UNCHANGED vars
  BY <1>5, <1>13 DEF vars, feedVars, brokerVars, countVars, tagVars, exitVars
<1> QED BY <1>6, <1>7, <1>8, <1>9, <1>10, <1>11, <1>12, <1>13 DEF Next, ExitCheck, Quiet

-----------------------------------------------------------------------------
(***************************************************************************)
(* The prefetch window and the last ack.                                   *)
(***************************************************************************)
\* The options with which the unacknowledged deliveries stay within a batch of
\* acks: the epoch's count of a batch is that of the channel, and a transaction
\* ends with the batch.
AcksBounded(o) == o.autoAck \/ Prompt(o) \/ Batched(o)

\* What the exit-when check has read of lastAckedDeliveryTag, and what it is about
\* to commit, is behind every delivery the broker waits for.
SeenInv ==
  /\ seen <= Len(origin)
  /\ (epc = "commit" \/ (epc = "compare" /\ AcksBounded(params)))
       => \A u \in Awaited : u > seen

LEMMA InitSeenInv == Init => SeenInv
BY DEF Init, SeenInv

LEMMA StepSeenInv ==
  TypeInv /\ TagInv /\ AcksToCome /\ AckedTag /\ PromptInv /\ BatchInv /\ SeenInv /\ [Next]_vars
    => SeenInv'
<1> SUFFICES ASSUME TypeInv, TagInv, AcksToCome, AckedTag, PromptInv, BatchInv, SeenInv,
                    [Next]_vars
             PROVE  SeenInv'
  OBVIOUS
<1>1. /\ Len(origin) \in Nat /\ seen \in Nat /\ lastDeliveryTag \in Nat /\ params' = params
      /\ lastAckedDeliveryTag \in Nat /\ BrokerTypes
      /\ Delivered <= Len(origin) /\ Delivered \in Int
  BY SameOptions, TagTypes DEF TypeInv, Delivered
<1>2. ASSUME Len(origin') \in Nat, Len(origin) <= Len(origin'), UNCHANGED seen,
             epc' \in {"compare", "commit"} => epc' = epc,
             \A u \in Awaited' : u \in Awaited \/ u = Len(origin) + 1
      PROVE  SeenInv'
  BY <1>1, <1>2 DEF SeenInv
<1>3. ASSUME NEW q \in Queues, Publish(q) \/ Deliver(q) PROVE SeenInv'
  <2>1. \A u \in Awaited' : u \in Awaited \/ u = Len(origin) + 1
    BY <1>3 DEF Publish, Deliver, Awaited
  <2>2. Len(origin') \in Nat /\ Len(origin) <= Len(origin')
    BY <1>1, <1>3 DEF Publish, Deliver, TypeInv, BrokerTypes
  <2> QED BY <1>2, <1>3, <2>1, <2>2 DEF Publish, Deliver, exitVars
<1>4. ASSUME NEW w \in Workers, Worker(w) PROVE SeenInv'
  <2>1. UNCHANGED <<origin, epc, seen>>
    BY <1>4 DEF Worker, HandleDelivery, Process, AckIfNecessary, MarkAcked, CommitIfNecessary,
                WriteError, Finish, exitVars, feedVars
  <2>2. Awaited' \subseteq Awaited
    <3>1. CASE AckIfNecessary(w) /\ AckDue /\ chan = "open"
      <4>1. Ack(tag[w], MultiAckEvery # 0) /\ tag[w] \in Nat
        BY <3>1, TagTypes DEF AckIfNecessary, Workers
      <4> QED BY <1>1, <3>1, <4>1, AckEffect DEF Awaited
    <3>2. CASE ~(AckIfNecessary(w) /\ AckDue /\ chan = "open")
      BY <1>4, <3>2 DEF Worker, HandleDelivery, Process, AckIfNecessary, MarkAcked,
                        CommitIfNecessary, WriteError, Finish, TxCommit, brokerVars, Awaited
    <3> QED BY <3>1, <3>2
  <2> QED BY <1>1, <1>2, <2>1, <2>2
<1>5. CASE ReadLastAcked
  <2>1. /\ seen' = lastAckedDeliveryTag /\ epc' = "compare"
        /\ UNCHANGED <<params, origin, brokerVars>> /\ Awaited' = Awaited
    BY <1>5 DEF ReadLastAcked, brokerVars, feedVars, Awaited
  <2>2. AcksBounded(params) => \A u \in Awaited : u > lastAckedDeliveryTag
    BY <1>1 DEF AcksBounded, AutoAck, AcksToCome, PromptInv, BatchInv, Awaited, BrokerTypes
  <2> QED BY <1>1, <2>1, <2>2 DEF SeenInv, AckedTag
<1>6. CASE CompareLastDelivery \/ ReadLastDelivery
  <2>1. /\ epc' \notin {"compare", "commit"} /\ seen' \in {seen, lastDeliveryTag}
        /\ origin' = origin
    BY <1>6 DEF CompareLastDelivery, ReadLastDelivery, feedVars
  <2>2. lastDeliveryTag <= Len(origin)
    BY <1>1 DEF TagInv, Behind, BehindWorker
  <2> QED BY <1>1, <2>1, <2>2 DEF SeenInv
<1>7. CASE AckBeforeExit
  <2>1. origin' = origin /\ seen' = seen /\ epc' # "compare"
    BY <1>7 DEF AckBeforeExit, feedVars
  <2>2. CASE chan = "open"
    <3>1. Ack(seen, TRUE)
      BY <1>7, <2>2 DEF AckBeforeExit
    <3>2. \A u \in Awaited : u \in Nat /\ u > offset /\ offset \in Nat
      BY <1>1 DEF Awaited, BrokerTypes
    <3>3. \A u \in Awaited : ~(u > seen) => u \in Settled(seen, TRUE)
      BY <1>1, <3>2 DEF Settled, Awaited
    <3>4. \A u \in Awaited' : u > seen
      <4>1. CASE seen > offset /\ chan' = "open"
        <5>1. Awaited' = Awaited \ Settled(seen, TRUE)
          BY <1>1, <2>2, <3>1, <4>1, AckAwaited
        <5> QED BY <3>3, <5>1
      <4>2. CASE ~(seen > offset)
        <5>1. Awaited' = Awaited
          BY <1>1, <2>2, <3>1, <4>2, AckEffect DEF Awaited
        <5> QED BY <1>1, <3>2, <4>2, <5>1
      <4>3. CASE chan' # "open"
        BY <1>1, <2>2, <3>1, <4>3, AckEffect DEF Awaited
      <4> QED BY <4>1, <4>2, <4>3
    <3> QED BY <2>1, <3>4 DEF SeenInv
  <2>3. CASE chan # "open"
    BY <1>7, <2>1, <2>3 DEF AckBeforeExit, SeenInv
  <2> QED BY <2>2, <2>3
<1>8. CASE CommitBeforeExit
  BY <1>8 DEF CommitBeforeExit, SeenInv, feedVars
<1>9. CASE HandleShutdownSignal \/ TimePasses \/ CheckFirst \/ CheckIdle \/ CountDownExit
  <2>1. UNCHANGED <<origin, seen, unacked, txAcks>>
        /\ (epc' \in {"compare", "commit"} => epc' = epc)
    BY <1>9 DEF HandleShutdownSignal, TimePasses, CheckFirst, CheckIdle, CountDownExit,
                feedVars, brokerVars, exitVars
  <2> QED BY <1>1, <1>2, <2>1 DEF Awaited
<1>10. CASE ConnectionLost
  BY <1>1, <1>2, <1>10 DEF ConnectionLost, Close, Awaited, exitVars, feedVars
<1>11. CASE RecoveryThread \/ UNCHANGED vars
  <2>1. UNCHANGED <<origin, seen, unacked, txAcks, epc>>
    BY <1>11 DEF RecoveryThread, Reopen, RecoverResetEpoch, RecoverConsume, vars, feedVars,
                 brokerVars, exitVars
  <2> QED BY <1>1, <1>2, <2>1 DEF Awaited
<1> QED BY <1>3, <1>4, <1>5, <1>6, <1>7, <1>8, <1>9, <1>10, <1>11
        DEF Next, ExitCheck, MaybeAckCommitBeforeExit, Quiet

AllInv ==
  /\ TypeInv /\ OneConnection /\ LimitReported /\ TagInv
  /\ AcksToCome /\ AckedTag /\ PromptInv /\ BatchInv /\ SeenInv

\* The invariants of the deliveries, for every set of options, with the exit-when
\* check interleaved between any two steps of the workers.
THEOREM DeliveryInvariance == Spec => []AllInv
<1>1. Init => AllInv
  BY InitTypeInv, InitOneConnection, InitLimitReported, InitTagInv, InitAcksToCome,
     InitAckedTag, InitPromptInv, InitBatchInv, InitSeenInv DEF AllInv
<1>2. AllInv /\ [Next]_vars => AllInv'
  BY StepTypeInv, StepOneConnection, StepLimitReported, StepTagInv, StepAcksToCome,
     StepAckedTag, StepPromptInv, StepBatchInv, StepSeenInv DEF AllInv
<1> QED BY <1>1, <1>2, PTL DEF Spec

\* With a full window and nothing in hand, a batch of acks would be overdue.
LEMMA WindowHasRoom == AllInv => (AcksBounded(params) => NoStarvation)
<1> SUFFICES ASSUME AllInv, AcksBounded(params), reason = "none", chan = "open", AllHandled,
                    Qos > 0
             PROVE  Cardinality(unacked) < Qos
  BY DEF NoStarvation
<1>1. /\ TypeInv /\ OneConnection /\ LimitReported /\ TagInv
      /\ AcksToCome /\ PromptInv /\ BatchInv
  BY DEF AllInv
<1>2. /\ Qos \in Nat /\ MsgLimit \in Nat /\ received \in Nat /\ BrokerTypes
      /\ AckInterval \in Nat \ {0} /\ AckInterval <= Qos
  BY <1>1, OptionTypes DEF TypeInv, ThreadTypes, CountTypes
<1>3. pool["cur"] = <<>> /\ at["cur"] = "idle" /\ at["old"] = "idle"
  BY DEF AllHandled, Workers
<1>4. TxSize = 0 \/ ~RecoveryEnabled => ~(MsgLimit > 0 /\ received >= MsgLimit)
  BY <1>1, <1>3 DEF LimitReported
<1>5. Delivered = Len(origin) /\ Len(origin) \in Nat
  BY <1>1, <1>3, TagTypes DEF Delivered
<1>6. \A u \in unacked : u \in Nat /\ u <= Len(origin)
  BY <1>2, <1>5 DEF BrokerTypes
<1>7. CASE unacked = {}
  <2>1. Cardinality(unacked) = 0
    BY <1>7, FS_EmptySet
  <2> QED BY <1>2, <2>1
<1>8. CASE AutoAck
  BY <1>1, <1>7, <1>8 DEF AcksToCome
<1>9. CASE Prompt(params)
  <2>1. TxSize = 0
    BY <1>9 DEF Prompt, TxSize
  <2>2. unacked = {}
    BY <1>1, <1>2, <1>3, <1>4, <1>5, <1>6, <1>9, <2>1 DEF PromptInv
  <2> QED BY <1>7, <2>2
<1>10. CASE Batched(params)
  <2> DEFINE n == Delivered
             k == AckInterval
  <2>1. WithinLimit /\ ~Committing /\ Passed = n
    BY <1>2, <1>3, <1>4, <1>10 DEF WithinLimit, Committing, Passed, Batched, RecoveryEnabled
  <2>2. n % k \in 0..(k - 1)
    BY <1>2, <1>5, NextRemainder
  <2>3. \A u \in unacked : u > Passed - (Passed % k)
    BY <1>1, <1>10, <2>1 DEF BatchInv, Recent, Awaited
  <2>4. n \in Nat /\ k \in Nat \ {0} /\ k <= Qos /\ \A u \in unacked : u \in Nat /\ u <= n
    BY <1>2, <1>5, <1>6
  <2> DEFINE r == n % k
  <2>5. \A u \in unacked : u > n - r
    BY <2>1, <2>3
  <2>6. r \in 0..(k - 1)
    BY <2>2
  <2> HIDE DEF n, k, r
  <2>7. unacked \subseteq ((n - r) + 1)..n /\ (n - r) + 1 \in Int /\ n \in Int
    BY <2>4, <2>5, <2>6
  <2>8. /\ IsFiniteSet(((n - r) + 1)..n)
        /\ Cardinality(((n - r) + 1)..n) = IF (n - r) + 1 > n THEN 0 ELSE n - ((n - r) + 1) + 1
    BY <2>7, FS_Interval
  <2>9. /\ IsFiniteSet(unacked) /\ Cardinality(unacked) \in Nat
        /\ Cardinality(unacked) <= Cardinality(((n - r) + 1)..n)
    BY <2>7, <2>8, FS_Subset, FS_CardinalityType
  <2>10. Cardinality(((n - r) + 1)..n) = r
    BY <2>4, <2>6, <2>8
  <2> QED BY <1>2, <2>4, <2>6, <2>9, <2>10
<1> QED BY <1>8, <1>9, <1>10 DEF AcksBounded, AutoAck

\* The prefetch window never fills up for good, on every option that keeps the
\* unacknowledged deliveries within a batch.
THEOREM Prefetch == Spec => [](AcksBounded(params) => NoStarvation)
BY DeliveryInvariance, WindowHasRoom, PTL

\* A step of the exit-when check that goes on to count down leaves nothing
\* behind that was handled when it last read lastDeliveryTag.
LEMMA ExitSettles ==
  ASSUME AllInv, AcksBounded(params), MaybeAckCommitBeforeExit, epc # "count", epc' = "count",
         chan' = "open", at["cur"] \notin {"mark", "commit"}
  PROVE  \A t \in unacked' : t > IF epc = "compare" THEN lastDeliveryTag ELSE seen
<1>1. /\ TypeInv /\ AcksToCome /\ PromptInv /\ BatchInv /\ SeenInv /\ BrokerTypes
      /\ offset \in Nat /\ lastDeliveryTag \in Nat /\ seen \in Nat
  BY TagTypes DEF AllInv, TypeInv
<1>2. chan = "open" /\ \A u \in unacked : u \in Nat /\ u > offset
  BY <1>1, ExitStep DEF BrokerTypes
<1>3. epc # "commit" => txAcks = {}
  <2>1. CASE AutoAck
    BY <1>1, <2>1 DEF AcksToCome, BrokerTypes
  <2>2. CASE Prompt(params)
    BY <1>1, <2>2 DEF PromptInv
  <2>3. CASE Batched(params)
    BY <1>1, <1>2, <2>3 DEF BatchInv, Committing
  <2> QED BY <2>1, <2>2, <2>3 DEF AcksBounded, AutoAck
<1>4. CASE CompareLastDelivery
  <2>1. epc = "compare" /\ unacked' = unacked /\ ~ExitAckDue
    BY <1>4 DEF CompareLastDelivery, brokerVars
  <2>2. \A u \in unacked : u > seen
    BY <1>1, <1>3, <2>1 DEF SeenInv, Awaited
  <2>3. CASE AutoAck
    BY <1>1, <2>1, <2>3 DEF AcksToCome
  <2>4. CASE ~AutoAck
    BY <1>1, <1>2, <2>1, <2>2, <2>4 DEF ExitAckDue
  <2> QED BY <2>3, <2>4
<1>5. CASE AckBeforeExit
  <2>1. Ack(seen, TRUE) /\ epc = "ack" /\ TxSize = 0 /\ txAcks = {}
    BY <1>2, <1>3, <1>5 DEF AckBeforeExit
  <2>2. txAcks' = {} /\ unacked' \subseteq unacked
    BY <1>1, <1>2, <2>1, AckEffect
  <2>3. CASE seen > offset
    <3>1. unacked' \ txAcks' = (unacked \ txAcks) \ Settled(seen, TRUE)
      BY <1>1, <1>2, <2>1, <2>3, AckEffect
    <3>2. \A u \in unacked : ~(u > seen) => u \in Settled(seen, TRUE)
      BY <1>1, <1>2, <2>1 DEF Settled
    <3> QED BY <2>1, <2>2, <3>1, <3>2
  <2>4. CASE ~(seen > offset)
    BY <1>1, <1>2, <2>1, <2>2, <2>4
  <2> QED BY <2>3, <2>4
<1>6. CASE CommitBeforeExit
  <2>1. unacked' = Awaited /\ epc = "commit"
    BY <1>6 DEF CommitBeforeExit, TxCommit, Awaited
  <2> QED BY <1>1, <2>1 DEF SeenInv
<1>7. ~ReadLastAcked /\ ~ReadLastDelivery
  BY DEF ReadLastAcked, ReadLastDelivery
<1> QED BY <1>4, <1>5, <1>6, <1>7 DEF MaybeAckCommitBeforeExit

\* The exit-when check leaves no message unacknowledged or uncommitted behind that
\* had been handled when it read lastDeliveryTag, whatever the worker does between
\* its steps, on every option that keeps the unacknowledged deliveries within a
\* batch or has no such check.
THEOREM ExitSettled ==
  (\A o \in Options : AcksBounded(o) \/ o.exitWhen = "never") => (Spec => SettledBeforeExit)
<1> SUFFICES ASSUME \A o \in Options : AcksBounded(o) \/ o.exitWhen = "never"
             PROVE  Spec => SettledBeforeExit
  OBVIOUS
<1>1. ASSUME AllInv, [Next]_vars
      PROVE  [(epc # "count" /\ epc' = "count" /\ chan' = "open"
                 /\ at["cur"] \notin {"mark", "commit"})
                => \A t \in unacked' : t > IF epc = "compare" THEN lastDeliveryTag ELSE seen]_vars
  <2> SUFFICES ASSUME epc # "count", epc' = "count", chan' = "open",
                      at["cur"] \notin {"mark", "commit"}
               PROVE  \A t \in unacked' : t > IF epc = "compare" THEN lastDeliveryTag ELSE seen
    OBVIOUS
  <2>1. MaybeAckCommitBeforeExit
    BY <1>1 DEF Next, vars, Publish, Deliver, Worker, HandleDelivery, Process,
           AckIfNecessary, MarkAcked, CommitIfNecessary, WriteError, Finish,
           HandleShutdownSignal, TimePasses, ExitCheck, CheckFirst, CheckIdle, CountDownExit,
           ConnectionLost, RecoveryThread, Reopen, RecoverResetEpoch, RecoverConsume, Quiet,
           exitVars
  <2>2. epc # "idle"
    BY <2>1 DEF MaybeAckCommitBeforeExit, ReadLastAcked, CompareLastDelivery, ReadLastDelivery,
                AckBeforeExit, CommitBeforeExit
  <2>3. AcksBounded(params)
    BY <1>1, <2>2 DEF AllInv, TypeInv, ThreadTypes, ExitWhen
  <2> QED BY <1>1, <2>1, <2>3, ExitSettles
<1> QED BY <1>1, DeliveryInvariance, PTL DEF Spec, SettledBeforeExit
=============================================================================
