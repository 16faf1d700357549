# A TLA+ model of RabbitMQ PerfTest

PerfTest drives a RabbitMQ broker with producers and consumers and measures
throughput and latency. It is a concurrent Java program: every agent has its
own thread or shares one of an executor, publisher confirms and deliveries come
in on threads of the AMQP client, connections fail and are recovered behind the
agents' back, and one main thread has to find out when all of it is over. This
directory models the parts where that concurrency decides whether a test is
correct and whether it ends.

Paths below are relative to `src/src/main/java/com/rabbitmq/perf/`.

## 1. Inventory

| Component | State | Operations | Interacts with | What makes it correct |
|---|---|---|---|---|
| Producer agent (`Producer`, `AgentBase`) | message count, confirm pool (semaphore), `unconfirmed` map, `completed` flag | `run` or the scheduled runnable, `handlePublish`, `handleAck`/`handleNack`, `recover` | client channel, recovery flag, completion handler, metrics, rate limiter | no more than `--confirm` outstanding, no permit lost, `--pmessages` honoured, always counts down |
| Recovery (`Recovery`) | `recoveryInProgress` | shutdown listener, `handleRecoveryStarted`, `handleRecovery` | agents, topology recording | the flag is reset, agents resume |
| Consumer agent (`Consumer`) | message counts, last delivered and acked tags, last activity, `completed` | `handleDelivery`, acks, commits, exit-when check, `handleShutdownSignal`, `handleCancel`, `recover`, polling loop | client channel, scheduler, completion handler | acks are valid, prefetch window does not starve, `--cmessages` honoured, everything settled at the exit |
| Completion handlers (`MulticastSet`, `PerfTest.getCompletionHandler`) | latch, `completed`, reasons | `countDown`, `waitForCompletion` | all agents, main thread | not early, not never, reasons right |
| Run and shutdown (`MulticastSet`, `ShutdownService`) | tasks, connections, executors, closing callbacks | `run`, `startProducers`, `shutdown`, shutdown hook | everything | nothing left open, each callback once, the program ends |
| Broker start-up (`MulticastSet`) | connections | `waitUntilBrokerAvailable`, `ConnectionCreator` | client | gives up after the timeout, and the program ends |
| Topology (`TopologyRecording`, `MulticastParams`) | recorded exchanges, queues, bindings, names | record, `subRecording`, `recover`, `recoverQueueAndBindings` | recovery, consumers | bindings and consumers use current names, no queue left behind |
| Topology handlers (`MulticastParams`) | position in the sequence of queues | next routing key, queues of a consumer | agents | every queue has its producers and consumers |
| Rate limiter (`RateLimiterUtils`) | stored permits, next free ticket | `create`, `acquire` | producers | rate bounded in any stretch of time, nobody held back |
| Variable values (`VariableValueIndicator`) | current value, schedule | `start`, tick | producers, consumers, metrics | value follows its schedule |
| Metrics (`DefaultPerformanceMetrics`, `Stats`, `ExpectedMetrics`) | counters, last report | count, report, reset, summary | agents, reporting thread, start listener | each event in one report, no rate that was never there |
| Instance synchronization (`DefaultInstanceSynchronization`) | cluster view, states | `synchronize` | other instances | all start or all time out |
| Command line, formatters, message bodies, scenario runner, logging | none that is shared | parse, print | | sequential code and I/O |

The hard behaviours: a failure or a whole recovery between a check and its use
(`handlePublish`), confirms for several messages at once, writes that fail and
count as done, stale deliveries of an old connection, a periodic check that
races with a worker, a latch whose count and whose count-downs are decided in
different classes, exceptions that end a thread nobody waits for, two threads
that both bring a subscription back, names that change under a reader, a signal
in the middle of a shutdown, and counters that are read and reset while others
count.
`PROJECT.json` lists them under `hazards`, each at its line.

## 2. Modules

| Module | Models | Uses |
|---|---|---|
| `Producer` | one producer agent, its recovery process, and the client and broker around it | |
| `MCProducer` | names for the negative option values of `Producer`'s runs | `Producer` |
| `Remainders` | lemmas about remainders, for counts that start again every so many messages | |
| `ProducerProofs` | theorems about `Producer` | `Producer`, `Remainders` |
| `Consumer` | one asynchronous consumer agent, its exit-when check and its recovery | |
| `MCConsumer` | the command lines `Consumer` is checked with | `Consumer` |
| `ConsumerProofs` | theorems about `Consumer` | `Consumer`, `Remainders` |
| `TopologyRecovery` | a queue, its binding, and the subscription to it, through failures and deletions | |
| `MCTopologyRecovery` | the kinds of queue | `TopologyRecovery` |
| `TopologyProofs` | theorems about `TopologyRecovery` | `TopologyRecovery` |
| `CompletionPromise` | what a completion handler promises (abstract) | |
| `Completion` | the two handlers, the agents that count down and the main thread | `CompletionPromise` (refinement) |
| `CompletionProofs` | theorems about `Completion` | `Completion` |
| `Lifecycle` | a run of the program around `Completion`, from the start-up to the end of the JVM | `Completion` |
| `LifecycleProofs` | theorems about `Lifecycle` | `Lifecycle`, `CompletionProofs` |
| `RateLimiter` | the limiter as a value, with the operators on it | |
| `ValueIndicator` | the schedule of a variable value | |
| `Metrics` | counters, reports and summary | |
| `Throughput` | producers at their rate, composed of the three above | `RateLimiter`, `ValueIndicator`, `Metrics` |
| `MCThroughput` | the tests it is checked with | `Throughput` |
| `ScheduleProofs` | lemmas about the period, the intervals and the values of a schedule | `ValueIndicator`, `Remainders` |
| `ThroughputProofs` | theorems about `Throughput` | `Throughput`, `ScheduleProofs` |

### Producer

The producer thread's position is `pc`: `delay` (random start delay), `loop`
(`keepGoing`), `pause` (variable rate of 0), `gate` (`isRecoverying`),
`acquire`, `put` (permit held, message not yet tracked), `send` (tracked, not
yet published), `count`, `commit`, `reply` (a `txCommit` that waits for the
broker), `refused` (it fails), `stats` (the reset of a variable rate),
`drain` (`maybeWaitForPublishConfirms`), `stopped`, `failed`; a scheduled
producer goes back to `idle` instead. Every place another thread can get in
between is a step of its own.

The reader thread handles a confirm in two steps, `HandleAckNack` (the map) and
`ReleasePermits` (the semaphore), as the code does. An ack and a nack differ in
the metric only. `Recovery`'s shutdown listener also runs there. The recovery
thread goes through `HandleRecoveryStarted`, `Reconnect` (the client),
`ComputeUsedPermits` and `ReleaseUsedPermits` (the two lines of
`maybeResetConfirmPool`) and `HandleRecoveryDone`. `ReleaseNegative` is the
`IllegalArgumentException` of `Semaphore.release`.

External (client and broker): the connection fails, the channel is closed, the
client reconnects. A new channel numbers its messages from 1 again. A write that
fails is treated by `AgentBase`: swallowed if recovery is enabled and the
connection is the cause, thrown otherwise. That is a `ShutdownSignalException` or
a `SocketException`; a `txCommit` that was waiting for its answer when the
connection went fails with another `IOException`, which is never swallowed
(`RefusePending`, `TxCommitError`).

The rate limiter is in `Throughput`. Message contents and metrics other than
`published()` are left out: they change none of this state. `handleReturn` only
counts.

### Consumer

A delivery goes through `HandleDelivery`, `Process`, `AckIfNecessary`,
`MarkAcked` (the write of `lastAckedDeliveryTag` after the ack),
`CommitIfNecessary` and `Finish`, the places where `handleMessage` reads or
writes fields other threads use. A commit and its answer are one step, but for a
commit that is pending when the connection is lost (`WriteError`). Two workers exist: `cur` for the channel's
deliveries, `old` for what a lost connection had queued, which `handleDelivery`
still accepts once the channel is open again. Delivery tags are numbered
through over all channels; `offset` marks where the current channel starts. The
client drops acks of older tags, the broker closes the channel for an ack it
does not know, messages on a lost channel are requeued. `recover()` resets the
epoch's count in one step and subscribes in another.

`maybeStopIfNoActivityOrQueueEmpty` is `CheckFirst`, `CheckIdle`,
`maybeAckCommitBeforeExit` and `CountDownExit`. There is no lock between it and
the worker, so `maybeAckCommitBeforeExit` is one step per access:
`ReadLastAcked` and `CompareLastDelivery` (the two sides of its condition),
`ReadLastDelivery`, `AckBeforeExit` and `CommitBeforeExit`. The clock is abstracted to the only
distinction the code makes: never active, active, active more than a second ago.

The options are a variable that never changes (`params`), so that one run covers
several command lines. Nacks (`--nack`) are settled like acks, so only acks are
modelled. The simulated latency is the time between `Process` and
`AckIfNecessary`, which is arbitrary. An interruption during that latency
(shutdown) is not modelled.

### TopologyRecovery

One queue of one consumer. Queue names are numbers, `Original` the one it was
recorded under. Two threads work on the queue: the recovery thread of the
connection (`Reopen`, `Declare`, `Drop`, `Bindings`, that is
`TopologyRecording.recover`, then `Consumer.recover`) and the executor of the
topology recovery, which runs the task of `handleCancel` and the
re-subscriptions it schedules. Both go through `consumeOrScheduleConsume`:
`Check`, then `FormerName`, `Recreate` and `Rebind` (`recoverQueueAndBindings`,
which reads the name, declares the queue and binds it) and `Consume`. A queue is
`Durable` unless it is exclusive. `Fail` is the exception of any of these steps on a lost connection.
`SetQueueNames` and `SetVersion` are `recover()` of a polling consumer,
`SeeVersion`, `ReadNames`, `ReadVersion` the polling loop.

External: the broker deletes queues with their connection or their last
consumer, cancels consumers of a queue that is gone, closes the connection for a
consumer tag in use and the channel for a queue that does not exist; the node of
a durable queue in a cluster goes down and comes up again.

### Completion and Lifecycle

In `Completion` an agent stops, checks `completed`, records its reason and
counts the latch down, in separate steps; the main thread waits, sets
`completed` and records the time limit. `HasLimit` chooses the handler: with no
limit there is no flag to check. `LatchCount` is what `getCompletionHandler` and
the constructor compute. `LimitedAgents` is the set of agents that will notify
the handler in a normal run, taken from the same options.

`Lifecycle` extends it to the whole run. `pc` is the main thread: `probing`
(`waitUntilBrokerAvailableIfNecessary`), `connecting`, `synchronizing`,
`starting`, `waiting` (`Completion`'s steps happen here), `aborting`, `summary`
and `closing` (the two ways `run()` ends, by returning and by throwing, for
instance when a consumer cannot subscribe: `StartFails`),
`closeall` (`ShutdownService.close`) and `exit`. `spc` is the thread of the
shutdown sequence, `index` how far the main thread and the hook are in the
callbacks, which they may both go through at once: a signal starts the hook at
any time, and `System.exit` starts it if no signal has. `RunOnce` is the flag of
`ShutdownService.wrap`, `Await` the wait on the latch with its timeout
(`SequenceDone` or `AbortSequence`). An interrupted shutdown thread returns at
its next check (`Return`).

### Throughput

Time is counted in the microseconds of the limiter's clock; `Second` says how
many of them a second has, which is what the limiter may save up. An interval is
a fraction of them: it is counted in parts, `Parts` to a microsecond. A limiter is
a record: the interval of its rate, what is stored (permits times interval, in
parts) and the next free ticket, in whole microseconds. `Acquire` reserves
(`Resync`, `Reserve`): the wait for the next ticket is cut to whole microseconds,
as by the `(long)` of `reserveEarliestAvailable`, and the rest is lost. `Lost` is
what an interval can lose that way and `Price` what is left. `Wake` is the end of
the sleep with the check for a rate of 0, `Publish` and `Total` the two counters
of an event. `UpdateValue` and `ValueChanged` are the scheduled update of
`VariableValueIndicator` and the listener that replaces the limiter.

`Start` and `AllStarted` are the start listener of `PerfTest`, which adds the
agent to a set and then looks at the size of the set. The ids are those of
`AgentBase`, unique over producers and consumers. Between the two steps another
agent can do the same, so more than one may find the set full and reset the
totals: `Reset`, which is a step for each total and one for their time
(`ResetTotal`, `ResetTime`). The reporting thread is `ReportBegin` (the clock),
`SwapRead` and `SwapSet` for each counter, and `Report`; the summary takes the
time (`Close`), the time of the totals (`SummaryStart`) and the totals
(`SummaryTotal`). Agents count in between, and time passes.

`window`, `stray`, `reported` and `reportedTime` are history: they record what
the properties are about and nothing depends on them. `Observe` starts a window
at any moment, which makes `RateHonoured` a statement about any stretch of time.

Timing assumptions (`Punctual`): a scheduled update or report is at most
`Lateness` late, and a report, a reset or a summary takes at most as long from
its first step to its last; `Lateness` is less than the time between two reports. A
producer may take any time before it starts and while it publishes. With
`Prompt`, used by the run to bound its size, it takes none in between.

The limiter is not used for every rate. `startProducers` turns a fixed rate of 1
to 10 messages a second, or `--publishing-interval`, into `scheduleAtFixedRate`
(`MulticastSet`:585-620), which is the scheduled producer of `Producer`, and
publishes nothing at a rate of 0: `ThroughputAssumption` leaves these fixed rates
out (`Limited`, with `ScheduledUpTo` for the 10). A variable rate always has a
limiter. Left out: the rounding of the limiter's `double`s, and that each limiter
counts its time from its own creation.

## 3. Runs

Passing runs:

| Run | Instance | Shows |
|---|---|---|
| `ProducerConfirms` | pool 2, 5 messages, one failure, no recovery | permits conserved, at most 2 outstanding, limit honoured, always counts down |
| `ProducerRecovery` | pool 2, variable rate, recovery, two failures | no permit lost, through a failed reset as well |
| `ProducerScheduledTx` | scheduled, transactions of 2, limit 5, recovery, two failures | transactions aligned, limit honoured, recovery ends, producer counts down |
| `ConsumerOptions` | four command lines: acks and commits every 2 messages of 2 queues with a limit and `--exit-when idle`; one ack per message with a limit and recovery; the same with a commit per message; automatic acks with recovery and `--exit-when empty`; 4 messages, two failures | no starvation, limit honoured, no ack of a worker refused, what was handled settled before the exit, countdown |
| `TopologyRecovery` | five kinds of queue (named, auto-delete, durable in a cluster, exclusive server-named, polled server-named), three failures, three deletions or node failures, two retries | the binding and the subscription come back, polled queues do not pile up, the new name is used |
| `Lifecycle` | a producer and a consumer with limits, a time limit, two servers with a limit of one, shutdown timeout, signal | `Completion`'s invariants and its promise within a whole run, callbacks once, summary after the shutdown, nothing left open, the program ends |
| `Throughput` | a producer and a consumer at a message per microsecond, with messages or with a late start of the consumer; a producer alone; two producers at a message per 1.5 microseconds; one producer whose interval goes 1, stopped, 1.5; 3 to 6 microseconds, a second of 2, reports every 2, 3 or 9, a lateness of 1 | rate, schedule and pause honoured, reports and summary right |

Runs that show a disagreement between the code and what its docs, comments or
tests say (`findings` in `PROJECT.json` has the quotes):

| Run | Disagreement |
|---|---|
| `ProducerStuckRecovery` | the reset of the pool after a recovery gives back the permit of a message about to be published; the next reset then releases a negative number: exception, the flag stays set, the producer sleeps for ever |
| `ProducerVariableLimit` | with a variable rate `--pmessages` does not limit |
| `ConsumerDoubleAck` | the exit-when check sends its last ack again a second later |
| `ConsumerUncommittedExit` | acked but uncommitted messages are not committed before the exit |
| `TopologyLostBindings` | a server-named queue that is re-created twice after deletions has no bindings: they are looked up under a name they were not recorded with |

**Bounds.** `MaxFailures`: the second failure is what reaches a recovery
interrupted by another and a reset that follows a wrong reset; with the third,
one more comes when both threads of `TopologyRecovery` are at work.
`MaxPublished` is one more than the limit, so that a limit off by one would
show. A pool of 2 is the smallest in which a multiple confirm covers more than
one message while another is being published. Consumer: enough messages to fill
the prefetch window twice and to go past the limit; one earlier connection at a
time. `MaxExitChecks` 1 for a consumer that exits, 2 to see the check repeated.
`MaxDeletes` 3: a queue deleted, re-created, deleted again, and a node failure.
Lifecycle: one agent of each kind, so that one can be done and the other not, or
started and the other not. Throughput: an end at 5 is a whole cycle of the
variable rate and the beginning of the next, one at 6 two reports, or just enough
for a total that is not reset to exceed what can be published after a late start;
one at 3 is enough for two producers and for reports that overlap the reset.
With `Second` 2 a burst is more than one message, with `Parts` 2 there are
intervals that lose a fraction and intervals that do not; `Lateness` 1 lets time
pass between any two steps of a report, a reset or the summary.

**Fairness.** Weak fairness of each thread: the JVM schedules them, sleeps and
timed waits end. Of the reader thread and of deliveries: the broker confirms
and delivers what it has; without this no message limit could ever be reached.
Of the recovery thread: a connection that can be recovered is, which the
client retries for ever. In `TopologyRecovery` the node of a queue comes up
again. In `Lifecycle` agents with a limit reach it; the thread of the shutdown
sequence is not fair, it may hang for ever in a close, and the timeout has to
get the program past it. Nothing is fair that the code does not control: no
failure, no cancellation, no signal, no expiry of the time limit, so that the
count alone has to end the test. `ProducerRecovery` and `Throughput` have no
fairness, since they check no liveness.

Deadlock is checked in every run but `Throughput`, where time ends. `Terminated`,
`Quiet` and `JvmEnded` are the stutters of a system that has nothing more to do.

Definitions that follow a comment "Mutant:" are plausible bugs, one for each
property of each passing run; replacing the definition after them by one makes
the property fail.

### Behaviours the models have and no property forbids

As the code has them, and no document, comment or test says otherwise:

* Producer: with recovery `--confirm` + 1 publishes can be outstanding after a
  reset of the pool (`OutstandingBounded` is stated and proved without
  recovery). With a negative confirm timeout a producer whose channel is closed
  waits for a permit for ever (`Completes` needs a timeout).
* Consumer: of several queues one that is empty is enough for the exit. With
  `--multi-ack-every` equal to `--qos` and recovery, a stale delivery of the
  lost connection can be the one the ack was due for: the client drops that ack
  and the window stays full; `Prefetch` leaves these options out, and TLC finds
  the behaviour when they are put in. The exit-when check can acknowledge what is
  settled, and the broker then closes the channel of a running consumer: when it
  runs a second time (`ConsumerDoubleAck`), when the worker acknowledges the next
  batch between the look of the check at `lastAckedDeliveryTag` and its ack, or
  when the late ack of a stale delivery has set `lastAckedDeliveryTag` back.
  `ValidAcks` is about the acks of the workers. A message the worker handles after
  the check has read `lastDeliveryTag` stays unacknowledged at the exit, and so
  does the transaction of a worker between its ack and its commit;
  `SettledBeforeExit` is about what had been handled before.
* Completion: with a count limit the failure of one agent takes the latch down
  by one only, and the others have to be done for the test to end.
* Shutdown: a task is done as soon as it is cancelled, so the wait "to stop
  producers before closing their connections" (`MulticastSet`:659) never waits.
  A signal during the main thread's shutdown finds the sequence taken, prints
  the summary and ends the JVM before the sequence is over.
* Start-up: the addresses connections are made to are fixed when the
  `MulticastSet` is created (`MulticastSet`:175); the servers found up under
  `--servers-up-limit` do not replace them. If no server comes up the program
  ends as after a test.
* Topology: a binding that fails because the node is down is not made again
  (`gaveUp`). A polling recovery that is cut short leaves the former queue
  behind. A polling consumer that a second recovery overtakes between its reads
  of the names and of the version keeps the old names (`Consumer`:220). A task
  of `handleCancel` and a recovery may both subscribe: the broker closes the
  connection, and the next recovery repairs it. A retry for a server-named
  cluster queue checks its former name until it gives up.
* Rate limiter: the fraction of a microsecond that each wait drops makes a
  producer faster than its rate. Its documentation says that "on average no more
  than permitsPerSecond are issued during any given second"
  (`RateLimiterUtils`:111-113). At `--rate 300000` a permit costs 3 microseconds
  instead of 3.33, which is 11% too fast, and above a million messages a second it
  costs nothing: there is no limit. `RateHonoured`, `PlausibleReports` and
  `PlausibleSummary` therefore count the price of a permit, and not the interval,
  and say nothing where the price is 0; where the interval is of whole
  microseconds the two are the same.
* Metrics: more than one agent may reset the totals, the last one some time after
  the test is under way, and what was counted up to then is not in the summary. A
  report under way when the metrics are closed is dropped.

## 4. Proofs

`ProducerProofs` proves for every `Confirm`, limit, transaction size, mode and
number of failures:

* `TypeCorrect`: types, and a pool that never goes negative;
* `PermitConservation`: without recovery, available permits, the one held, the
  messages in flight and the permits about to be released add up to `Confirm`;
* `ConfirmLimit`: hence at most `Confirm` messages are in flight (assuming no
  recovery: with it there can be one more);
* `RecoveryKeepsPermits`: with any number of recoveries, that sum is never
  below `Confirm` once a recovery is over.

The inductive invariant `IInv`. The conservation law alone is not inductive: a
multiple confirm releases as many permits as entries it removes from
`unconfirmed`, while the law counts messages in flight. `TrackedExactly` says
the two coincide without recovery, up to the message about to be sent, and
`InFlightOnOpenChannel` that numbers in flight are below the next one. With
recovery they do not coincide: a message may be tracked under a number of the
old channel. `TrackedPermits` therefore only counts messages tracked under
their own number, counts a reset in progress as done, and is an inequality.

About the message count it proves

* `MessageLimit`: no producer publishes more than `--pmessages`, and one that
  reports its limit has published exactly as many;
* `Transactions`: the open transaction holds no more than the messages since the
  last multiple of the transaction size.

Both assume `CountKept`: the producer is scheduled or its rate is not variable.
`run()` resets the count of a variable rate, and then they are false, which is
the finding of `ProducerVariableLimit`. Their invariant is `CountInv`: where the
thread is tells how far counting is ahead of publishing (`CountsPublished`),
that the body of the loop is entered below the limit only (`CountsToLimit`), and
how much of the transaction a counted message has added (`CountsTransaction`). The last
one is an inequality: a failure empties the transaction on the broker, while the
count, which decides on commits, goes on.

`ConsumerProofs` proves for every set of options, every number of messages,
failures and exit checks:

* `TypeCorrect`;
* `Limit`: no more than `--cmessages` messages are processed, although the
  workers of two connections may count at the same time;
* `Acknowledgements`: no ack of a worker is refused by the broker, although the
  exit-when check acknowledges deliveries of the same channel in between;
* `Prefetch`: once all deliveries are handled there is room in the prefetch
  window, if acks are automatic, or one per message without transactions, or
  there is one connection and a transaction is as long as a batch of acks
  (`AcksBounded`);
* `ExitSettled`: with these options the exit-when check leaves nothing
  unacknowledged or uncommitted that had been handled when it last read
  `lastDeliveryTag`, if the channel is open and the worker not between an ack and
  its commit.

`Acknowledgements` has no condition on the options; among those that `AcksBounded`
leaves out are the ones with which the other two fail (section 3). The limit rests on the
order of counting and looking: `LimitInv` says that the messages processed and
those in hand are among the ones counted. The rest is about tags. `TagInv`: the
worker of the channel takes its deliveries in the order of their tags, that of
the lost connection has tags of before the channel, which the client drops, and
`lastDeliveryTag`, and what the exit-when check has read of it, is behind the
worker until it has committed (`Behind`). `AcksToCome`: the broker waits for every
delivery not yet taken, and for the one in hand up to its ack, since the check
only acknowledges tags behind the worker; that is why no ack of a worker is ever
refused, whatever the options (`WorkerAcks`). `SeenInv` is the same of
`lastAckedDeliveryTag`: a value the check has read may be stale, but the broker
waits for nothing at or before it, so that there is nothing to settle when the
check finds it equal to `lastDeliveryTag`. `PromptInv` and `BatchInv` are
the two ways the window stays bounded. With one ack per message only the
delivery in hand, and those past the limit, are unacknowledged. With batches on a
single connection `epochMessageCount` is the number of deliveries taken, so the
unacknowledged ones are those since the last multiple of the batch, fewer than
`--qos`; `OneConnection` and `LimitReported` are what they need of the state of
the connection and of the limit.

`TopologyProofs` proves for any number of failures, deletions and retries:

* `TypeCorrect`: in particular only queues that exist are bound or subscribed to;
* `Rebinding`: when a recovery has settled, the queue the consumer is subscribed
  to has its binding, for queues with a name of their own and for exclusive ones
  (of a polling consumer, which has no subscription, it says nothing). For
  server-named queues that outlive their connection it is false, the finding of
  `TopologyLostBindings`;
* `NoLeftovers`: the queues of a polling consumer do not pile up.

The two reasons a binding is kept are different. `NamedInv`: a queue with a name
keeps it, so whenever the queue is there without its binding, some thread is on
its way to bind it or the connection is still to be recovered; neither thread
can be finished in between. `ExclusiveInv`: an exclusive queue goes with its
connection, is never cancelled apart from it, so there is no task and one queue
at most, the one the recovery thread has just declared and binds next.
`LeftoverInv` follows the former queue of a polling consumer: besides the current
one only the one about to be dropped exists.

`CompletionProofs` proves for every finite set of agents and every combination
of limits `NoEarlyEnd`, `ReasonsAccountForTheEnd`, `TimeLimitReportedOnce` and
`Refinement` (every step is a step of `CompletionPromise` or a stutter). Its
invariant relates the latch to the set of agents that have counted down and the
reasons to the set of those past `recordReason`; the latch may be lower-bounded
only (`LatchAccounted`), because counting a latch of 0 down leaves it at 0.
`LifecycleProofs` proves for every set of agents and servers, with and without a
shutdown timeout, that a run of the program is a run of `Completion`
(`RunsCompletion`), and from it `RunNoEarlyEnd`, `RunReasons`, `RunTimeLimit` and
`RunKeepsPromise`: what `CompletionProofs` shows holds although agents start one
by one and the main thread may be elsewhere. It also proves

* `CallbacksRunOnce`: no closing callback runs twice, and all have run at the
  end of the JVM;
* `SummaryIsLast`: without a signal the summary is printed after the shutdown
  sequence has ended or was given up;
* `EndsClean`: a test that ends by itself and whose shutdown is not given up
  leaves no connection, pool or uncancelled producer;
* `RunTypes`: type correctness.

The inductive invariant is `LifeInv`. `Registration` follows the third callback:
registered with the connections, called before the main thread gets to the
summary, or, if the start of an agent fails, the first callback that `close()` is
going to call. `Claims` ties the flags to the calls, and what the hook has claimed to
how far it is in the list, whoever was first. `Sequence` is the reason for the
order of the end: as long as there was no signal nobody but the main thread calls
the sequence, and it waits until the latch is down or interrupts it; `CloseNext`
on the main thread then finds the sequence claimed. `Progress` is what the steps
of the sequence leave behind, unless a signal let it run before all agents were
started.

`ThroughputProofs` proves for every schedule, any finite number of agents, any second,
any lateness below a report interval, and with producers that take their time (`Prompt` or not):

* `RateIsHonoured`: in any stretch of time a producer has paid for what it
  publishes, but for a second's worth saved up and two messages. An interval of
  whole microseconds is paid in full, of another one the fraction is lost;
* `PermitComesInTime`: once a producer has its permit the next one is an interval
  away at most;
* `StopsWhenRateIsZero`: under a rate of 0 it publishes at most the message it
  was about to publish;
* `ReportsAreExact`: every event is in exactly one report or still to be
  reported, although agents count while the reporting thread reads;
* `FollowsSchedule`: the rate, and each limiter, is the one that the schedule
  written out unit by unit has for this time, in every cycle;
* `ReportsPlausible`, `SummaryPlausible`: at a fixed rate no report and no summary
  shows more than the limiters of all producers together let through in its time,
  with what a report, a reset and the summary themselves may take;
* `TypeCorrect`: type correctness.

The argument about the rate: `Position` is the next free ticket less what is
stored, after a resync, in parts. Every permit moves it by its price at least
(`ReservePosition`): what is stored is of whole microseconds as long as the
interval is, so that nothing is cut off (`Whole`). Time only moves it forward, it is at most a second behind the time and never ahead of the later of
time and ticket. The invariant `RateInv` says that the cost of what was published
in the window, and of the permit that is held, is covered by the move of the
position since the window began, the credit it began with and one interval. The
argument about the reports is `ReportInv`: what was reported and the report under
way are the value remembered for each counter, but for the one counter that is
read and not yet remembered.

`FollowsSchedule` rests on what `gcd`, the period and the ends of the intervals
compute for every schedule (`ScheduleProofs`). An induction theorem with an
operator as parameter cannot be used with the installed provers; `Induction` is
about a set instead and comes from the least counterexample, which the
well-foundedness of the numbers gives. `Recursion` and `GcdEquation` show that the
recursive functions satisfy their equations: a function with the equation exists
up to each number, and two of them agree. Then `gcd` divides its arguments, the
period divides every duration, every end of an interval is a multiple of it
(`EndOrder`), and a whole period lies in one interval (`SamePeriod`): an update
once in a period misses no change. `WrittenOut` identifies the intervals with the
written-out schedule. The invariant `ScheduleInv` says that the next update is due
at a multiple of the period, at most a period ahead, and that until then the value
is that of the interval the time is in.

The two `Plausible` properties are about the sum of what several producers have
published, and the state has the sum only. The invariant `SharesInv` therefore says
that the sum can be split: `Covered` holds of a count if it is the number of
elements of a set with a number of messages for each producer that its balance
pays for. The balance is the position of the limiter against the time of the last
read, or of the reset, less the message that is paid and not counted yet. A step
never makes a balance smaller, publishing makes one larger by the price of a
permit, reading and resetting begin anew with a count of 0 (`CoverSame`,
`CoverOneMore`, `CoverNone`); `CoverBound` turns a split into the bound of
`Plausible`.

The clock and the counter are read, and totals and time are reset, in separate
steps, between which time passes. `Timely` says that no more than `Lateness`
passes: that is what `Tick` assumes of the scheduled tasks and all that is assumed.
A count may therefore be of later than the time that goes with it. For a report,
`ReadTime` is the time since which its counter has not been read: that of the
report before while it has only read the clock, its own afterwards. For the totals
`Since(z)` holds for some time `z`, the last moment one of the agents set the
total to 0: what is counted is covered by the balance since `z`, and the time of
the totals, and the one the summary has read, is at most `Lateness` later than
`z`. It stays so when an agent under way writes the time, because that agent has
set the total to 0 at `z` or before, and at most `Lateness` ago; a second agent that
resets only moves `z` forward. The theorems need that there are finitely many producers and that no
agent is both producer and consumer (`ThroughputAssumption`).

Assumptions: the named `ASSUME`s on the constants, nothing else.

Every invariant that a run checks is stated by a theorem, under the conditions
named above. Only model-checked: liveness (the
prover handles neither fairness nor `ENABLED`).

## 5. Plan

What is left, most important first:

1. `InstanceSync`: several instances and a view of them, one late or lost; the
   topology handlers' sequences as operators checked against a reference.
2. Proofs: the order of the steps of `Lifecycle` under a signal as a refinement
   of the list of closing callbacks.

## 6. Not modelled

Command-line parsing, output formats and metrics exporters, message bodies and
timestamps, functional logging, the scenario runner (`PerfTestMulti`):
sequential code or I/O without shared state. The topology handlers distribute
queues over agents before the test starts. Instance synchronization is the
protocol of a library (JGroups), of which `Lifecycle` has the outcome. The
latency histograms and `ExpectedMetrics` compute values that nothing depends on.

The program is the Java code under `src/src/main`. The JavaScript files of the
repository are the charts of the HTML reports (`html/perf.js` and its copy under
`resources/static`), which draw a finished result file, and recorded results and
scenario descriptions (`html/examples`), which are data: they hold none of the
behaviour above and are not modelled.
