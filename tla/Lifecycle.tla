------------------------------ MODULE Lifecycle ------------------------------
(***************************************************************************)
(* A run of PerfTest from the wait for the brokers to the end of the JVM:  *)
(* MulticastSet.run on the main thread, the agents it starts, the thread   *)
(* of the shutdown sequence, and the shutdown hook, which a signal starts  *)
(* at any time and System.exit at the end. The wait for the end of the     *)
(* test in between is Completion.                                          *)
(***************************************************************************)
EXTENDS Completion, Sequences

CONSTANTS
  Servers,         \* the URIs of the command line
  UpLimit,         \* --servers-up-limit, all the servers by default
  WaitForServers,  \* --servers-startup-timeout is set
  ShutdownTimeout  \* --shutdown-timeout is not 0

ASSUME LifecycleAssumption ==
  IsFiniteSet(Servers) /\ UpLimit \in Nat /\ {WaitForServers, ShutdownTimeout} \subseteq BOOLEAN

VARIABLES
  up,          \* the servers that accept connections
  connected,   \* those waitUntilBrokerAvailableIfNecessary has reached
  pc,          \* where the main thread is
  started,     \* the agents startConsumers and startProducers have started
  visited,     \* the producers shutdown() has looked at
  cancelled,   \* those whose task it has cancelled
  open,        \* the open connections
  executors,   \* the thread pools of the threading handler that are up
  registered,  \* the callbacks of ShutdownService, in the order of their registration
  claimed,     \* those whose closingOrAlreadyClosed flag is set
  calls,       \* how often each callback has run
  index,       \* the next callback close() calls, 0 when it is done, on each thread
  spc,         \* where the thread of the shutdown sequence is
  waiter,      \* the thread that waits for it
  interrupted, \* the shutdown thread was interrupted
  printed,     \* how often the final summary was printed
  hook,        \* the shutdown hook; "done" is the end of the JVM
  signalled    \* by SIGTERM or SIGINT

startVars == <<up, connected, pc>>
agentVars == <<started, visited, cancelled, open, executors>>
closeVars == <<registered, claimed, calls, index>>
sequenceVars == <<spc, waiter, interrupted>>
endVars == <<printed, hook, signalled>>
lifeVars == <<startVars, agentVars, closeVars, sequenceVars, endVars>>
allVars == <<vars, lifeVars>>

Threads == {"main", "hook"}
Callbacks == {"metrics", "summary", "sequence"}
Configuration == "configuration"
Connections == Agents \cup {Configuration}
Pools == {"configuration", "consumers", "producers"}

\* PerfTest.main has registered its callbacks and created the MulticastSet.
LifecycleInit ==
  /\ Init
  /\ up \in SUBSET Servers /\ connected = {}
  /\ pc = (IF WaitForServers THEN "probing" ELSE "connecting")
  /\ started = {} /\ visited = {} /\ cancelled = {}
  /\ open = {} /\ executors = {}
  /\ registered = <<"metrics", "summary">> /\ claimed = {}
  /\ calls = [c \in Callbacks |-> 0] /\ index = [t \in Threads |-> 0]
  /\ spc = "none" /\ waiter = "none" /\ interrupted = FALSE
  /\ printed = 0 /\ hook = "idle" /\ signalled = FALSE

-----------------------------------------------------------------------------
(***************************************************************************)
(* The main thread, until the test runs.                                   *)
(***************************************************************************)
\* A server that was down comes up while the main thread waits.
ServerUp(s) ==
  /\ pc = "probing" /\ s \notin up
  /\ up' = up \cup {s}
  /\ UNCHANGED <<connected, pc, vars, agentVars, closeVars, sequenceVars, endVars>>

\* waitUntilBrokerAvailableIfNecessary tries the servers it has not reached yet.
Probe(s) ==
  /\ pc = "probing" /\ s \in up \ connected
  /\ IF Cardinality(connected) + 1 = UpLimit
       THEN pc' = "connecting" /\ connected' = {}
       ELSE pc' = pc /\ connected' = connected \cup {s}
  /\ UNCHANGED <<up, vars, agentVars, closeVars, sequenceVars, endVars>>

\* The time is over: run() returns, main() ends as after a test.
GiveUp ==
  /\ pc = "probing"
  /\ pc' = "summary" /\ connected' = {}
  /\ UNCHANGED <<up, vars, agentVars, closeVars, sequenceVars, endVars>>

\* The connections are created, to every server of the command line, and the
\* shutdown sequence is registered. An exception goes up to main().
Connect ==
  /\ pc = "connecting"
  /\ \/ /\ Servers \subseteq up
        /\ pc' = "synchronizing"
        /\ open' = Connections /\ executors' = {"configuration", "consumers"}
        /\ registered' = IF ShutdownTimeout THEN Append(registered, "sequence") ELSE registered
     \/ /\ ~(Servers \subseteq up)
        /\ pc' = "closing"
        /\ open' = {Configuration} /\ executors' = {"configuration"}
        /\ UNCHANGED registered
  /\ UNCHANGED <<up, connected, vars, started, visited, cancelled, claimed, calls, index,
                 sequenceVars, endVars>>

\* InstanceSynchronization.synchronize: all the instances are there, or not in time.
Synchronize ==
  /\ pc = "synchronizing"
  /\ pc' \in {"starting", "aborting"}
  /\ UNCHANGED <<up, connected, vars, agentVars, closeVars, sequenceVars, endVars>>

\* startConsumers, then startProducers, whose tasks go to a pool of their own.
Start(a) ==
  /\ pc = "starting" /\ a \notin started
  /\ a \in Producers => Consumers \subseteq started
  /\ started' = started \cup {a}
  /\ pc' = IF started' = Agents THEN "waiting" ELSE pc
  /\ executors' = IF a \in Producers THEN executors \cup {"producers"} ELSE executors
  /\ UNCHANGED <<up, connected, vars, visited, cancelled, open, closeVars,
                 sequenceVars, endVars>>

\* A consumer cannot subscribe, a pool takes no task any more: run() throws and
\* leaves the shutdown sequence to the close() at the end of main().
StartFails ==
  /\ pc = "starting" /\ pc' = "closing"
  /\ \/ UNCHANGED executors
     \/ Consumers \subseteq started /\ executors' = executors \cup {"producers"}
  /\ UNCHANGED <<up, connected, vars, started, visited, cancelled, open, closeVars,
                 sequenceVars, endVars>>

-----------------------------------------------------------------------------
(***************************************************************************)
(* The test: agents stop and count down, the main thread waits.            *)
(***************************************************************************)
StopStarted(a) ==
  /\ a \in started
  /\ \E r \in {"limit", "failure"} : Stop(a, r)
  /\ UNCHANGED lifeVars

CountDownStarted(a) == CountDown(a) /\ UNCHANGED lifeVars

WaitForCompletion ==
  pc = "waiting" /\ (AwaitCounted \/ SetCompleted \/ RecordTimeLimit) /\ UNCHANGED lifeVars

TimeExpires == pc = "waiting" /\ AwaitExpired /\ UNCHANGED lifeVars

-----------------------------------------------------------------------------
(***************************************************************************)
(* ShutdownService: callbacks that run once, whoever calls them.           *)
(***************************************************************************)
\* Mutant: the flag is set when the callback is done rather than before.
RunAlways(t, c) ==
  /\ calls' = [calls EXCEPT ![c] = @ + 1]
  /\ claimed' = claimed \cup {c}

\* The flag of wrap lets the first caller through.
RunOnce(t, c) ==
  /\ calls' = IF c \in claimed THEN calls ELSE [calls EXCEPT ![c] = @ + 1]
  /\ claimed' = claimed \cup {c}

\* Mutant: it has none.
PrintAgain == printed' = printed + 1

\* statsSummary has a flag of its own: main() runs it without the wrapper, too.
PrintSummary == printed' = IF printed = 0 THEN 1 ELSE printed

\* Mutant: the thread does not wait.
AwaitNot(t) == spc' = "preparing" /\ UNCHANGED waiter

\* The thread t waits for the shutdown sequence, which runs on a new thread.
Await(t) == spc' = "preparing" /\ waiter' = t

\* Thread t calls callback c: what the callback does is what the first call does.
Call(t, c) ==
  /\ RunOnce(t, c)
  /\ IF c = "sequence" /\ c \notin claimed
       THEN Await(t) ELSE UNCHANGED <<spc, waiter>>
  /\ IF c = "summary" /\ c \notin claimed
       THEN PrintSummary ELSE UNCHANGED printed

\* executeShutdownSequence, at the end of the test or when it cannot start.
ExecuteShutdownSequence ==
  /\ (pc = "waiting" /\ Over) \/ pc = "aborting"
  /\ pc' = IF pc = "waiting" THEN "summary" ELSE "closing"
  /\ IF ShutdownTimeout
       THEN Call("main", "sequence")
       ELSE UNCHANGED <<calls, claimed, spc, waiter, printed>>
  /\ UNCHANGED <<up, connected, vars, agentVars, registered, index, interrupted,
                 hook, signalled>>

\* main() prints the summary once run() has returned, not when it has thrown;
\* close() starts from the last callback that is registered.
Finish ==
  /\ pc \in {"summary", "closing"} /\ waiter # "main"
  /\ IF pc = "summary" THEN PrintSummary ELSE UNCHANGED printed
  /\ pc' = "closeall" /\ index' = [index EXCEPT !["main"] = Len(registered)]
  /\ UNCHANGED <<up, connected, vars, agentVars, registered, claimed, calls,
                 sequenceVars, hook, signalled>>

CloseNext(t) ==
  /\ index[t] > 0 /\ waiter # t
  /\ index' = [index EXCEPT ![t] = @ - 1]
  /\ Call(t, registered[index[t]])
  /\ UNCHANGED <<startVars, vars, agentVars, registered, interrupted, hook, signalled>>

-----------------------------------------------------------------------------
(***************************************************************************)
(* The thread of the shutdown sequence.                                    *)
(***************************************************************************)
SequenceSteps == {"preparing", "cancelling", "closing", "pools"}

\* An interrupted thread returns at its next check; the latch is counted down
\* unless shutdown() has not been called yet.
Return ==
  /\ spc \in SequenceSteps /\ interrupted
  /\ spc' = IF spc = "preparing" THEN "returned" ELSE "done"
  /\ UNCHANGED <<startVars, vars, agentVars, closeVars, waiter, interrupted, endVars>>

\* The auto-delete queues of polling consumers are deleted, or this fails.
Prepare ==
  /\ spc = "preparing" /\ ~interrupted
  /\ spc' = "cancelling"
  /\ UNCHANGED <<startVars, vars, agentVars, closeVars, waiter, interrupted, endVars>>

\* The task of a producer is cancelled, its thread interrupted, if it has one.
Cancel(p) ==
  /\ spc = "cancelling" /\ ~interrupted /\ p \notin visited
  /\ visited' = visited \cup {p}
  /\ cancelled' = IF p \in started THEN cancelled \cup {p} ELSE cancelled
  /\ UNCHANGED <<startVars, vars, started, open, executors, closeVars,
                 sequenceVars, endVars>>

\* A cancelled task is done, whatever its thread does: the wait for the
\* producers ends at once. It waits, 10 seconds, for tasks it has not cancelled.
CancelledAll ==
  /\ spc = "cancelling" /\ ~interrupted /\ visited = Producers
  /\ spc' = "closing"
  /\ UNCHANGED <<startVars, vars, agentVars, closeVars, waiter, interrupted, endVars>>

\* The configuration connection, then the producers', then the consumers'.
NextToClose ==
  IF Configuration \in open THEN {Configuration}
  ELSE IF open \cap Producers # {} THEN open \cap Producers ELSE open

Dispose(c) ==
  /\ spc = "closing" /\ ~interrupted /\ c \in NextToClose
  /\ open' = open \ {c}
  /\ UNCHANGED <<startVars, vars, started, visited, cancelled, executors, closeVars,
                 sequenceVars, endVars>>

DisposedAll ==
  /\ spc = "closing" /\ ~interrupted /\ open = {}
  /\ spc' = "pools"
  /\ UNCHANGED <<startVars, vars, agentVars, closeVars, waiter, interrupted, endVars>>

\* The threading handler shuts its pools down and waits for their threads.
ShutdownPools ==
  /\ spc = "pools" /\ ~interrupted
  /\ executors' = {}
  /\ spc' = "done"
  /\ UNCHANGED <<startVars, vars, started, visited, cancelled, open, closeVars, waiter,
                 interrupted, endVars>>

\* The latch is down: the waiting thread goes on...
SequenceDone ==
  /\ waiter # "none" /\ spc = "done"
  /\ waiter' = "none"
  /\ UNCHANGED <<startVars, vars, agentVars, closeVars, spc, interrupted, endVars>>

\* Mutant: the wait for the shutdown sequence has no timeout.
NeverAbort == waiter = "nobody" /\ UNCHANGED allVars

\* ... or its time is over before, and it interrupts the shutdown thread.
AbortSequence ==
  /\ waiter # "none" /\ spc \in SequenceSteps
  /\ waiter' = "none" /\ interrupted' = TRUE
  /\ UNCHANGED <<startVars, vars, agentVars, closeVars, spc, endVars>>

-----------------------------------------------------------------------------
(***************************************************************************)
(* The shutdown hook and the end of the JVM.                               *)
(***************************************************************************)
StartHook ==
  /\ hook = "idle"
  /\ hook' = "closing" /\ index' = [index EXCEPT !["hook"] = Len(registered)]
  /\ UNCHANGED <<up, connected, vars, agentVars, registered, claimed, calls,
                 sequenceVars, printed>>

Signal == StartHook /\ signalled' = TRUE /\ UNCHANGED pc

\* System.exit blocks if the hook is running already.
Exit ==
  /\ pc = "closeall" /\ index["main"] = 0 /\ waiter # "main"
  /\ pc' = "exit"
  /\ StartHook /\ UNCHANGED signalled

Halt ==
  /\ hook = "closing" /\ index["hook"] = 0 /\ waiter # "hook"
  /\ hook' = "done"
  /\ UNCHANGED <<startVars, vars, agentVars, closeVars, sequenceVars, printed, signalled>>

Halted == hook = "done"
JvmEnded == Halted /\ UNCHANGED allVars

-----------------------------------------------------------------------------
StartUp == (\E s \in Servers : Probe(s)) \/ GiveUp \/ Connect \/ Synchronize
MainThread ==
  \/ StartUp \/ (\E a \in Agents : Start(a)) \/ StartFails
  \/ WaitForCompletion \/ ExecuteShutdownSequence \/ Finish
  \/ CloseNext("main") \/ Exit
ShutdownThread ==
  \/ Return \/ Prepare \/ (\E p \in Producers : Cancel(p)) \/ CancelledAll
  \/ (\E c \in Connections : Dispose(c)) \/ DisposedAll \/ ShutdownPools
HookThread == CloseNext("hook") \/ Halt

LifecycleNext ==
  \/ ~Halted /\ \/ \E s \in Servers : ServerUp(s)
                \/ MainThread \/ TimeExpires
                \/ \E a \in Agents : StopStarted(a) \/ CountDownStarted(a)
                \/ ShutdownThread \/ SequenceDone \/ AbortSequence
                \/ Signal \/ HookThread
  \/ JvmEnded

LifecycleSpec == LifecycleInit /\ [][LifecycleNext]_allVars

(***************************************************************************)
(* Every wait of the main thread and of the hook but the one for the end   *)
(* of the test has a timeout, and the agents with a limit reach it. The    *)
(* thread of the shutdown sequence is not fair: it may hang in a close.    *)
(***************************************************************************)
LifecycleFairness ==
  /\ WF_allVars(~Halted /\ MainThread) /\ WF_allVars(HookThread)
  /\ WF_allVars(~Halted /\ (SequenceDone \/ AbortSequence))
  /\ \A a \in Agents : WF_allVars(~Halted /\ CountDownStarted(a))
  /\ \A a \in LimitedAgents : WF_allVars(~Halted /\ StopStarted(a))

FairLifecycle == LifecycleSpec /\ LifecycleFairness

-----------------------------------------------------------------------------
(***************************************************************************)
(* Properties.                                                             *)
(***************************************************************************)
SequenceRegistered == \E i \in DOMAIN registered : registered[i] = "sequence"

\* The types of the variables that Completion does not have.
LifecycleTypeOK ==
  /\ TypeOK
  /\ up \subseteq Servers /\ connected \subseteq up
  /\ pc \in {"probing", "connecting", "synchronizing", "starting", "waiting",
            "aborting", "summary", "closing", "closeall", "exit"}
  /\ started \subseteq Agents
  /\ cancelled \subseteq visited /\ visited \subseteq Producers
  /\ open \subseteq Connections /\ executors \subseteq Pools
  /\ registered \in Seq(Callbacks) /\ claimed \subseteq Callbacks
  /\ calls \in [Callbacks -> Nat] /\ index \in [Threads -> 0..Len(registered)]
  /\ spc \in SequenceSteps \cup {"none", "done", "returned"}
  /\ waiter \in Threads \cup {"none"} /\ {interrupted, signalled} \subseteq BOOLEAN
  /\ printed \in {0, 1} /\ hook \in {"idle", "closing", "done"}

\* The main thread calls the callbacks at the end, the hook calls them again,
\* at any time: none runs twice, and at the end of the JVM all have run, the
\* shutdown sequence if it was there when the hook began.
CallbacksOnce ==
  /\ \A c \in Callbacks : calls[c] <= 1
  /\ Halted => /\ calls["summary"] = 1 /\ calls["metrics"] = 1
               /\ ~signalled /\ SequenceRegistered => calls["sequence"] = 1

\* The final summary is about a test that is over: without a signal it is not
\* printed before the shutdown sequence has ended or was given up.
SummaryAfterShutdown ==
  (printed > 0 /\ ~signalled /\ SequenceRegistered) =>
    (spc \in {"done", "returned"} \/ interrupted)

\* A test that ends by itself leaves nothing behind, unless the shutdown took
\* too long: all connections closed, all pools shut down, all tasks cancelled.
CleanEnd ==
  (Halted /\ ~signalled /\ SequenceRegistered /\ ~interrupted) =>
    open = {} /\ executors = {} /\ started \cap Producers \subseteq cancelled

\* A test with a limit ends the program, even if the brokers never come up, the
\* other instances do not join or the shutdown sequence hangs.
ProgramEnds == LimitedAgents # {} => <>Halted

\* A signal ends the program, whatever the main thread is doing.
SignalEnds == signalled ~> Halted
=============================================================================
