--------------------------- MODULE LifecycleProofs ---------------------------
(***************************************************************************)
(* The end of the program, for any number of agents and servers and any    *)
(* combination of the options: what Completion promises holds within a     *)
(* whole run, every callback runs once, and the shutdown is complete.      *)
(***************************************************************************)
EXTENDS Lifecycle, CompletionProofs, SequenceTheorems

-----------------------------------------------------------------------------
(***************************************************************************)
(* A run of the program is a run of Completion.                            *)
(***************************************************************************)
\* Each step of a run is one of Completion's or leaves its variables alone.
THEOREM RunsCompletion == LifecycleSpec => Spec
<1>1. LifecycleInit => Init
  BY DEF LifecycleInit
<1>2. ASSUME [LifecycleNext]_allVars PROVE [Next]_vars
  <2>1. CASE UNCHANGED vars
    BY <2>1
  <2>2. ASSUME NEW a \in Agents, StopStarted(a) \/ CountDownStarted(a) PROVE Next
    BY <2>2 DEF StopStarted, CountDownStarted, Next
  <2>3. CASE WaitForCompletion \/ TimeExpires
    BY <2>3 DEF WaitForCompletion, TimeExpires, Next, Main
  <2>4. CASE ShutdownThread \/ SequenceDone \/ AbortSequence \/ Signal \/ HookThread \/ JvmEnded
    BY <2>1, <2>4 DEF ShutdownThread, Return, Prepare, Cancel, CancelledAll, Dispose,
          DisposedAll, ShutdownPools, SequenceDone, AbortSequence, Signal, StartHook,
          HookThread, CloseNext, Halt, JvmEnded, allVars
  <2>5. ASSUME NEW s \in Servers, ServerUp(s) \/ Probe(s) PROVE UNCHANGED vars
    BY <2>5 DEF ServerUp, Probe
  <2>6. CASE GiveUp \/ Connect \/ Synchronize \/ (\E a \in Agents : Start(a)) \/ StartFails
    BY <2>1, <2>6 DEF GiveUp, Connect, Synchronize, Start, StartFails
  <2>7. CASE ExecuteShutdownSequence \/ Finish \/ CloseNext("main") \/ Exit
    BY <2>1, <2>7 DEF ExecuteShutdownSequence, Finish, CloseNext, Exit, StartHook
  <2> QED
    BY <1>2, <2>1, <2>2, <2>3, <2>4, <2>5, <2>6, <2>7
       DEF LifecycleNext, MainThread, StartUp, allVars
<1> QED BY <1>1, <1>2, PTL DEF LifecycleSpec, Spec

\* A run does not end before its limits are reached, although agents start one by
\* one and the main thread may be elsewhere.
THEOREM RunNoEarlyEnd == LifecycleSpec => []NoEarlyCompletion
BY RunsCompletion, NoEarlyEnd, PTL

\* The reasons a run reports account for its end.
THEOREM RunReasons == LifecycleSpec => []ReasonsComplete
BY RunsCompletion, ReasonsAccountForTheEnd, PTL

\* A run keeps the promise of the completion handlers.
THEOREM RunKeepsPromise == LifecycleSpec => KeepsPromise
BY RunsCompletion, Refinement, PTL

\* A run reports the time limit if it ended the wait, once, and not otherwise.
THEOREM RunTimeLimit == LifecycleSpec => []TimeLimitReported
BY RunsCompletion, TimeLimitReportedOnce, PTL

-----------------------------------------------------------------------------
(***************************************************************************)
(* The inductive invariant of the closing callbacks and of the shutdown    *)
(* sequence.                                                               *)
(***************************************************************************)
Base == <<"metrics", "summary">>
Full == <<"metrics", "summary", "sequence">>
Ended == {"summary", "closing", "closeall", "exit"}

LifeTypes ==
  /\ up \subseteq Servers /\ connected \subseteq up
  /\ pc \in {"probing", "connecting", "synchronizing", "starting", "waiting",
            "aborting", "summary", "closing", "closeall", "exit"}
  /\ started \subseteq Agents
  /\ cancelled \subseteq visited /\ visited \subseteq Producers
  /\ open \subseteq Connections /\ executors \subseteq Pools
  /\ claimed \subseteq Callbacks
  /\ calls \in [Callbacks -> Nat] /\ index \in [Threads -> 0..3]
  /\ spc \in SequenceSteps \cup {"none", "done", "returned"}
  /\ waiter \in Threads \cup {"none"} /\ interrupted \in BOOLEAN /\ signalled \in BOOLEAN
  /\ printed \in {0, 1} /\ hook \in {"idle", "closing", "done"}

\* The sequence is registered when the connections are there, and has been called
\* when the main thread is past the test, or is the first callback that close()
\* is going to call.
Registration ==
  /\ registered \in {Base, Full}
  /\ pc \in {"probing", "connecting"} => registered = Base
  /\ registered = Full => ShutdownTimeout
  /\ (ShutdownTimeout /\ pc \in {"synchronizing", "starting", "waiting", "aborting"})
       => registered = Full
  /\ "sequence" \in claimed => registered = Full
  /\ (registered = Full /\ pc \in Ended) =>
       \/ "sequence" \in claimed \/ pc = "closing"
       \/ pc = "closeall" /\ index["main"] = 3

\* A callback that is claimed was called once, and each thread that closes has
\* claimed the callbacks it is past.
Claims ==
  /\ \A c \in Callbacks : calls[c] = IF c \in claimed THEN 1 ELSE 0
  /\ index["main"] <= Len(registered) /\ index["hook"] <= Len(registered)
  /\ pc # "closeall" => index["main"] = 0
  /\ hook # "closing" => index["hook"] = 0
  /\ hook # "idle" => /\ index["hook"] < 2 => "summary" \in claimed
                      /\ index["hook"] < 1 => "metrics" \in claimed

\* Without a signal the hook runs when the main thread is done, and the summary
\* is printed after the call of the sequence.
Hook ==
  /\ hook = "idle" => ~signalled /\ pc # "exit"
  /\ (hook # "idle" /\ ~signalled) => pc = "exit"
  /\ (printed > 0 /\ ~signalled) =>
       pc \in {"closeall", "exit"} /\ (registered = Full => "sequence" \in claimed)

\* Without a signal the main thread waits for the shutdown sequence.
Sequence ==
  /\ spc = "none" <=> "sequence" \notin claimed
  /\ spc = "none" => waiter = "none" /\ ~interrupted /\ visited = {}
  /\ spc = "returned" => interrupted
  /\ ("sequence" \in claimed /\ ~signalled) => pc \in Ended
  /\ (spc \in SequenceSteps /\ ~signalled /\ ~interrupted) => waiter = "main"
  /\ ((printed > 0 \/ pc = "exit") /\ ~signalled) => waiter # "main"

\* What the steps of the sequence have done.
Progress ==
  /\ (spc \in {"pools", "done"} /\ ~interrupted) => open = {}
  /\ (spc = "done" /\ ~interrupted /\ ~signalled) => executors = {}
  /\ (spc \in {"closing", "pools", "done"} /\ ~interrupted) => visited = Producers
  /\ ~signalled => visited \cap started \subseteq cancelled

LifeInv == LifeTypes /\ Registration /\ Claims /\ Hook /\ Sequence /\ Progress

LEMMA LifeInit == LifecycleInit => LifeInv
<1> SUFFICES ASSUME LifecycleInit PROVE LifeInv
  OBVIOUS
<1> USE DEF LifecycleInit
<1>1. LifeTypes
  <2>1. pc \in {"probing", "connecting"}
    OBVIOUS
  <2>2. calls \in [Callbacks -> Nat] /\ index \in [Threads -> 0..3]
    OBVIOUS
  <2> QED BY <2>1, <2>2 DEF LifeTypes
<1>2. Registration /\ Hook /\ Sequence /\ Progress
  BY DEF Registration, Base, Full, Ended, Hook, Sequence, Progress, SequenceSteps
<1>3. Claims
  BY DEF Claims, Callbacks, Threads
<1> QED BY <1>1, <1>2, <1>3 DEF LifeInv

\* Steps of Completion leave the rest of the program alone.
LEMMA LifeUnchanged ==
  ASSUME LifeInv, UNCHANGED lifeVars
  PROVE  LifeInv'
<1> USE DEF LifeInv, lifeVars, startVars, agentVars, closeVars, sequenceVars, endVars
<1>1. LifeTypes'
  BY DEF LifeTypes
<1>2. Registration' /\ Hook' /\ Sequence' /\ Progress'
  BY DEF Registration, Hook, Sequence, Progress
<1>3. Claims'
  BY DEF Claims
<1> QED BY <1>1, <1>2, <1>3

\* A sequence of two elements, and a third one.
LEMMA AppendThird ==
  ASSUME NEW S, NEW q \in Seq(S), NEW c \in S
  PROVE  \A r \in Seq(S) :
           (Len(q) = 2 /\ Len(r) = 3 /\ r[1] = q[1] /\ r[2] = q[2] /\ r[3] = c)
             => Append(q, c) = r
<1>1. PICK s \in Seq(S) : /\ s = Append(q, c) /\ Len(s) = Len(q) + 1
                           /\ \A i \in 1..Len(q) : s[i] = q[i]
                           /\ s[Len(q) + 1] = c
  BY AppendProperties
<1> TAKE r \in Seq(S)
<1> HAVE Len(q) = 2 /\ Len(r) = 3 /\ r[1] = q[1] /\ r[2] = q[2] /\ r[3] = c
<1>2. Len(s) = 3 /\ s[1] = r[1] /\ s[2] = r[2] /\ s[3] = r[3]
  BY <1>1
<1>3. s = [i \in 1..3 |-> s[i]] /\ r = [i \in 1..3 |-> r[i]]
  BY <1>2
<1>4. \A i \in 1..3 : s[i] = r[i]
  BY <1>2
<1>5. s = r
  BY <1>3, <1>4
<1> QED BY <1>1, <1>5, Zenon

\* What is registered, and in which place.
LEMMA Places ==
  /\ Len(Base) = 2 /\ Len(Full) = 3 /\ Base # Full
  /\ Append(Base, "sequence") = Full
  /\ Base[1] = "metrics" /\ Base[2] = "summary"
  /\ Full[1] = "metrics" /\ Full[2] = "summary" /\ Full[3] = "sequence"
<1>1. /\ Len(Base) = 2 /\ Base[1] = "metrics" /\ Base[2] = "summary"
      /\ Base \in Seq(Callbacks)
  BY DEF Base, Callbacks
<1>2. /\ Len(Full) = 3 /\ Full[1] = "metrics" /\ Full[2] = "summary" /\ Full[3] = "sequence"
      /\ Full \in Seq(Callbacks)
  BY DEF Full, Callbacks
<1>3. "sequence" \in Callbacks
  BY DEF Callbacks
<1>4. Append(Base, "sequence") = Full
  BY <1>1, <1>2, <1>3, AppendThird
<1> QED BY <1>1, <1>2, <1>4

\* The main thread until the test runs: nothing is closing yet, unless a signal came.
LEMMA StartUpStep ==
  ASSUME LifeInv,
         \/ StartUp \/ (\E s \in Servers : ServerUp(s))
         \/ (\E a \in Agents : Start(a)) \/ StartFails
  PROVE  LifeInv'
<1> USE DEF LifeInv, startVars, agentVars, closeVars, sequenceVars, endVars
<1>1. ASSUME NEW s \in Servers, ServerUp(s) \/ Probe(s) PROVE LifeInv'
  <2> USE <1>1 DEF ServerUp, Probe
  <2>1. /\ pc = "probing" /\ pc' \in {"probing", "connecting"}
        /\ up' \subseteq Servers /\ connected' \subseteq up'
    BY DEF LifeTypes
  <2>2. UNCHANGED <<agentVars, closeVars, sequenceVars, endVars>>
    OBVIOUS
  <2> HIDE <1>1 DEF ServerUp, Probe
  <2>3. LifeTypes'
    BY <2>1, <2>2 DEF LifeTypes
  <2>4. Registration' /\ Hook' /\ Sequence' /\ Progress'
    BY <2>1, <2>2 DEF Registration, Hook, Sequence, Progress, Ended
  <2>5. Claims'
    BY <2>1, <2>2 DEF Claims
  <2> QED BY <2>3, <2>4, <2>5
<1>2. CASE GiveUp
  <2> USE <1>2 DEF GiveUp
  <2>1. registered = Base /\ Base # Full /\ pc = "probing" /\ pc' = "summary"
    BY DEF Registration, Base, Full
  <2>2. LifeTypes'
    BY DEF LifeTypes
  <2>3. Registration' /\ Hook' /\ Sequence' /\ Progress'
    BY <2>1 DEF Registration, Hook, Sequence, Progress, Ended
  <2>4. Claims'
    BY <2>1 DEF Claims
  <2> QED BY <2>2, <2>3, <2>4
<1>3. CASE Synchronize
  <2> USE <1>3 DEF Synchronize
  <2>1. pc = "synchronizing" /\ pc' \in {"starting", "aborting"}
    OBVIOUS
  <2>2. LifeTypes'
    BY <2>1 DEF LifeTypes
  <2>3. Registration' /\ Hook' /\ Sequence' /\ Progress'
    BY <2>1 DEF Registration, Hook, Sequence, Progress, Ended
  <2>4. Claims'
    BY <2>1 DEF Claims
  <2> QED BY <2>2, <2>3, <2>4
<1>4. CASE Connect
  <2> USE <1>4 DEF Connect
  <2>1. registered = Base /\ "sequence" \notin claimed /\ spc = "none"
    BY DEF Registration, Sequence, Base, Full
  <2>2. Len(Base) = 2 /\ Len(Full) = 3 /\ Append(Base, "sequence") = Full /\ Base # Full
    BY Places
  <2>3. /\ registered' \in {Base, Full}
        /\ registered' = Full => ShutdownTimeout /\ pc' = "synchronizing"
        /\ (ShutdownTimeout /\ pc' = "synchronizing") => registered' = Full
        /\ pc' \in {"synchronizing", "closing"}
    BY <2>1, <2>2
  <2>4. LifeTypes'
    BY <2>3 DEF LifeTypes, Connections, Pools
  <2>5. Registration'
    BY <2>1, <2>2, <2>3 DEF Registration, Ended
  <2>6. Claims'
    <3>1. index' = index /\ index \in [Threads -> 0..3]
      BY DEF LifeTypes
    <3>2. Len(registered) <= Len(registered')
      BY <2>1, <2>2, <2>3
    <3>3. index'["main"] <= Len(registered') /\ index'["hook"] <= Len(registered')
      BY <2>1, <2>2, <2>3, <3>1, <3>2 DEF Claims, Threads
    <3> QED BY <2>3, <3>1, <3>3 DEF Claims
  <2>7. Hook' /\ Sequence' /\ Progress'
    BY <2>1, <2>3 DEF Hook, Sequence, Progress, SequenceSteps
  <2> QED BY <2>4, <2>5, <2>6, <2>7
<1>5. ASSUME NEW a \in Agents, Start(a) PROVE LifeInv'
  <2> USE <1>5 DEF Start
  <2>1. pc = "starting" /\ pc' \in {"starting", "waiting"}
    OBVIOUS
  <2>2. LifeTypes'
    BY <2>1 DEF LifeTypes, Pools
  <2>3. Registration' /\ Claims' /\ Hook' /\ Sequence'
    BY <2>1 DEF Registration, Claims, Hook, Sequence, Ended
  <2>4. ~signalled => spc = "none" /\ visited = {}
    BY <2>1 DEF Sequence, Ended
  <2>5. Progress'
    BY <2>4 DEF Progress
  <2> QED BY <2>2, <2>3, <2>5
<1>6. CASE StartFails
  <2> USE <1>6 DEF StartFails
  <2>1. pc = "starting" /\ pc' = "closing"
    OBVIOUS
  <2>2. LifeTypes'
    BY <2>1 DEF LifeTypes, Pools
  <2>3. Registration' /\ Claims' /\ Hook' /\ Sequence'
    BY <2>1 DEF Registration, Claims, Hook, Sequence, Ended
  <2>4. ~signalled => spc = "none"
    BY <2>1 DEF Sequence, Ended
  <2>5. Progress'
    BY <2>4 DEF Progress
  <2> QED BY <2>2, <2>3, <2>5
<1> QED BY <1>1, <1>2, <1>3, <1>4, <1>5, <1>6 DEF StartUp

\* The thread of the shutdown sequence and the thread that waits for it.
LEMMA SequenceStep ==
  ASSUME LifeInv, ShutdownThread \/ SequenceDone \/ AbortSequence
  PROVE  LifeInv'
<1> USE DEF LifeInv, startVars, agentVars, closeVars, sequenceVars, endVars
<1>1. ASSUME Return \/ Prepare \/ CancelledAll \/ DisposedAll \/ ShutdownPools
             \/ SequenceDone \/ AbortSequence
      PROVE  LifeInv'
  <2> USE <1>1 DEF Return, Prepare, CancelledAll, DisposedAll, ShutdownPools, SequenceDone,
                   AbortSequence
  <2>1. LifeTypes'
    BY DEF LifeTypes, SequenceSteps
  <2>2. Registration' /\ Claims' /\ Hook'
    BY DEF Registration, Claims, Hook
  <2>3. Sequence'
    BY DEF Sequence, SequenceSteps, LifeTypes
  <2>4. Progress'
    BY DEF Progress, SequenceSteps, Sequence
  <2> QED BY <2>1, <2>2, <2>3, <2>4
<1>2. ASSUME NEW p \in Producers, Cancel(p) PROVE LifeInv'
  <2> USE <1>2 DEF Cancel
  <2>1. LifeTypes'
    BY DEF LifeTypes
  <2>2. Registration' /\ Claims' /\ Hook' /\ Sequence'
    BY DEF Registration, Claims, Hook, Sequence
  <2>3. Progress'
    BY DEF Progress
  <2> QED BY <2>1, <2>2, <2>3
<1>3. ASSUME NEW c \in Connections, Dispose(c) PROVE LifeInv'
  <2> USE <1>3 DEF Dispose
  <2>1. LifeTypes'
    BY DEF LifeTypes
  <2>2. Registration' /\ Claims' /\ Hook' /\ Sequence' /\ Progress'
    BY DEF Registration, Claims, Hook, Sequence, Progress
  <2> QED BY <2>1, <2>2
<1> QED BY <1>1, <1>2, <1>3 DEF ShutdownThread

\* A call of a callback: the flag is set, and the first call of the shutdown
\* sequence starts its thread.
LEMMA CallEffect ==
  ASSUME LifeInv, NEW t \in Threads, NEW c \in Callbacks, Call(t, c)
  PROVE  /\ claimed' = claimed \cup {c}
         /\ calls' \in [Callbacks -> Nat]
         /\ \A d \in Callbacks : calls'[d] = IF d \in claimed' THEN 1 ELSE 0
         /\ (c = "sequence" /\ c \notin claimed) => spc' = "preparing" /\ waiter' = t
         /\ ~(c = "sequence" /\ c \notin claimed) => UNCHANGED <<spc, waiter>>
         /\ printed' \in {0, 1}
         /\ printed' > 0 => printed > 0 \/ c = "summary"
<1> USE DEF LifeInv, Call, RunOnce, Await
<1>1. calls \in [Callbacks -> Nat] /\ claimed \subseteq Callbacks /\ printed \in {0, 1}
  BY DEF LifeTypes
<1>2. \A d \in Callbacks : calls[d] = IF d \in claimed THEN 1 ELSE 0
  BY DEF Claims
<1>3. claimed' = claimed \cup {c}
  OBVIOUS
<1>4. calls' \in [Callbacks -> Nat]
  BY <1>1
<1>5. \A d \in Callbacks : calls'[d] = IF d \in claimed' THEN 1 ELSE 0
  BY <1>1, <1>2, <1>3
<1>6. printed' \in {0, 1} /\ (printed' > 0 => printed > 0 \/ c = "summary")
  BY <1>1 DEF PrintSummary
<1> QED BY <1>3, <1>4, <1>5, <1>6

\* The main thread runs the sequence at the end of the test.
LEMMA ExecuteStep ==
  ASSUME LifeInv, ExecuteShutdownSequence
  PROVE  LifeInv'
<1> USE DEF LifeInv, startVars, agentVars, closeVars, sequenceVars, endVars
<1>1. /\ pc \in {"waiting", "aborting"} /\ pc' \in {"summary", "closing"}
      /\ UNCHANGED <<up, connected, started, visited, cancelled, open, executors,
                     registered, index, interrupted, hook, signalled>>
  BY DEF ExecuteShutdownSequence
<1>2. ShutdownTimeout => registered = Full
  BY <1>1 DEF Registration
<1>3. CASE ~ShutdownTimeout
  <2>1. UNCHANGED <<calls, claimed, spc, waiter, printed>> /\ registered # Full
    BY <1>3 DEF ExecuteShutdownSequence, Registration
  <2>2. LifeTypes' /\ Registration'
    BY <1>1, <2>1, <1>3 DEF LifeTypes, Registration, Ended
  <2>3. Claims'
    BY <1>1, <2>1 DEF Claims
  <2>4. Hook' /\ Sequence' /\ Progress'
    BY <1>1, <2>1 DEF Hook, Sequence, Progress, Ended
  <2> QED BY <2>2, <2>3, <2>4
<1>4. CASE ShutdownTimeout
  <2>1. Call("main", "sequence")
    BY <1>4 DEF ExecuteShutdownSequence
  <2>2. /\ claimed' = claimed \cup {"sequence"}
        /\ calls' \in [Callbacks -> Nat]
        /\ \A d \in Callbacks : calls'[d] = IF d \in claimed' THEN 1 ELSE 0
        /\ "sequence" \notin claimed => spc' = "preparing" /\ waiter' = "main"
        /\ "sequence" \in claimed => UNCHANGED <<spc, waiter>>
        /\ printed' = printed
    BY <2>1, CallEffect DEF Threads, Callbacks, Call
  <2>3. LifeTypes'
    BY <1>1, <2>2 DEF LifeTypes, Callbacks, Threads, SequenceSteps
  <2>4. Registration'
    BY <1>1, <1>2, <1>4, <2>2 DEF Registration, Ended
  <2>5. Claims'
    BY <1>1, <2>2 DEF Claims
  <2>6. Hook'
    BY <1>1, <2>2 DEF Hook
  <2>7. Sequence' /\ Progress'
    BY <1>1, <2>2 DEF Sequence, Progress, SequenceSteps, Ended, Hook
  <2> QED BY <2>3, <2>4, <2>5, <2>6, <2>7
<1> QED BY <1>3, <1>4

\* The end of main(), the start of the hook and the end of the JVM.
LEMMA EndStep ==
  ASSUME LifeInv, Finish \/ Exit \/ Signal \/ Halt
  PROVE  LifeInv'
<1> USE DEF LifeInv, startVars, agentVars, closeVars, sequenceVars, endVars
<1>1. Len(registered) \in 2..3 /\ index \in [Threads -> 0..3]
  BY Places DEF Registration, LifeTypes
<1>2. CASE Finish
  <2> USE <1>2 DEF Finish
  <2>1. pc \in {"summary", "closing"} /\ pc' = "closeall" /\ waiter # "main"
    OBVIOUS
  <2>2. index' \in [Threads -> 0..3] /\ index'["main"] = Len(registered)
        /\ index'["hook"] = index["hook"]
    BY <1>1 DEF Threads
  <2>3. printed' \in {0, 1}
    BY DEF LifeTypes, PrintSummary
  <2>4. LifeTypes'
    BY <2>1, <2>2, <2>3 DEF LifeTypes
  <2>5. Registration' /\ Hook'
    <3>1. registered = Full => index'["main"] = 3
      BY <2>2, Places
    <3>2. pc = "closing" => printed' = printed
      OBVIOUS
    <3>3. Registration'
      BY <2>1, <3>1 DEF Registration, Ended
    <3>4. Hook'
      BY <2>1, <3>2 DEF Registration, Ended, Hook
    <3> QED BY <3>3, <3>4
  <2>6. Claims'
    BY <1>1, <2>1, <2>2 DEF Claims
  <2>7. Sequence' /\ Progress'
    BY <2>1 DEF Sequence, Progress, Ended
  <2> QED BY <2>4, <2>5, <2>6, <2>7
<1>3. ASSUME Exit \/ Signal PROVE LifeInv'
  <2> USE <1>3 DEF Exit, Signal, StartHook
  <2>1. /\ hook = "idle" /\ hook' = "closing"
        /\ \/ pc = "closeall" /\ pc' = "exit" /\ signalled' = signalled
              /\ index["main"] = 0 /\ waiter # "main"
           \/ pc' = pc /\ signalled' = TRUE
        /\ UNCHANGED <<up, connected, agentVars, registered, claimed, calls, sequenceVars,
                       printed>>
    OBVIOUS
  <2>2. index' \in [Threads -> 0..3] /\ index'["hook"] = Len(registered)
        /\ index'["main"] = index["main"]
    <3>1. index' = [index EXCEPT !["hook"] = Len(registered)]
      OBVIOUS
    <3> HIDE <1>3 DEF Exit, Signal, StartHook
    <3> QED BY <1>1, <3>1 DEF Threads
  <2> HIDE <1>3 DEF Exit, Signal, StartHook
  <2>3. LifeTypes'
    BY <2>1, <2>2 DEF LifeTypes
  <2>4. Registration'
    BY <2>1, <2>2 DEF Registration, Ended
  <2>5. Claims'
    <3>1. Len(registered') \in 2..3 /\ index'["hook"] = Len(registered')
          /\ index'["main"] <= Len(registered')
      BY <1>1, <2>1, <2>2 DEF Claims
    <3>2. pc' # "closeall" => index'["main"] = 0
      BY <2>1, <2>2 DEF Claims
    <3>3. \A c \in Callbacks : calls'[c] = IF c \in claimed' THEN 1 ELSE 0
      BY <2>1 DEF Claims
    <3>4. ~(index'["hook"] < 2) /\ ~(index'["hook"] < 1) /\ index'["hook"] <= Len(registered')
      <4>1. PICK n \in 2..3 : n = Len(registered') /\ index'["hook"] = n
        BY <3>1, Zenon
      <4>2. ~(n < 2) /\ ~(n < 1) /\ n <= n
        BY <4>1
      <4> QED BY <4>1, <4>2, Zenon
    <3>5. hook' = "closing"
      BY <2>1
    <3> QED BY <3>1, <3>2, <3>3, <3>4, <3>5, Zenon DEF Claims
  <2>6. Hook'
    BY <2>1 DEF Hook
  <2>7. Sequence' /\ Progress'
    BY <2>1 DEF Sequence, Progress, Ended
  <2> QED BY <2>3, <2>4, <2>5, <2>6, <2>7
<1>4. CASE Halt
  <2> USE <1>4 DEF Halt
  <2>1. LifeTypes' /\ Registration' /\ Hook' /\ Sequence' /\ Progress'
    BY DEF LifeTypes, Registration, Hook, Sequence, Progress
  <2>2. Claims'
    BY DEF Claims
  <2> QED BY <2>1, <2>2
<1> QED BY <1>2, <1>3, <1>4

\* A thread calls the next callback: the one it is at, from the last to the first.
LEMMA CloseStep ==
  ASSUME LifeInv, NEW t \in Threads, CloseNext(t)
  PROVE  LifeInv'
<1> USE DEF LifeInv, startVars, agentVars, closeVars, sequenceVars, endVars
<1> DEFINE c == registered[index[t]]
<1>1. /\ index[t] > 0 /\ waiter # t /\ Call(t, c)
      /\ index' = [index EXCEPT ![t] = @ - 1]
      /\ UNCHANGED <<up, connected, pc, agentVars, registered, interrupted, hook, signalled>>
  BY DEF CloseNext
<1>2. index \in [Threads -> 0..3] /\ index[t] \in 1..3 /\ index[t] <= Len(registered)
  BY <1>1 DEF LifeTypes, Claims, Threads
<1>3. /\ index[t] = 1 => c = "metrics"
      /\ index[t] = 2 => c = "summary"
      /\ index[t] = 3 => c = "sequence" /\ registered = Full
  BY <1>2, Places DEF Registration
<1>4. c \in Callbacks /\ (c = "sequence" => registered = Full)
  BY <1>2, <1>3 DEF Callbacks
<1> HIDE DEF c
<1>5. /\ claimed' = claimed \cup {c}
      /\ calls' \in [Callbacks -> Nat]
      /\ \A d \in Callbacks : calls'[d] = IF d \in claimed' THEN 1 ELSE 0
      /\ (c = "sequence" /\ c \notin claimed) => spc' = "preparing" /\ waiter' = t
      /\ ~(c = "sequence" /\ c \notin claimed) => UNCHANGED <<spc, waiter>>
      /\ printed' \in {0, 1}
      /\ printed' > 0 => printed > 0 \/ c = "summary"
  BY <1>1, <1>4, CallEffect
<1>6. /\ index' \in [Threads -> 0..3] /\ index'[t] = index[t] - 1
      /\ \A u \in Threads : u # t => index'[u] = index[u]
  BY <1>1, <1>2
<1>7. (t = "main" => pc = "closeall") /\ (t = "hook" => hook = "closing")
  BY <1>1 DEF Claims
<1>8. LifeTypes'
  BY <1>1, <1>4, <1>5, <1>6 DEF LifeTypes, SequenceSteps
<1>9. Registration'
  <2>1. index'["main"] = 3 => index["main"] = 3 /\ t # "main"
    BY <1>2, <1>6 DEF Threads
  <2>2. (t = "main" /\ index["main"] = 3) => "sequence" \in claimed'
    BY <1>3, <1>5
  <2>3. (t # "main") => index'["main"] = index["main"]
    BY <1>6 DEF Threads
  <2> QED BY <1>1, <1>4, <1>5, <2>1, <2>2, <2>3 DEF Registration
<1>10. Claims'
  <2>1. index'["main"] <= index["main"] /\ index'["hook"] <= index["hook"]
    BY <1>2, <1>6 DEF Threads
  <2>2. Len(registered) \in 2..3
    BY Places DEF Registration
  <2>3. index'["main"] <= Len(registered') /\ index'["hook"] <= Len(registered')
    BY <1>1, <1>2, <1>6, <2>1, <2>2 DEF Claims, Threads
  <2>4. (pc' # "closeall" => index'["main"] = 0) /\ (hook' # "closing" => index'["hook"] = 0)
    BY <1>1, <1>6, <1>7 DEF Claims, Threads
  <2>5. hook' # "idle" => /\ index'["hook"] < 2 => "summary" \in claimed'
                          /\ index'["hook"] < 1 => "metrics" \in claimed'
    BY <1>1, <1>2, <1>3, <1>5, <1>6 DEF Claims, Threads
  <2> QED BY <1>5, <2>3, <2>4, <2>5 DEF Claims
<1>11. Hook'
  <2>1. (c = "summary" /\ ~signalled /\ registered = Full) => "sequence" \in claimed
    <3>1. c = "summary" => index[t] = 2
      BY <1>2, <1>3
    <3> QED BY <1>7, <3>1 DEF Registration, Hook, Ended, Threads
  <2> QED BY <1>1, <1>5, <1>7, <2>1 DEF Hook, Threads
<1>12. Sequence' /\ Progress'
  <2>1. CASE c = "sequence" /\ c \notin claimed
    <3>1. signalled \/ (t = "main" /\ pc = "closeall" /\ printed = 0)
      BY <1>2, <1>3, <1>4, <1>7, <2>1 DEF Registration, Hook, Ended, Threads, LifeTypes
    <3>2. printed' = printed /\ spc = "none" /\ ~interrupted
      BY <1>1, <2>1 DEF Call, Sequence
    <3> QED BY <1>1, <1>5, <2>1, <3>1, <3>2 DEF Sequence, Progress, SequenceSteps, Ended
  <2>2. CASE ~(c = "sequence" /\ c \notin claimed)
    <3>1. "sequence" \in claimed' <=> "sequence" \in claimed
      BY <1>5, <2>2
    <3>2. UNCHANGED <<spc, waiter>>
      BY <1>5, <2>2
    <3>3. (printed' > 0 /\ ~signalled) => printed > 0 \/ t = "main" \/ pc = "exit"
      BY <1>5, <1>7 DEF Hook, Threads
    <3> QED BY <1>1, <3>1, <3>2, <3>3 DEF Sequence, Progress
  <2> QED BY <2>1, <2>2
<1> QED BY <1>8, <1>9, <1>10, <1>11, <1>12

LEMMA LifeStep == LifeInv /\ [LifecycleNext]_allVars => LifeInv'
<1> SUFFICES ASSUME LifeInv, [LifecycleNext]_allVars PROVE LifeInv'
  OBVIOUS
<1>1. ASSUME NEW a \in Agents, StopStarted(a) \/ CountDownStarted(a) PROVE LifeInv'
  BY <1>1, LifeUnchanged DEF StopStarted, CountDownStarted
<1>2. CASE WaitForCompletion \/ TimeExpires \/ JvmEnded \/ UNCHANGED allVars
  BY <1>2, LifeUnchanged DEF WaitForCompletion, TimeExpires, JvmEnded, allVars
<1>3. CASE \/ StartUp \/ (\E s \in Servers : ServerUp(s))
           \/ (\E a \in Agents : Start(a)) \/ StartFails
  BY <1>3, StartUpStep
<1>4. CASE ShutdownThread \/ SequenceDone \/ AbortSequence
  BY <1>4, SequenceStep
<1>5. CASE Finish \/ Exit \/ Signal \/ Halt
  BY <1>5, EndStep
<1>6. CASE CloseNext("main") \/ CloseNext("hook")
  BY <1>6, CloseStep DEF Threads
<1>7. CASE ExecuteShutdownSequence
  BY <1>7, ExecuteStep
<1> QED BY <1>1, <1>2, <1>3, <1>4, <1>5, <1>6, <1>7 DEF LifecycleNext, MainThread, HookThread

\* The inductive invariant of the closing callbacks and of the shutdown sequence.
THEOREM LifeInvariance == LifecycleSpec => []LifeInv
BY LifeInit, LifeStep, PTL DEF LifecycleSpec

\* The sequence is registered if it is the third callback.
LEMMA ThirdCallback == LifeInv /\ SequenceRegistered => registered = Full
<1> SUFFICES ASSUME LifeInv, registered = Base PROVE ~SequenceRegistered
  BY DEF LifeInv, Registration
<1> QED BY DEF SequenceRegistered, Base

\* ShutdownService calls a callback once, although main() and the shutdown hook
\* both close everything, and at the end of the JVM all have run.
THEOREM CallbacksRunOnce == LifecycleSpec => []CallbacksOnce
<1>1. LifeInv => CallbacksOnce
  <2> SUFFICES ASSUME LifeInv PROVE CallbacksOnce
    OBVIOUS
  <2>1. \A c \in Callbacks : calls[c] = IF c \in claimed THEN 1 ELSE 0
    BY DEF LifeInv, Claims
  <2>2. {"summary", "metrics", "sequence"} \subseteq Callbacks
    BY DEF Callbacks
  <2>3. Halted => "summary" \in claimed /\ "metrics" \in claimed
    BY DEF LifeInv, Claims, Halted
  <2>4. (Halted /\ ~signalled /\ SequenceRegistered) => "sequence" \in claimed
    BY ThirdCallback DEF LifeInv, Hook, Halted, Registration, Ended
  <2> QED BY <2>1, <2>2, <2>3, <2>4 DEF CallbacksOnce
<1> QED BY <1>1, LifeInvariance, PTL

\* The summary of a test that was not interrupted comes after its shutdown sequence.
THEOREM SummaryIsLast == LifecycleSpec => []SummaryAfterShutdown
<1>1. LifeInv => SummaryAfterShutdown
  <2> SUFFICES ASSUME LifeInv, printed > 0, ~signalled, SequenceRegistered, ~interrupted
               PROVE  spc \in {"done", "returned"}
    BY DEF SummaryAfterShutdown
  <2>1. pc \in {"closeall", "exit"} /\ "sequence" \in claimed
    BY ThirdCallback DEF LifeInv, Hook, Registration, Ended
  <2>2. spc \notin SequenceSteps /\ spc # "none"
    BY <2>1 DEF LifeInv, Sequence
  <2> QED BY <2>2 DEF LifeInv, LifeTypes
<1> QED BY <1>1, LifeInvariance, PTL

\* A test that ends by itself and whose shutdown is not given up closes every
\* connection and pool and cancels every producer.
THEOREM EndsClean == LifecycleSpec => []CleanEnd
<1>1. LifeInv => CleanEnd
  <2> SUFFICES ASSUME LifeInv, Halted, ~signalled, SequenceRegistered, ~interrupted
               PROVE  open = {} /\ executors = {} /\ started \cap Producers \subseteq cancelled
    BY DEF CleanEnd
  <2>1. pc = "exit" /\ "sequence" \in claimed
    BY ThirdCallback DEF LifeInv, Hook, Halted, Registration, Ended
  <2>2. spc \notin SequenceSteps /\ spc # "none" /\ spc # "returned"
    BY <2>1 DEF LifeInv, Sequence
  <2>3. spc = "done"
    BY <2>2 DEF LifeInv, LifeTypes
  <2> QED BY <2>3 DEF LifeInv, Progress
<1> QED BY <1>1, LifeInvariance, PTL

\* The variables of a run have their types.
THEOREM RunTypes == LifecycleSpec => []LifecycleTypeOK
<1>1. TypeOK /\ LifeInv => LifecycleTypeOK
  <2> SUFFICES ASSUME TypeOK, LifeInv PROVE LifecycleTypeOK
    OBVIOUS
  <2>1. Base \in Seq(Callbacks) /\ Full \in Seq(Callbacks)
    BY DEF Base, Full, Callbacks
  <2>2. registered \in Seq(Callbacks) /\ Len(registered) \in 2..3
    BY <2>1, Places DEF LifeInv, Registration
  <2>3. index \in [Threads -> 0..Len(registered)]
    BY <2>2 DEF LifeInv, LifeTypes, Claims, Threads
  <2> QED BY <2>2, <2>3 DEF LifecycleTypeOK, LifeInv, LifeTypes
<1>2. Spec => []TypeOK
  BY Invariance, PTL DEF IInv
<1> QED BY <1>1, <1>2, LifeInvariance, RunsCompletion, PTL
=============================================================================
