------------------------- MODULE CompletionPromise --------------------------
(***************************************************************************)
(* What a completion handler promises to MulticastSet.run: it lets the     *)
(* test go on until it has been notified often enough, or, with a time     *)
(* limit, until the time is over, and it tells the two apart.              *)
(***************************************************************************)
EXTENDS Integers

CONSTANTS
  Notifications,  \* how many notifications complete the test
  TimeLimit       \* whether the test has a time limit

VARIABLES remaining, outcome

vars == <<remaining, outcome>>

Init == remaining = Notifications /\ outcome = "running"

\* A producer or a consumer notifies the handler; it may do so at any time.
Notify ==
  /\ remaining > 0
  /\ remaining' = remaining - 1
  /\ UNCHANGED outcome

Complete ==
  /\ outcome = "running" /\ remaining = 0
  /\ outcome' = "counted"
  /\ UNCHANGED remaining

Expire ==
  /\ outcome = "running" /\ TimeLimit /\ remaining > 0
  /\ outcome' = "expired"
  /\ UNCHANGED remaining

Next == Notify \/ Complete \/ Expire

Spec == Init /\ [][Next]_vars
=============================================================================
