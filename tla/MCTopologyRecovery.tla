------------------------- MODULE MCTopologyRecovery -------------------------
(***************************************************************************)
(* The kinds of queue TopologyRecovery is checked with.                    *)
(***************************************************************************)
EXTENDS TopologyRecovery

\* --queue
Named ==
  [serverNamed |-> FALSE, autoDelete |-> FALSE, exclusive |-> FALSE,
   cluster |-> FALSE, polling |-> FALSE]

RunOptions ==
  {Named,
   [Named EXCEPT !.autoDelete = TRUE],
   [Named EXCEPT !.cluster = TRUE],
   [Named EXCEPT !.serverNamed = TRUE, !.exclusive = TRUE],
   [Named EXCEPT !.serverNamed = TRUE, !.autoDelete = TRUE, !.polling = TRUE]}

\* The default: no --queue, a server-named queue.
ServerNamedOptions == {[Named EXCEPT !.serverNamed = TRUE, !.autoDelete = TRUE]}
=============================================================================
