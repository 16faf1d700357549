---------------------------- MODULE MCThroughput ----------------------------
(***************************************************************************)
(* The tests Throughput is checked with.                                   *)
(***************************************************************************)
EXTENDS Throughput

CONSTANTS p1, p2, c1

Fixed(interval) == <<[value |-> interval, duration |-> 1]>>

MCSetups ==
  {\* --rate, a producer and a consumer
   [producers |-> {p1}, consumers |-> {c1}, schedule |-> Fixed(2),
    interval |-> 2, end |-> 3, routed |-> TRUE, observed |-> {}],
   \* a consumer that may start late, before the first report
   [producers |-> {p1}, consumers |-> {c1}, schedule |-> Fixed(2),
    interval |-> 9, end |-> 6, routed |-> FALSE, observed |-> {}],
   \* a producer alone, for longer
   [producers |-> {p1}, consumers |-> {}, schedule |-> Fixed(2),
    interval |-> 3, end |-> 6, routed |-> FALSE, observed |-> {p1}],
   \* two producers that start at different times, a permit every 1.5 microseconds
   [producers |-> {p1, p2}, consumers |-> {}, schedule |-> Fixed(3),
    interval |-> 2, end |-> 3, routed |-> FALSE, observed |-> {}],
   \* --variable-rate that stops
   [producers |-> {p1}, consumers |-> {},
    schedule |-> <<[value |-> 2, duration |-> 2], [value |-> Stopped, duration |-> 1],
                   [value |-> 3, duration |-> 1]>>,
    interval |-> 9, end |-> 5, routed |-> FALSE, observed |-> {p1}]}
=============================================================================
