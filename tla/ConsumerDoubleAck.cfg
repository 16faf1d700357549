SPECIFICATION Spec
CONSTANTS
  q1 = q1
  q2 = q2
  QueueNames <- TwoQueues
  Options <- DoubleAckOptions
  MaxMessages = 1
  MaxFailures = 0
  MaxExitChecks = 2
INVARIANT AckOneLastTime
