SPECIFICATION Spec
CONSTANTS
  q1 = q1
  q2 = q2
  QueueNames <- TwoQueues
  Options <- UncommittedOptions
  MaxMessages = 3
  MaxFailures = 0
  MaxExitChecks = 1
PROPERTY SettledBeforeExit
