SPECIFICATION FairSpec
CONSTANTS
  q1 = q1
  q2 = q2
  QueueNames <- TwoQueues
  Options <- RunOptions
  MaxMessages = 4
  MaxFailures = 2
  MaxExitChecks = 1
INVARIANT TypeOK
INVARIANT NoStarvation
INVARIANT LimitHonoured
PROPERTY ValidAcks
PROPERTY SettledBeforeExit
PROPERTY Completes
