SPECIFICATION FairSpec
CONSTANTS
  Options <- RunOptions
  MaxRetry = 2
  MaxFailures = 3
  MaxDeletes = 3
INVARIANT TypeOK
INVARIANT Rebound
INVARIANT NoLeftoverQueues
PROPERTY Resubscribes
PROPERTY PollsNewName
