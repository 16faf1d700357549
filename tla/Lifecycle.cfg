SPECIFICATION FairLifecycle
CONSTANTS
  Producers = {p1}
  Consumers = {c1}
  ProducerLimit = TRUE
  ConsumerLimit = TRUE
  TimeLimit = TRUE
  Servers = {s1, s2}
  UpLimit = 1
  WaitForServers = TRUE
  ShutdownTimeout = TRUE
INVARIANT LifecycleTypeOK
INVARIANT NoEarlyCompletion
INVARIANT ReasonsComplete
INVARIANT TimeLimitReported
INVARIANT CallbacksOnce
INVARIANT SummaryAfterShutdown
INVARIANT CleanEnd
PROPERTY KeepsPromise
PROPERTY ProgramEnds
PROPERTY SignalEnds
