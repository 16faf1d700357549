SPECIFICATION Spec
CONSTANTS
  Options <- ServerNamedOptions
  MaxRetry = 1
  MaxFailures = 0
  MaxDeletes = 2
INVARIANT Rebound
