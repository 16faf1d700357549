SPECIFICATION FairSpec
CONSTANTS
  Confirm = 2
  ConfirmTimeout = 30
  MsgLimit = 5
  TxSize = 0
  Scheduled = FALSE
  VariableRate = FALSE
  RecoveryEnabled = FALSE
  MaxFailures = 1
  MaxPublished = 6
INVARIANT TypeOK
INVARIANT PermitsAccounted
INVARIANT OutstandingBounded
INVARIANT LimitHonoured
PROPERTY Completes
