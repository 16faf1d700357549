SPECIFICATION FairSpec
CONSTANTS
  Confirm <- NoConfirm
  ConfirmTimeout = 30
  MsgLimit = 5
  TxSize = 2
  Scheduled = TRUE
  VariableRate = FALSE
  RecoveryEnabled = TRUE
  MaxFailures = 2
  MaxPublished = 6
INVARIANT LimitHonoured
INVARIANT TransactionAligned
PROPERTY Completes
PROPERTY RecoveryEnds
