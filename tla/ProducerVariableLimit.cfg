SPECIFICATION Spec
CONSTANTS
  Confirm = 2
  ConfirmTimeout = 30
  MsgLimit = 2
  TxSize = 0
  Scheduled = FALSE
  VariableRate = TRUE
  RecoveryEnabled = FALSE
  MaxFailures = 0
  MaxPublished = 4
INVARIANT LimitHonoured
