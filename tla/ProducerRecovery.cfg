SPECIFICATION Spec
CONSTANTS
  Confirm = 2
  ConfirmTimeout = 30
  MsgLimit = 0
  TxSize = 0
  Scheduled = FALSE
  VariableRate = TRUE
  RecoveryEnabled = TRUE
  MaxFailures = 2
  MaxPublished = 5
INVARIANT NoPermitLeak
