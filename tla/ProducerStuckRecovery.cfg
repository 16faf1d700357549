SPECIFICATION FairSpec
CONSTANTS
  Confirm = 2
  ConfirmTimeout = 30
  MsgLimit = 5
  TxSize = 0
  Scheduled = FALSE
  VariableRate = FALSE
  RecoveryEnabled = TRUE
  MaxFailures = 2
  MaxPublished = 6
PROPERTY RecoveryEnds
