SPECIFICATION Spec
CONSTANTS
  MaxForks = 4
  ForkSensitive = TRUE
  PoolMayDrop = FALSE
  ConnectionMayBreak = TRUE
  LateSubscription = FALSE
  CallbackMayThrow = FALSE
CHECK_DEADLOCK FALSE
INVARIANT ReportedBlockIsFinal
PROPERTY Settles
