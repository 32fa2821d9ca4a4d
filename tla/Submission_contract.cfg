SPECIFICATION Safety
CONSTANTS
  MaxForks = 4
  ForkSensitive = FALSE
  PoolMayDrop = TRUE
  ConnectionMayBreak = FALSE
  LateSubscription = TRUE
  CallbackMayThrow = TRUE
CHECK_DEADLOCK FALSE
INVARIANT ResolvedIsFinal
PROPERTY ImplementsContract
