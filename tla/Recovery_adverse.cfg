SPECIFICATION Spec
CONSTANTS
  Ticks = {t1, t2}
  MaxRetries = 2
  NodesMayFail = TRUE
  t1 = t1
  t2 = t2
INVARIANTS ProgressIsReal ClassIsCurrent NeverUnavailable ReadyIsActivated
PROPERTY WaitSettles
