SPECIFICATION Spec
CONSTANT
  MaxInterrupts = 1
CHECK_DEADLOCK FALSE
INVARIANTS ClassIsTrue OpeningIsPending ReadyIsOnChain PublishedTogether
PROPERTY ClassGoesForward
