SPECIFICATION Spec
CONSTANTS
  LocIds = {a, b}
  InitialLocs = {a}
  Callers = {c1, c2}
  Clients <- HastyAndCareful
  CancelMayFail = FALSE
  MaxRegistries = 5
  MaxVersion = 2
  a = a
  b = b
  c1 = c1
  c2 = c2
SYMMETRY CallerSymmetry
CHECK_DEADLOCK FALSE
INVARIANTS OneRegistry LatestHandleIsListed ListedLocsAreLive
PROPERTIES LocsAreNotForgotten ListedDataGoesForward CancelledStaysAway
