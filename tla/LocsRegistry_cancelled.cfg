SPECIFICATION Spec
CONSTANTS
  LocIds = {a, b}
  InitialLocs = {a, b}
  Callers = {c1, c2}
  Clients <- ParallelOnly
  CancelMayFail = FALSE
  MaxRegistries = 4
  MaxVersion = 2
  a = a
  b = b
  c1 = c1
  c2 = c2
SYMMETRY CallerSymmetry
CHECK_DEADLOCK FALSE
PROPERTY CancelLeavesRegistry
