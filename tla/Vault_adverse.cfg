SPECIFICATION Spec
CONSTANTS
  Transfers = {t1, t2}
  Call <- Similars
  Operations = {o1, o2}
  t1 = t1
  t2 = t2
  o1 = o1
  o2 = o2
SYMMETRY OperationSymmetry
CHECK_DEADLOCK FALSE
INVARIANTS MultisigIsRequested ListsAreTrue ListsAreComplete
PROPERTY SettledStaysSettled
