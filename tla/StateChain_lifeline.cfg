SPECIFICATION Spec
CONSTANTS
  Callers = {c1, c2, c3}
  MaxStates = 5
SYMMETRY CallerSymmetry
INVARIANTS
  OneLiveInstance
  HandlesConverge
  LoopFindsCurrent
PROPERTIES
  ImplementsCompareAndSet
