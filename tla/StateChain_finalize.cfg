SPECIFICATION Spec
CONSTANTS
  Callers = {c1, c2, c3}
  MaxStates = 4
PROPERTIES
  FinalizesOnlyOnSuccess
