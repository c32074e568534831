SPECIFICATION Spec
CONSTANTS
  Jobs = {j1, j2, j3}
  Namespaces = {n1, n2}
  None = None
  MaxRev = 2
  MaxGen = 1
SYMMETRY IndexSymmetry
INVARIANTS
  TypeOK
  ServedIsPublished
  RetirementBehindPointer
  LatestNotShutOut
PROPERTIES
  PointerAdvances
  DeletedIsFinal
CHECK_DEADLOCK FALSE
