SPECIFICATION Spec
CONSTANTS
  Jobs = {j1, j2, j3}
  Namespaces = {n1}
  None = None
  MaxRev = 2
  MaxGen = 1
SYMMETRY IndexSymmetry
INVARIANTS
  DeactivationHolds
CHECK_DEADLOCK FALSE
