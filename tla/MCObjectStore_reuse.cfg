SPECIFICATION Spec
CONSTANTS
  Clients = {c1, c2}
  Keys = {k1}
  MaxRows = 2
  MaxRefs = 1
SYMMETRY CallerSymmetry
INVARIANTS
  CatalogueNeverMissing
