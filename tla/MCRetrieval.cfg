SPECIFICATION RetrievalSpec
CONSTANTS
  Jobs = {j1, j2, j3}
  Namespaces = {n1, n2}
  None = None
  MaxRev = 2
  MaxGen = 0
  MaxTopK = 3
  PackMaxHits = 2
  PackMaxChars = 2
  InflationMaxRoots = 1
  RootMaxChars = 2
  BodySizes = {1, 3}
SYMMETRY SearchSymmetry
INVARIANTS
  AnswerServed
  SteadyIsFound
  AnswerSound
CHECK_DEADLOCK FALSE
