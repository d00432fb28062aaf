\* Hints of every coefficient and of corner cases; meshes of three nodes of degree two.
CONSTANTS
  N = 16
  Words <- MCWords
  Noises <- MCNoises
  Stale = {0, 255}
  Nodes = 3
  Degree = 2
  Domain = 4
  Phases = 3
  Steps = 2
SPECIFICATION MCSpec
INVARIANTS HintsAreMonotone NoiseTolerated EqualHintsAccepted GraphWellFormed ShuffleKeepsBits
PROPERTIES MeshEnds
CHECK_DEADLOCK FALSE
