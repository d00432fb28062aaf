\* The hints of every coefficient, with two contents of uninitialised memory.
CONSTANTS
  N = 16
  Words <- MCWords
  Noises <- MCNoises
  Stale = {0, 255}
  Nodes = 3
  Degree = 2
  Domain = 4
  Phases = 3
  Steps = 2
SPECIFICATION MCSpec
INVARIANTS SameHints
CHECK_DEADLOCK FALSE
