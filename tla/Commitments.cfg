\* All bit arrays of up to 4 elements, one of each length up to 11; a ring of degree 4.
CONSTANTS
  Arrays <- MCArrays
  Values <- Bits
  MaxSteps = 4
  N = 4
  Q = 37
  Byte = 4
  Noise <- MCNoise
  Ids <- MCIds
  Languages = {"C", "Rust", "C++"}
SPECIFICATION MCSpec
INVARIANTS AllocationsSuffice FollowsPath KernelExact AnswerIsTheAlgebra
PROPERTIES ImplementsCommitment
CHECK_DEADLOCK FALSE
