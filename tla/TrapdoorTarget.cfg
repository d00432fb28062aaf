\* No arrays; a ring of degree 4.
CONSTANTS
  Arrays = {}
  Values <- Bits
  MaxSteps = 4
  N = 4
  Q = 37
  Byte = 4
  Noise <- MCNoise
  Ids <- MCIds
  Languages = {"C", "Rust", "C++"}
SPECIFICATION MCSpec
INVARIANTS TargetIsTheImage
CHECK_DEADLOCK FALSE
