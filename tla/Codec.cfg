\* Every coefficient, every tolerable error, every byte of noise.
CONSTANTS
  N = 8
  K = 1
  LastError = 727
  Vectors <- MCVectors
  Messages <- MCMessages
  Errors <- MCErrors
  Streams <- MCStreams
  Draws <- MCDraws
SPECIFICATION Spec
INVARIANTS EncodedExactly ReadBack NoiseAgrees
CHECK_DEADLOCK FALSE
