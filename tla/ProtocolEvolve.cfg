\* Two bundles, two key pairs, one evolution of each copy of the parameters,
\* five choices of start nodes.
CONSTANTS
  Starts <- FiveStarts
  Mask <- CoalescingMask
  Tag <- RejectionsCollide
  MaxBundles = 2
  MaxKeys = 2
  MaxEpoch = 1
SPECIFICATION Spec
INVARIANTS SynchronousEvolutionAgrees
CHECK_DEADLOCK FALSE
