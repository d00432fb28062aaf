\* Two bundles, two key pairs, one evolution of each copy of the parameters,
\* five choices of start nodes; the tags of the two bundles differ.
CONSTANTS
  Starts <- FiveStarts
  Mask <- CoalescingMask
  Tag <- RejectionsCollide
  MaxBundles = 2
  MaxKeys = 2
  MaxEpoch = 1
SPECIFICATION Spec
INVARIANTS KeysAgreeOnInputs CheckedKeysAgree CommitmentBindsFields NoFalseAlarm
CHECK_DEADLOCK FALSE
