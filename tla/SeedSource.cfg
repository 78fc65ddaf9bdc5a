\* Words of two bytes leave a rest in both seeds; room for the
\* root's seed, a read that fails and a reseed.
CONSTANTS
  RootSeedSize = 3
  ReseedSize = 3
  WordSize = 2
  MaxDrawn = 7
SPECIFICATION Spec
CHECK_DEADLOCK FALSE
INVARIANTS
  SeedsAreSourceBytes
