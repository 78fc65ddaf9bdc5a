\* Two WebSocket readers, a request with a child and a /random request draw
\* from one root that is reseeded once and closed at any moment.  A key's
\* budget leaves a rest that serves neither a read nor a seed.
CONSTANTS
  Readers = {r1, r2}
  Requests = {q1}
  Raws = {w1}
  Root = rootGenerator
  None = none
  MaxBytesPerKey = 5
  SeedLen = 2
  ReadSizes = {2}
  MaxReseeds = 1
SPECIFICATION Spec
SYMMETRY Interchangeable
INVARIANTS
  KeystreamNeverReused
  OwnBudgetSuffices
  EveryGeneratorIsCounted
PROPERTIES
  ImplementsFreshStreams
