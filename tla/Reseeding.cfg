\* Two generators and a source that answers, fails and blocks as it likes; an
\* age limit of two units, so that a generator goes stale between two ticks.
CONSTANTS
  N = 2
  Interval = 1
  MaxAge = 2
SPECIFICATION Spec
INVARIANTS
  NobodyLeftOut
PROPERTIES
  OnlyFreshSeeds
  StaysDegraded
  Recovers
  LoopEnds
