\* The root alone, the default age limit (eight units), reads of up to three
\* intervals.
CONSTANTS
  N = 1
  Interval = 2
  Second = 2
  ReadTime = 6
  MaxAge <- DefaultMaxAge
SPECIFICATION TimedSpec
INVARIANTS
  HealthyStaysReady
