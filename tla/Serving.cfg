\* Admission: three clients, a budget two of them can exhaust, and requests
\* whose size overflows an int of four bits.  Logging: an informational code,
\* and final ones of every kind.  Rendering: one listener more than slots.
\* Peaks: readings at the same time, with events before, between and behind
\* the reads of two counters.  Preferences: numbers below, at and above the
\* limits, given once and twice.
CONSTANTS
  Clients = {c1, c2, c3}
  MaxActive = 2
  MaxMemory = 6
  MaxInt = 7
  Overhead = 1
  Quantities = {1, 7}
  Factors = {1, 5}
  FixedCosts = {3}
  MaxRejected = 1
  Interim = {103}
  Final = {101, 200, 304, 400, 503}
  Listeners = {l1, l2, l3}
  Slots = 2
  Counters = 2
  MaxCount = 3
  MaxTime = 3
  Numbers = {0, 1, 2}
  Limits = {1, 2}
  PlainBytes = 2
  PlainRefresh = 1
  CookieBytes = 1
  CookieWords = 1
  RouteBytes = {2}
  MaxRefresh = 1
  MaxNumber = 3
SPECIFICATION ServingSpec
CHECK_DEADLOCK FALSE
INVARIANTS
  LoggedAsSent
  PeakCoversAverage
  ServedAsAsked
PROPERTIES
  ImplementsMemoryPool
  RefusalsAreJustified
  BusyIsJustified
