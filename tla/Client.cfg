\* Pulling: one frame used, one in the channel, one waiting for it and one
\* more.  Streaming: more buffers than a stream may need, and more messages
\* than it can hold.  Counting: streams that outlast two full channels, of
\* frames within and beyond the prefix.  Statistics: bytes of none, one and
\* all bits, in every cut of a body that lasts for two reports.
CONSTANTS
  MaxFetches = 4
  Buffers = {b1, b2, b3, b4}
  MaxMessages = 5
  None = None
  Sizes = {1, 2}
  Prefix = 1
  MaxFrames = 4
  Bytes = {0, 1, 255}
  ChunkSize = 2
  Interval = 3
  MaxBytes = 6
SPECIFICATION ClientSpec
CHECK_DEADLOCK FALSE
INVARIANTS
  FramesBeforeFailure
  PullerJoined
  FramesIntact
  ThreeBuffersSuffice
  MeterCountsMonitor
  LiveAgreesWithDiagnostics
  ReportsKeepPace
PROPERTIES
  ClientEnds
  StreamEnds
