\* A frame drawn, one in the worker, one queued, one that replaces it, and one
\* that is skipped.
CONSTANT
  MaxFrames = 5
SPECIFICATION Spec
CHECK_DEADLOCK FALSE
INVARIANTS
  OneFrameWithWorker
  EndRemainsVisible
PROPERTIES
  QueuedIsDrawn
