\* A display page that is left and restored once, with a frame on its
\* way, one waiting and one replaced.  Two counters one of which may restart unseen,
\* and two windows of time.  Two images, each with a URL shown and one on its
\* way.  Files of up to five bytes and one that is too large.
CONSTANTS
  Workers = {w1, w2}
  MaxFrames = 3
  None = None
  Counters = {c1, c2}
  MaxCount = 1
  Window = 2
  MaxTime = 4
  Images = {i1, i2}
  URLs = {u1, u2, u3, u4}
  NoURL = NoURL
  maxUploadBytes = 5
  analysisLimit = 4
  uploadPreviewBytes = 3
  BufferSize = 3
SPECIFICATION Spec
SYMMETRY Interchangeable
CHECK_DEADLOCK FALSE
INVARIANTS
  OneFrameInFlight
  StatusPageSound
  GallerySound
  AnalysesPrefix
  DeadlineIsOwn
