\* Two connections, four frames, one operator, two failures.
CONSTANTS
  MaxSessions = 2
  MaxFrames = 4
  MaxFailures = 2
  Buffer = 3
  Window = 2
  Offsets <- FourOffsets
  Limit = 2
  Tolerated = 2
SPECIFICATION FairSpec
INVARIANTS
  TypeOK
  EvidenceIsOfTheSameStream
PROPERTIES
  VisionArmsItself
\* A process that has stopped, or a camera out of frames, is the end.
CHECK_DEADLOCK FALSE
