\* A callback, or a frame that does not fit, makes resume_reading() raise.
SPECIFICATION Spec
CONSTANTS
  Streams <- MCStreams
  MaxPending = 5
  MaxHandshake = 2
  MaxRead = 3
  MaxPauses = 1
  MaxDepth = 2
  LatePackets = FALSE
INVARIANT ResumeReads
CHECK_DEADLOCK FALSE
