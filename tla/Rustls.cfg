\* Reads of up to five bytes, seven held; four pauses; three resumes inside one read.
SPECIFICATION FairSpec
CONSTANTS
  Streams <- MCStreams
  MaxPending = 7
  MaxHandshake = 2
  MaxRead = 5
  MaxPauses = 4
  MaxDepth = 4
  LatePackets = TRUE
INVARIANTS RemainingAgrees ReadingAgrees PeerEndKeepsFrames CauseReported HeldBounded WireOrder
PROPERTIES ImplementsPipe PeerCloseEnds
\* A connection may end, and the application may stop calling.
CHECK_DEADLOCK FALSE
