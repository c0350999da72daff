\* Two-byte frames, a socket that takes two bytes, a transport that pauses the
\* client at the third buffered byte.
SPECIFICATION FairSpec
CONSTANTS
  MaxFrames = 5
  FrameLen = 2
  HighWater = 2
  LowWater = 1
  MaxRoom = 2
INVARIANTS SendOrder WholeFrames ControlNotBypassed CacheSound PauseAgrees
PROPERTIES FramesLeave
\* The connection ends.
CHECK_DEADLOCK FALSE
