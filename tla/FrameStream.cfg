\* Every stream of three frames after the handshake response, cut in every
\* way into reads of up to five bytes.
SPECIFICATION Spec
CONSTANTS
  Format <- MCFormat
  StreamLen = 3
  MaxChunk = 5
  MaxFrame = 2
  MaxMessage = 2
INVARIANTS EventsAsSent OneParkingPlace FragmentBounded
PROPERTY ImplementsEvents
\* The stream ends.
CHECK_DEADLOCK FALSE
