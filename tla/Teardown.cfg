SPECIFICATION FairSpec
CONSTANTS
  MaxRecv = 1
  MaxProbe = 2
  MaxEvents = 3
  MaxDepth = 2
  Payloads = {p1}
  SweepMin = 2
  Unprobeable = {1}
  Rejecting = {}
  Reentry = {"callback", "done", "create", "write"}
  Modes = {FALSE, TRUE}
INVARIANTS PendingReachable NoStranded
PROPERTIES ClosingSettles CancelledProbeReleased ConnectEnds
CHECK_DEADLOCK FALSE
