SPECIFICATION Spec
CONSTANTS
  MaxRecv = 1
  MaxProbe = 1
  MaxEvents = 5
  MaxDepth = 3
  Payloads = {p1}
  SweepMin = 2
  Unprobeable = {}
  Rejecting = {1}
  Reentry = {"callback", "recv", "done", "create", "write"}
  Modes = {FALSE, TRUE}
INVARIANTS CallbacksBeforeTeardown TerminalReleases CloseFrameLast
CHECK_DEADLOCK FALSE
