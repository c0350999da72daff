SPECIFICATION Spec
CONSTANTS
  MaxRecv = 5
  MaxProbe = 0
  MaxEvents = 5
  MaxDepth = 2
  Payloads = {}
  SweepMin = 2
  Unprobeable = {2}
  Rejecting = {}
  Reentry = {"callback"}
  Modes = {FALSE, TRUE}
INVARIANTS NoLostWakeup NoLossNoReorder ReceiverFifo RetentionBounded
CHECK_DEADLOCK FALSE
