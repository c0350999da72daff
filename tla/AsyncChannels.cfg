\* One slot per channel: four sends, a recv, two messages.
SPECIFICATION Spec
CONSTANTS
  CmdCap = 1
  MsgCap = 1
  MaxSends = 4
  MaxRecvs = 1
  MaxMsgs = 2
  Overlap = TRUE
INVARIANT AwaitedSendsInOrder
\* A connection may end, and the application may stop calling.
CHECK_DEADLOCK FALSE
