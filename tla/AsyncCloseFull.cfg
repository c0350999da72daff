\* Both channels full.
SPECIFICATION FairSpec
CONSTANTS
  CmdCap = 1
  MsgCap = 1
  MaxSends = 2
  MaxRecvs = 0
  MaxMsgs = 2
  Overlap = FALSE
PROPERTIES CloseCompletes
\* A connection may end, and the application may stop calling.
CHECK_DEADLOCK FALSE
