\* The command channel never fills and close() is not overlapped.
SPECIFICATION FairSpec
CONSTANTS
  CmdCap = 2
  MsgCap = 1
  MaxSends = 1
  MaxRecvs = 2
  MaxMsgs = 2
  Overlap = FALSE
INVARIANTS MessagesInOrder OnlyCancellationLoses
PROPERTIES CloseCompletes RecvsResolve DroppedActorEnds
\* A connection may end, and the application may stop calling.
CHECK_DEADLOCK FALSE
