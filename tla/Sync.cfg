\* A connection, several receives with interrupts, and a close.
SPECIFICATION Spec
CONSTANTS
  ConnectTimeout = 3
  ReceiveTimeout = 3
  CloseTimeout = 2
  MaxTime = 12
INVARIANT IdleRestored
PROPERTIES TimeoutsEarned SignalsKeepDeadline
\* The clock stops at MaxTime.
CHECK_DEADLOCK FALSE
