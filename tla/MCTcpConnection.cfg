SPECIFICATION FairPeerSpec
CONSTANTS
  MaxWrites = 3
  Size <- MCSize
  SendBuf = 2
  MaxReads = 2
  MaxPayload = 1
  Rearm = {"none", "armed", "due"}
  None = None
INVARIANTS
  WireOrder
PROPERTIES
  RefinesLifecycle
  DrainedBeforeWaiting
  StopEnds
  DeadlineServed
  RepliesGoOut
CHECK_DEADLOCK FALSE
