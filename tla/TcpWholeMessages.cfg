SPECIFICATION Spec
CONSTANTS
  MaxWrites = 2
  Size <- MCSize
  SendBuf = 1
  MaxReads = 0
  MaxPayload = 1
  Rearm = {"none", "armed"}
  None = None
INVARIANTS
  WholeMessages
CHECK_DEADLOCK FALSE
