SPECIFICATION Spec
CONSTANTS
  max_length = 2
  MaxRead = 5
  MaxBytes = 5
INVARIANTS
  ExactLines
  FrameContents
  DiscardingExact
CHECK_DEADLOCK FALSE
