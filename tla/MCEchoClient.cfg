SPECIFICATION ClientFairSpec
CONSTANTS
  MaxInput = 6
  Capacity = 3
INVARIANTS
  EveryLineOnce
PROPERTIES
  ProgramEnds
CHECK_DEADLOCK FALSE
