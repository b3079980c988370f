SPECIFICATION FairSpec
CONSTANTS
  MaxWrites = 2
  MaxArrivals = 3
  SendBuf = 1
  BatchSize = 2
  GroSegments = 2
  AppWrites = TRUE
  Rearm = {"armed"}
  None = None
INVARIANTS
  DeliveredOnce
PROPERTIES
  RefinesLifecycle
  StopEnds
  DatagramsServed
CHECK_DEADLOCK FALSE
