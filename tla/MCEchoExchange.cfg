SPECIFICATION EchoFairSpec
CONSTANTS
  Tasks = {"main", "app", "listener", "child", "client"}
  Main = "main"
  MaxWakes = 0
  Iter = 4
  MaxYields = 5
INVARIANTS
  LinesInOrder
  NothingLost
PROPERTIES
  TestEnds
CHECK_DEADLOCK FALSE
