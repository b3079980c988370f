SPECIFICATION FairSpec
CONSTANTS
  Tasks = {main, t1, t2, t3}
  Main = main
  MaxYields = 3
  MaxWakes = 2
INVARIANTS
  NoReentry
PROPERTIES
  WokenRuns
  RunnableRuns
CHECK_DEADLOCK FALSE
