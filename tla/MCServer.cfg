SPECIFICATION FairSpec
CONSTANTS
  MaxOpens = 2
  Conns = {c1, c2}
  Callers = {main, k2}
  Main = main
  None = None
INVARIANTS
  HandlersTold
PROPERTIES
  RefinesBootstrap
  ClosedTells
  StopReturns
CHECK_DEADLOCK FALSE
