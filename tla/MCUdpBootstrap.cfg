SPECIFICATION UdpSpec
CONSTANTS
  MaxOpens = 3
  Callers = {main, k2}
  Main = main
  None = None
INVARIANTS
  Stoppable
  UdpHandlersTold
PROPERTIES
  UdpRefinesBootstrap
CHECK_DEADLOCK FALSE
