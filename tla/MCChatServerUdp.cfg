SPECIFICATION UdpSpec
CONSTANTS
  Peers = {a1, a2, a3}
  MaxBuffers = 3
  MaxBatch = 2
  Contents <- MCContents
SYMMETRY Symmetry
INVARIANTS
  OneConversation
  DamageBounded
CHECK_DEADLOCK FALSE
