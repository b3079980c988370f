SPECIFICATION Spec
CONSTANTS
  Addrs = {a1, a2}
  Conns = {c1, c2, c3}
  MaxLines = 3
  None = None
SYMMETRY Symmetry
INVARIANTS
  Entries
  MembersHear
CHECK_DEADLOCK FALSE
