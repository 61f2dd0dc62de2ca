CONSTANTS
  Peer = {p1, p2}
  Client = {c1, c2}
  Prefix = {"", "entities"}
  Name = {n1}
  BadName = {}
  Value = {v1, v2}
  NIL = NIL
  NoWrite = NoWrite
  CalculateSize = FALSE
  RefsOnly = FALSE
  MaxCalls = 2
  MaxRestarts = 1
  MaxLost = 1
  MaxRetries = 0
SPECIFICATION Spec
CHECK_DEADLOCK FALSE
SYMMETRY Symmetry
INVARIANTS PutsNeverConflict
