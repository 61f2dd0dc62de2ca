CONSTANTS
  Peer = {p1, p2}
  Client = {c1}
  Prefix = {"", "entities"}
  Name = {n1, n2}
  BadName = {}
  Value = {v1}
  NIL = NIL
  NoWrite = NoWrite
  CalculateSize = FALSE
  RefsOnly = FALSE
  MaxCalls = 3
  MaxRestarts = 0
  MaxLost = 0
  MaxRetries = 0
SPECIFICATION Spec
CHECK_DEADLOCK FALSE
SYMMETRY Symmetry
INVARIANT PutThenGet
