CONSTANTS
  Peer = {p1, p2}
  Client = {c1, c2}
  Prefix = {"", "entities"}
  Name = {n1, n2}
  BadName = {n2}
  Value = {v1, v2}
  NIL = NIL
  NoWrite = NoWrite
  CalculateSize = FALSE
  RefsOnly = TRUE
  MaxCalls = 2
  MaxRestarts = 0
  MaxLost = 1
  MaxRetries = 0
SPECIFICATION Spec
CHECK_DEADLOCK FALSE
SYMMETRY Symmetry
INVARIANTS TypeOK RefsResolve EndorsementsAgree
PROPERTY StoreSpec
