CONSTANTS
  Peer = {p1, p2}
  Client = {c1, c2}
  Prefix = {"", "entities"}
  Name = {n1}
  BadName = {}
  Value = {v1}
  NIL = NIL
  NoWrite = NoWrite
  CalculateSize = TRUE
  RefsOnly = FALSE
  MaxCalls = 2
  MaxRestarts = 0
  MaxLost = 1
  MaxRetries = 1
SPECIFICATION FairSpec
CHECK_DEADLOCK FALSE
INVARIANTS SizeReadsChain
PROPERTY CallsReturn
