CONSTANTS
    Prefix = {"", "map-entities--"}
    Map = "map-entities--"
    n1 = n1
    n2 = n2
    n3 = n3
    Name = {n1, n2, n3, bad}
    BadName = {bad}
    Value = {v1}
    NIL = NIL
    NoWrite = NoWrite
    SEP = SEP
    Order <- MCOrder
    Path <- MCPath
    CalculateSize = FALSE
    Half = 8
    Limit = {1, 2}
    Words <- MCWords
    Slot = {s1, s2}
    MaxTx = 4
    MaxStarts = 2
SPECIFICATION Spec
SYMMETRY Symmetry
CHECK_DEADLOCK FALSE
INVARIANTS TypeOK WalkMissesNothing WalkRepeatsNothing PageIsSlice KeysComeBack
PROPERTY InitOnce
