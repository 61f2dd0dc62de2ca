SPECIFICATION Spec
CONSTANTS
    Run = {o1, o2, o3}
    Cluster = {c1, c2}
    VM = {v1, v2, v3}
    Groups <- TwoGroups
    WhenExists <- AllCrush
    Looped = {"orderers"}
    Count <- TwoOrderers
    Safe <- SafeIds
    CacheOn = {TRUE}
    OnePerCluster = TRUE
    NIL = NIL
SYMMETRY Symmetry
INVARIANT TypeOK
INVARIANT CreatedOnce
INVARIANT KillsExactly
CHECK_DEADLOCK FALSE
