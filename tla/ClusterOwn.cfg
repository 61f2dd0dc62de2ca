SPECIFICATION Spec
CONSTANTS
    Run = {o1, o2}
    Cluster = {c1, c2}
    VM = {v1, v2, v3, v4}
    Groups <- TwoGroups
    WhenExists <- AllCrush
    Looped = {"orderers"}
    Count <- OneEach
    Safe <- SafeIds
    CacheOn = {FALSE}
    OnePerCluster = TRUE
    NIL = NIL
SYMMETRY Symmetry
INVARIANT NodesAreOwn
CHECK_DEADLOCK FALSE
