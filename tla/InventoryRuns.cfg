SPECIFICATION Spec
CONSTANTS
    i1 = i1  i2 = i2  h1 = h1  h2 = h2  r1 = r1  r2 = r2
    Run = {p1, p2}
    Instance = {i1}
    Host = {h1}
    Region = {r1}
    Address <- Single
    Home <- SingleHome
    HostRuns = TRUE
    MayDie = TRUE
    MaxAge = 2
    MaxRun = 1
    MaxTime = 5
    NIL = NIL
SYMMETRY Symmetry
INVARIANT TypeOK
INVARIANT ListsRecent
INVARIANT NothingMeansGone
