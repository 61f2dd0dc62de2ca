SPECIFICATION FairSpec
CONSTANTS
    Run = {r1, r2, r3}
    Policy = {1}
    Rule = {1, 3}
    OpenRule = 3
    LocalAMI = {TRUE}
    MaxFaults = 1
    NIL = NIL
CHECK_DEADLOCK FALSE
INVARIANT TypeOK
INVARIANT Configured
INVARIANT OwnKey
PROPERTY LoneRunsGoOn
PROPERTY RunsEnd
