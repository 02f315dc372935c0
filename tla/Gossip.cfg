SPECIFICATION SettledLiveSpec
CONSTANTS
    c1 = c1
    c2 = c2
    c3 = c3
    Chunks = {c1, c2, c3}
    Seeds = {c1}
    Known <- SeedsAndItself
    Ahead <- SeedIsFast
    ServedEarly = TRUE
    Crashable = {c2}
    Awake = {c1, c2}
    MaxStart = 1
    MaxFault = 2
INVARIANTS
    TypeOK
    RolesKept
    NoFalseDeath
    ListsArePartition
PROPERTIES
    EveryoneKnowsWhoRuns
