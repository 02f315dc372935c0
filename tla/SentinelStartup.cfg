SPECIFICATION Spec
CONSTANTS
    N = 3
    MaxEpoch = 1
    MaxLost = 0
    MaxStart = 3
    MaxCrash = 0
INVARIANTS
    AtMostOneLeader
PROPERTIES
    LeaderIsStable
    ImplementsRoles
