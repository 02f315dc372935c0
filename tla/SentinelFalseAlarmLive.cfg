SPECIFICATION SettledLiveSpec
CONSTANTS
    N = 3
    MaxEpoch = 1
    MaxLost = 3
    MaxStart = 0
    MaxCrash = 0
INVARIANTS
    AtMostOneLeader
PROPERTIES
    EveryoneSettles
    ALeaderEmerges
