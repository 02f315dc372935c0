SPECIFICATION Spec
CONSTANTS
    N = 2
    MaxEpoch = 2
    MaxLost = 2
    MaxStart = 4
    MaxCrash = 2
INVARIANTS
    TypeOK
    BallotIsConsensus
    LeaderVotesForItself
    WatchesItsLeader
    TwoLeadersTakeTwoFaults
CHECK_DEADLOCK FALSE
