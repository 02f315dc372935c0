SPECIFICATION Spec
CONSTANTS
    N = 3
    Files = {f1, f2, f3}
    Hosts = {h}
    NoOp = NoOp
    PageSize = 3
    Eligible = {3}
    Crashable = {1}
    LoopRemoved = FALSE
    MaxId = 2
    MaxRoles = 0
    MaxLostCall = 2
    MaxLostReply = 0
    MaxLostGet = 0
    MaxCrash = 1
    MaxDbFail = 0
    MaxFaults = 9
    Base = 2
    Width = 2
    CharSigned = TRUE
SYMMETRY Symmetry
INVARIANTS
    LogsAgree
    NoGaps
    IdsKeepOrder
    FileOnce
    AheadOnlyInFlight
    MajorityHolds
    UserdataMatches
PROPERTIES
    ImplementsSharedLog
CHECK_DEADLOCK FALSE
