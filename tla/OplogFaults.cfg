SPECIFICATION Spec
CONSTANTS
    N = 2
    Files = {f1}
    Hosts = {h}
    NoOp = NoOp
    PageSize = 3
    Eligible = {1, 2}
    Crashable = {1, 2}
    LoopRemoved = TRUE
    MaxId = 1
    MaxRoles = 2
    MaxLostCall = 1
    MaxLostReply = 2
    MaxLostGet = 1
    MaxCrash = 2
    MaxDbFail = 2
    MaxFaults = 2
    Base = 2
    Width = 2
    CharSigned = TRUE
SYMMETRY Symmetry
INVARIANTS
    TypeOK
    PreparedIsAnEntry
CHECK_DEADLOCK FALSE
