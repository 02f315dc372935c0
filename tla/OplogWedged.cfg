SPECIFICATION SettledLiveSpec
CONSTANTS
    N = 3
    Files = {f1, f2}
    Hosts = {h}
    NoOp = NoOp
    PageSize = 3
    Eligible = {3}
    Crashable = {1}
    LoopRemoved = FALSE
    MaxId = 1
    MaxRoles = 0
    MaxLostCall = 1
    MaxLostReply = 0
    MaxLostGet = 0
    MaxCrash = 1
    MaxDbFail = 0
    MaxFaults = 9
    Base = 2
    Width = 2
    CharSigned = TRUE
PROPERTIES
    UploadsEnd
CHECK_DEADLOCK FALSE
