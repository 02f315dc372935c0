SPECIFICATION LiveSpec
CONSTANTS
    k1 = k1
    k2 = k2
    u1 = u1
    Ids = {Admin, u1}
    Admin = Admin
    Keys = {k1, k2}
    NoKey = NoKey
    AdminKey = k1
    Threads = {t1, t2}
    Requests <- UserAndAdmin
    Publishers = {p1, p2}
    Publications <- GiveAndReplace
    Nothing = Nothing
    MaxPublish = 2
    MaxStart = 1
    MaxFault = 1
    Capacity = 2
    CacheKeys = {k1, k2, u1}
    CacheCalls = 6
INVARIANTS
    AcceptedWasCurrent
    RefusedForCause
    CacheKeepsLastUsed
PROPERTIES
    PublishedByAdmin
    CallsEnd
