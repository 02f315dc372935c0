SPECIFICATION LiveSpec
CONSTANTS
    f1 = f1
    f2 = f2
    h1 = h1
    h2 = h2
    Uploads <- TwoUploads
    Replicas = {r1, r2}
    Files = {f1, f2}
    Hosts = {h1, h2}
    None = None
    PageSize = 2
    Threads = {t1, t2}
    MaxId = 1
    MaxCrash = 1
    MaxStop = 1
    MaxError = 1
INVARIANTS
    TypeOK
    NothingSkipped
    AnsweredRight
PROPERTIES
    SlaveCatchesUp
