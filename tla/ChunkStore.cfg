SPECIFICATION LiveSpec
CONSTANTS
    f1 = f1
    f2 = f2
    k1 = k1
    u1 = u1
    u2 = u2
    u3 = u3
    Files = {f1, f2}
    Keys = {k1}
    Uploads = {u1, u2, u3}
    Downloads = {d1}
    None = None
    Hole = Hole
    KeyOf <- OneKey
    FileOf <- TwoFiles
    Length <- TwoOneNone
    MaxCrash = 1
    MaxError = 1
INVARIANTS
    TypeOK
    KeyOpensFile
    UploadIsKept
    ReadsOneUpload
PROPERTIES
    ClientsEnd
CHECK_DEADLOCK FALSE
