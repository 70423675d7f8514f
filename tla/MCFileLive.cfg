SPECIFICATION FairSpec
CONSTANTS
    f1 = f1
    f2 = f2
    n1 = n1
    n2 = n2
    gone = gone
    NULL = NULL
    NoFile = NoFile
    NoName = NoName
    NoThread = NoThread
    Free = Free
    Pending = Pending
    Resolve <- MCResolve
    DPath <- MCDPath
    Admin = {p}
    Viewer = {v}
    Task = {t}
    File = {f1}
    Name = {n1}
    Addr = {a1}
    AEGIS_MAX_PROTECTED_FILES = 1
    Tunable = {"features", "file_integrity_enforce", "file_integrity_log"}
    MaxEvents = 1
    MaxWrites = 1
    MaxReads = 1
INVARIANTS
    WriteNeedsGap
PROPERTIES
    EveryCallReturns
