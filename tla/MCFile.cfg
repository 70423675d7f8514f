SPECIFICATION Spec
CONSTANTS
    f1 = f1
    f2 = f2
    n1 = n1
    n2 = n2
    gone = gone
    NULL = NULL
    NoFile = NoFile
    NoName = NoName
    NoThread = NoThread
    Free = Free
    Pending = Pending
    Resolve <- MCResolve
    DPath <- MCDPath
    Admin = {p, q}
    Viewer = {}
    Task = {t}
    File = {f1}
    Name = {n1, gone}
    Addr = {a1, a2, a3, a4}
    AEGIS_MAX_PROTECTED_FILES = 2
    Tunable = {}
    MaxEvents = 1
    MaxWrites = 0
    MaxReads = 1
SYMMETRY AddrSymmetry
INVARIANTS
    TypeOK
    EntriesAccounted
    CountExact
    OvershootBounded
    CopiesBounded
    WriteNeedsGap
PROPERTIES
    ImplementsList
