SPECIFICATION Spec
CONSTANTS
    NoThread = NoThread
    NoTask = NoTask
    NoEntry = NoEntry
    lead = lead
    thr = thr
    Admin = {p, q}
    Tracer = {t}
    Task = {lead, thr}
    Leader <- MCLeader
    Pid = {1, 2}
    Comm = {"sshd", "init"}
    Request <- RequestList
    AEGIS_MAX_PROTECTED_PROCS = 2
    Tunable = {"PROCESS_PROTECT", "ptrace_restrict_all"}
    MaxEvents = 2
SYMMETRY AdminSymmetry
CONSTRAINTS RacesComeFirst Undecided
ACTION_CONSTRAINT TasksChangeBetweenHooks
INVARIANTS
    TypeOK
    CountExact
    ListBounded
    AttachNeedsGap
    RestrictAllHolds
PROPERTIES
    ImplementsList
