SPECIFICATION Spec
CONSTANTS
    NoThread = NoThread
    NoNr = NoNr
    Admin = {p, q}
    Loader = {t}
    Nr = {"finit_module", "getpid"}
    AEGIS_MAX_BLOCKED_SYSCALLS = 2
    Tunable = {"enabled", "SYSCALL_AUDIT", "MODULE_CONTROL", "syscall_audit_enable", "module_loading_denied"}
    MaxEvents = 1
SYMMETRY AdminSymmetry
CONSTRAINT RacesComeFirst
INVARIANTS
    TypeOK
    CountExact
    ListBounded
    LoadNotBlocked
    LoadNotDenied
PROPERTIES
    ImplementsList
