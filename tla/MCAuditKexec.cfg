SPECIFICATION Spec
CONSTANTS
    NoThread = NoThread
    NoNr = NoNr
    Admin = {p}
    Loader = {t}
    Nr = {"finit_module", "kexec_load"}
    AEGIS_MAX_BLOCKED_SYSCALLS = 2
    Tunable = {"module_loading_denied"}
    MaxEvents = 1
INVARIANTS
    KexecDenied
