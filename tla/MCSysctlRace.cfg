SPECIFICATION SysctlSpec
CONSTANTS
    Writer = {w1, w2}
    Written = {"features", "ptrace_restrict_all"}
    Value <- MCValue
    Wrap = 256
INVARIANTS
    MirrorSynced
