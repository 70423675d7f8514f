SPECIFICATION UserSpec
CONSTANTS
    AEGIS_PATH_LEN = 5
    AEGIS_COMM_LEN = 3
    NrBufLen = 4
    INT_MAX = 7
    Client = {c}
    Text <- MCText
    Limit <- MCLimit
    Boot <- MCBoot
    None = None
    Writer = {w1, w2, w3}
    Written = {"features", "ptrace_restrict_all"}
    Value <- MCValue
    Wrap = 256
SYMMETRY WriterSymmetry
INVARIANTS
    TypeOK
    PathWhole
    RequestHonoured
    AnswerTrue
    SysctlTypeOK
    LoneWriteCommits
