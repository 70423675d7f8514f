SPECIFICATION Spec
CONSTANTS
    Hook = {h}
    Viewer = {v}
    LogSize = 3
    AuditSize = 2
    MaxTags = 2
    Tunable = {"enabled", "FILE_INTEGRITY"}
    MaxEvents = 2
    MaxWrites = 1
INVARIANTS
    TypeOK
    StatsAddUp
    LogCounted
    StatusTrue
    AuditWithinTags
