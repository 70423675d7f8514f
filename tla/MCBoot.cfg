SPECIFICATION SystemSpec
CHECK_DEADLOCK FALSE
CONSTANTS
    NodeOrder <- MCNodeOrder
    Provided <- MCProvided
INVARIANTS
    TypeOK
    AllOrNothing
    RemoveSafe
    GuardUp
    NothingHidden
    StatusShown
    NodesReal
PROPERTIES
    BootSettles
