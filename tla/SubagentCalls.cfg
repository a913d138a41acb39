SPECIFICATION Spec
CONSTANTS
    MaxAgents = 4
    Attempts = 2
INVARIANTS
    TypeOK
    Nested
    BackgroundKnown
PROPERTIES
    ForegroundEnds
CHECK_DEADLOCK FALSE
