SPECIFICATION Spec
CONSTANTS
    MaxTasks = 3
    MaxFaults = 2
    Attempts = 2
    Lists <- Both
INVARIANTS
    TypeOK
    Released
    ReadsBack
CHECK_DEADLOCK FALSE
