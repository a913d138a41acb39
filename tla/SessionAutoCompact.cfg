SPECIFICATION Spec
CONSTANTS
    r1 = r1
    r2 = r2
    r3 = r3
    r4 = r4
    Request = {r1, r2}
    Nobody = Nobody
    Launched = {}
    MaxSteps = 3
    MaxCalls = 1
    Reply <- OneCall
    AutoCompact = TRUE
    MayFail = FALSE
INVARIANT ThreadReadsPaired
CHECK_DEADLOCK FALSE
