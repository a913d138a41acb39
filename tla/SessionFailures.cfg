SPECIFICATION FairSpec
CONSTANTS
    r1 = r1
    r2 = r2
    r3 = r3
    r4 = r4
    Request = {r1, r2, r3}
    Nobody = Nobody
    Launched = {r1}
    MaxSteps = 2
    MaxCalls = 2
    Reply <- AllReplies
    AutoCompact = FALSE
    MayFail = TRUE
INVARIANTS
    ThreadReadsPaired
PROPERTIES
    ImplementsDialogue
    SessionIsFreed
CHECK_DEADLOCK FALSE
