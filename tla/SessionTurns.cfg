SPECIFICATION Spec
CONSTANTS
    r1 = r1
    r2 = r2
    r3 = r3
    r4 = r4
    Request = {r1, r2, r3, r4}
    Nobody = Nobody
    Launched = {}
    MaxSteps = 2
    MaxCalls = 2
    Reply <- KnownReplies
    AutoCompact = TRUE
    MayFail = FALSE
INVARIANTS
    TypeOK
    TurnsContiguous
    RunSeesMessage
    RequestsPaired
    NothingLost
    MetaFresh
SYMMETRY Interchangeable
CHECK_DEADLOCK FALSE
