SPECIFICATION FairSpec
CONSTANTS
    c1 = c1
    c2 = c2
    c3 = c3
    s1 = s1
    s2 = s2
    bash = bash
    Call = {c1, c2, c3}
    Session = {s1, s2}
    Tool = {bash}
    Bash = bash
    SessionOf <- SharedSessionOf
    ToolOf <- AllBash
    Matches <- OneDenied
    Default <- AskAll
    TimeoutEnabled = TRUE
    CancelWired = FALSE
    MaxCrashes = 1
    MaxRetries = 2
INVARIANTS
    ExecutionAuthorised
    FileTracksMemory
PROPERTIES
    ImplementsGate
    EveryCallReturns
CHECK_DEADLOCK FALSE
