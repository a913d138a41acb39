SPECIFICATION Spec
CONSTANTS
    c1 = c1
    c2 = c2
    c3 = c3
    s1 = s1
    s2 = s2
    bash = bash
    Call = {c1, c2, c3}
    Session = {s1, s2}
    Tool = {bash}
    Bash = bash
    SessionOf <- SharedSessionOf
    ToolOf <- AllBash
    Matches <- OneOutside
    Default <- AskAll
    TimeoutEnabled = TRUE
    CancelWired = TRUE
    MaxCrashes = 0
    MaxRetries = 0
INVARIANTS
    TypeOK
    ExecutionAuthorised
    CacheJustified
    PendingMatchesWaiters
    AnswerHonoured
CHECK_DEADLOCK FALSE
