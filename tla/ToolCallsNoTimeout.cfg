SPECIFICATION FairSpec
CONSTANTS
    c1 = c1
    c2 = c2
    c3 = c3
    s1 = s1
    s2 = s2
    bash = bash
    Call = {c1, c2}
    Session = {s1, s2}
    Tool = {bash}
    Bash = bash
    SessionOf <- OneSession
    ToolOf <- AllBash
    Matches <- OneOutside
    Default <- AskAll
    TimeoutEnabled = FALSE
    CancelWired = FALSE
    MaxCrashes = 0
    MaxRetries = 0
PROPERTY
    DisconnectReleases
CHECK_DEADLOCK FALSE
