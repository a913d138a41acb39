SPECIFICATION FairSpec
CONSTANTS
    MaxCalls = 2
    MaxConns = 2
    Room = 1
INVARIANTS
    TypeOK
    InputMatchesRun
    
    
PROPERTIES
    PromptReturns
\* A client in "dead" or one whose pump is gone stops; so does one at the bounds.
CHECK_DEADLOCK FALSE
