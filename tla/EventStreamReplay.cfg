SPECIFICATION Spec
CONSTANTS
    r1 = r1
    r2 = r2
    c1 = c1
    c2 = c2
    Runs = {r1, r2}
    Conns = {c1, c2}
    NoRun = NoRun
    LastEvent = 2
    Unwritable = {r1}
    Params <- Asked
INVARIANTS
    TypeOK
    StreamInOrder
    FilesInOrder
    LiveComplete
PROPERTIES
    AbandonedForgotten
    RunsEnd
CHECK_DEADLOCK FALSE
