SPECIFICATION Spec
CONSTANTS
    Calls = {c1, c2}
    NoCall = NoCall
    Attempts = 2
    Room = 2
    c1 = c1
    c2 = c2
INVARIANTS
    TypeOK
    OneReader
    
PROPERTIES
    CallsReturn
CHECK_DEADLOCK FALSE
