SPECIFICATION Spec
CONSTANTS
    MaxCalls = 0
    MaxConns = 2
    Room = 1
PROPERTIES
    ReconnectsReady
\* A client in "dead" or one whose pump is gone stops; so does one at the bounds.
CHECK_DEADLOCK FALSE
