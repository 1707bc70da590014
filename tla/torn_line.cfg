SPECIFICATION RecSpec
CONSTANTS
    c1 = c1
    Clients = {c1}
    Capacity = 2
    MaxItems = 1
    MaxFaults = 1
    MaxLives = 1
    MaxMetas = 1
INVARIANTS AckedIsReadable
CHECK_DEADLOCK FALSE
