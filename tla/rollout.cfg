SPECIFICATION RecFairSpec
CONSTANTS
    c1 = c1
    c2 = c2
    Clients = {c1, c2}
    Capacity = 2
    MaxItems = 3
    MaxFaults = 2
    MaxLives = 2
    MaxMetas = 2
INVARIANTS RecInv NothingDropped MetaFirst
PROPERTIES ImplementsDurableLog CallsAnswered
CHECK_DEADLOCK FALSE
