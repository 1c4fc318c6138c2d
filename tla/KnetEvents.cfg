SPECIFICATION FairSpec
CONSTANTS
    a = a
    b = b
    Units = {0, 1, 2}
    Callers = {a, b}
    Mask <- MCMask
    Asks <- MCAsks
    OvertakenTwice = FALSE
    MaxEvents = 3
INVARIANTS
    NoLostWakeup
PROPERTIES
    EventsDelivered
