SPECIFICATION Spec
CONSTANTS
    a = a
    b = b
    Units = {0, 1, 2}
    Callers = {a, b}
    Mask <- MCMask
    Asks <- MCAsks
    OvertakenTwice = TRUE
    MaxEvents = 4
INVARIANTS
    NoLostWakeup
