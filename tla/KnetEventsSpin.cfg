SPECIFICATION FairSpec
CONSTANTS
    a = a
    b = b
    Units = {0, 1}
    Callers = {a, b}
    Mask <- SpinMask
    Asks <- SpinAsks
    OvertakenTwice = FALSE
    MaxEvents = 2
PROPERTIES
    CallersWait
