SPECIFICATION FairSpec
CONSTANTS
    RING = 3
    Weights = {3, 4}
    CloseWithNapi = TRUE
PROPERTY ServedWhileOpen
