SPECIFICATION FairSpec
CONSTANTS
    RING = 3
    Weights = {3, 4}
    CloseWithNapi = FALSE
INVARIANTS
    InterruptArmed
    PacketAnnounced
PROPERTIES
    PacketsTaken
    ChannelRestarts
