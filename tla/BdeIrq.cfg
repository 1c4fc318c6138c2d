SPECIFICATION FairSpec
CONSTANTS
    Devs = {d1, d2}
    KnetDevs = {d1}
    Kinds = {"cmic", "cmicm", "cmicx", "bcm88750"}
    OtherKinds = {"plain"}
    DisableDevs = {d1}
    EarlyKnetBits = FALSE
    UnloadWhilePolling = FALSE
INVARIANTS
    KnetMaskShared
    UserHeard
    FilterOwned
PROPERTIES
    UserServed
    KnetServed
