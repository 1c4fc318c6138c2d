SPECIFICATION Spec
CONSTANTS
    Devs = {d1}
    KnetDevs = {d1}
    Kinds = {"cmicm"}
    OtherKinds = {"plain"}
    DisableDevs = {d1}
    EarlyKnetBits = FALSE
    UnloadWhilePolling = TRUE
INVARIANT
    FilterOwned
