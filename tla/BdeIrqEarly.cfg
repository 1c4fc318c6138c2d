SPECIFICATION Spec
CONSTANTS
    Devs = {d1}
    KnetDevs = {d1}
    Kinds = {"cmicm"}
    OtherKinds = {"plain"}
    DisableDevs = {d1}
    EarlyKnetBits = TRUE
    UnloadWhilePolling = FALSE
INVARIANT
    KnetMaskShared
