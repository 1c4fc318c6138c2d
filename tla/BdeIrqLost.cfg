SPECIFICATION Spec
CONSTANTS
    Devs = {d1}
    KnetDevs = {d1}
    Kinds = {"cmic"}
    OtherKinds = {"plain"}
    DisableDevs = {d1}
    EarlyKnetBits = FALSE
    UnloadWhilePolling = FALSE
INVARIANT
    UserHeardAll
