SPECIFICATION Spec
CONSTANTS
    Devs = {d1}
    KnetDevs = {d1}
    Kinds = {"cmicx"}
    OtherKinds = {"plain"}
    DisableDevs = {d1}
    EarlyKnetBits = FALSE
    UnloadWhilePolling = FALSE
INVARIANT
    KnetHeard
