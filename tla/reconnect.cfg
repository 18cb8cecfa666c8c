CONSTANTS
    d1 = d1
    d2 = d2
    s1 = s1
    s2 = s2
    s3 = s3
    c1 = c1
    Devices = {d1, d2}
    Sockets = {s1, s2, s3}
    DeviceOf <- TwoDevices
    Calls = {c1}
    None = None
    Heartbeats = {s1, s2, s3}
    Overlap = FALSE
    Prompt = TRUE
    MayFail = FALSE
    MayEvict = TRUE
SPECIFICATION Spec
INVARIANTS
    DisconnectIsReal
    RegistryIsCurrent
CHECK_DEADLOCK FALSE
