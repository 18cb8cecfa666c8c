CONSTANTS
    d1 = d1
    d2 = d2
    s1 = s1
    s2 = s2
    s3 = s3
    c1 = c1
    Devices = {d1}
    Sockets = {s1, s2}
    DeviceOf <- OneDevice
    Calls = {c1}
    None = None
    Heartbeats = {s1}
    Overlap = TRUE
    Prompt = FALSE
    MayFail = TRUE
    MayEvict = TRUE
SPECIFICATION FairSpec
INVARIANTS
    TypeOK
    OfflineIsReal
PROPERTIES
    ImplementsToolCalls
    EveryCallIsAnswered
CHECK_DEADLOCK FALSE
