CONSTANTS
    h1 = h1
    h2 = h2
    h3 = h3
    s1 = s1
    s2 = s2
    c1 = c1
    d1 = d1
    d2 = d2
    r1 = r1
    r2 = r2
    g1 = g1
    k1 = k1
    Handlers = {h1, h2, h3}
    Sessions = {s1, s2}
    Conversations = {c1}
    Devices = {d1, d2}
    Refs = {r1, r2}
    Given = {g1, r1}
    Keys = {k1}
    Plays <- MCPlays
    Stores = {"memory", "postgres"}
    Present <- MCPresent
    BindsOverlap = FALSE
    MaxChanges = 1
    None = None
SPECIFICATION Spec
INVARIANTS
    RoutesFollowPairing
    OneSelectionPerKey
    SentWhileUp
    RunsWhereConnected
 
CHECK_DEADLOCK FALSE
