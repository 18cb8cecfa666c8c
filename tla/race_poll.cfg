CONSTANTS
    Parts = {"login"}
    c1 = c1 c2 = c2 u1 = u1 u2 = u2 o1 = o1 o2 = o2 d1 = d1 d2 = d2
    k1 = k1 k2 = k2 k3 = k3 s1 = s1 s2 = s2 h1 = h1 h2 = h2 x = x y = y
    n1 = n1 n2 = n2
    None = None Unset = Unset Nothing = Nothing
    Clients = {k1, k2, k3}
    Unwelcome = {k3}
    Servers = {s1, s2}
    Modes = {"memory", "sqlite"}
    Codes = {c1}
    Handlers = {h1, h2}
    Scopes = {x, y}
    CodeTtl = 1
    AccessTtl = 1
    RefreshTtl = 1
    MaxTime = 2
    MaxPairs = 3
    DeviceCodes = {c1, c2}
    UserCodes = {u1, u2}
    Owners = {o1, o2}
    Devices = {d1, d2}
    Requests = {1, 2, 3}
    Plays <- ApprovedPlay
    AuthTtl = 3
    TokenTtl = 1
    Interval = 2
    MaxLoginTime = 4
    Identities = {o1, o2}
    Sessions = {n1, n2}
    Workspaces = {x, y}
    Paths = {n1, n2}
    Calls = {h1, h2}
    Stores = {"sqlite", "postgres"}
    Ttl = 1
    MaxSessionTime = 2
    MaxTouches = 1
SPECIFICATION AccessSpec
INVARIANTS
    DecisionsStand
CHECK_DEADLOCK FALSE
