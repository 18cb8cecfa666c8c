CONSTANTS
    api = api
    hook = hook
    new = new
    o1 = o1
    t1 = t1
    t2 = t2
    t3 = t3
    o2 = o2
    m1 = m1
    m2 = m2
    m3 = m3
    m4 = m4
    h1 = h1
    h2 = h2
    h3 = h3
    Messages = {m1, m2, m3, m4, h1, h2, h3}
    Content <- MCContent
    MaxDeliveries = 2
    MaxOpen = 2
    Sources = {api, hook, new}
    Owners = {o1, o2}
    Tokens = {t1, t2, t3}
    Policies <- MCPolicies
    Installed <- MCInstalled
    NewRows <- MCNewRows
    SentTogether <- MCSentTogether
    MaxFaults = 1
    MaxEdits = 1
    None = None
SPECIFICATION FairSpec
INVARIANT AnswersAreTrue
PROPERTIES
    ImplementsIngress
    AcceptedEventsGetRuns
CHECK_DEADLOCK FALSE
