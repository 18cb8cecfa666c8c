CONSTANTS
    a1 = a1
    a2 = a2
    r1 = r1
    r2 = r2
    d1 = d1
    d2 = d2
    o1 = o1
    o2 = o2
    x1 = x1
    x2 = x2
    Dispatchers = {d1}
    Operators = {o1}
    AutomationRuns = {a1}
    AgentRuns = {r1}
    Roots = {x1}
    Verdicts <- AllowOnly
    MaxApprovals = 0
    MayThrow = FALSE
    Serial = FALSE
    NoAutomation = NoAutomation
    NoRun = NoRun
    NoRoot = NoRoot
SPECIFICATION Spec
PROPERTY CancelIsKept
