CONSTANTS
    Sizes = {1, 3}
    NoticeSize = 2
    MaxOutputBytes = 7
    MaxBytes = 3
    TimeoutMs = 1
    MaxPieces = 5
    d = d o = o p = p p2 = p2 p3 = p3 e = e v1 = v1 v2 = v2
    None = None NoRef = NoRef
    Plays <- HookPlays
    MaxCrashes = 1
    Processes = {p, p2, p3}
    Upgrades <- AllUpgrades
    Versions = {1, 2, 3, 4}
    MaxAborted = 1
    Absent = Absent
    Writers = {d, o}
    Polls = {p}
    PageSize = 2
    Cursors = {"start", "next"}
    MaxEvents = 3
    MaxLoads = 1
    MaxLost = 1
    Edits = {e}
    Reviews = {v1, v2}
    Repository = {TRUE, FALSE}
    MaxFailures = 1
SPECIFICATION OutputSpec
INVARIANTS
    OutputTypeOK
    OnlyTheLimitLosesOutput
    SuccessIsEarned
    ViewIsGapless
    AnswersAccountForAll
    
    RuleOrderIsIrrelevant
    RecordsAgree
    LedgerIsTheSchema
    ReportsHold
PROPERTIES
    ProcessReaderEnds
    EventsArrive
CHECK_DEADLOCK FALSE
