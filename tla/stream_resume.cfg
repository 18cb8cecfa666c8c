CONSTANTS
    Writers = {d}
    Polls = {p}
    PageSize = 2
    Cursors = {"next"}
    MaxEvents = 2
    MaxLoads = 1
    MaxLost = 0
SPECIFICATION StreamSpec
INVARIANT ResumeLosesNothing
CHECK_DEADLOCK FALSE
