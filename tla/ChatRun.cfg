\* Two dispatchers, or two processes that project the same run.
SPECIFICATION HistorySpec
CONSTANTS
    r1 = r1
    a1 = a1
    a2 = a2
    d1 = d1
    d2 = d2
    Runs = {r1}
    Apis = {a1, a2}
    Dispatchers = {d1, d2}
    Home <- OneProcess
    LeaseTicks = 0
    MaxAttempts = 3
    MaxDeltas = 2
    MaxEvents = 3
    LostReplies = TRUE
    MaxClock = 3
    MaxCrashes = 0
CONSTRAINT Scenarios
SYMMETRY EitherCall
INVARIANTS
    RowInv
    LogInv
    CommandInv
    OrderUnlessDoubled
PROPERTY TerminalFinal
CHECK_DEADLOCK FALSE
