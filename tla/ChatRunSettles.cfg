\* A crash, lost replies and expiring leases: what recovery keeps, and that a
\* run settles.
SPECIFICATION FairSpec
CONSTANTS
    r1 = r1
    a1 = a1
    a2 = a2
    d1 = d1
    d2 = d2
    Runs = {r1}
    Apis = {a1}
    Dispatchers = {d1}
    Home <- OneDispatcher
    LeaseTicks = 0
    MaxAttempts = 2
    MaxDeltas = 1
    MaxEvents = 2
    LostReplies = TRUE
    MaxClock = 4
    MaxCrashes = 1
ACTION_CONSTRAINTS
    SelectsIdle
    CancelsOrAnswers
INVARIANTS
    RecoveryInv
    SourceOrder
PROPERTY RunsSettle
CHECK_DEADLOCK FALSE
