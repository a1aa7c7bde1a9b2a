\* Two commands: copies of one, start and resume of a run, starts of two runs.
SPECIFICATION FairSpec
CONSTANTS
    Runs = {"r1", "r2"}
    MaxAttempts = 1
    MaxDeltas = 1
    MaxEvents = 5
    LostReplies = TRUE
    Thread <- OneThread
    MaxConcurrentRuns = 2
    MaxMessages = 2
    MaxErrors = 1
    MaxCrashes = 1
CONSTRAINT Scenarios
INVARIANT WorkerInv
PROPERTIES
    AtMostOnce
    ImplementsService
    Handled
    Answered
CHECK_DEADLOCK FALSE
