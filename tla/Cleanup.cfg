SPECIFICATION CleanupSpec
CONSTANTS
    MaxAttempts = 2
    MaxErrors = 1
    MaxCrashes = 1
INVARIANT CompletedMeansGone
PROPERTIES
    KeepsWhatCounts
    Settles
    Forgotten
CHECK_DEADLOCK FALSE
