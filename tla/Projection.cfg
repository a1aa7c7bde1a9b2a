\* Streams with tools, actions and cut tags and two crashes; two API processes
\* on plain streams; every cut of every short text.
SPECIFICATION Spec
CONSTANTS
    Lookbehind = 2
    Apis = {"a1", "a2"}
    Streams <- MCStreams
    MaxCrashes = 2
CONSTRAINT Scenarios
INVARIANTS
    PartsMatchLog
    NothingElseLost
PROPERTY PartsKeepIdentity
CHECK_DEADLOCK FALSE
