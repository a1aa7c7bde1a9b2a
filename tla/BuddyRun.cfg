\* Two requests, a request and its retry, or a request and its sequel.
SPECIFICATION FairSpec
CONSTANTS
    Calls = {"one", "two", "new", "retry", "next"}
    Requests = {"p", "q", "s"}
    RequestOf <- MCRequestOf
    TargetOf <- MCTargetOf
    Conversations = {"k1", "k2", "k3"}
    Existing = {"k1"}
    New = "a new one"
    None = "none"
    MaxFaults = 2
    MaxStops = 1
CONSTRAINT Scenarios
INVARIANTS
    OneTurn
    PromisesKept
    NothingLeftWaiting
PROPERTIES
    OutcomeFinal
    CancelTakesEffect
CHECK_DEADLOCK FALSE
