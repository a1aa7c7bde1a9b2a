\* Two concurrent requests on a session of up to four messages, and one
\* transaction of the projector at a time.
SPECIFICATION SessionSpec
CONSTANTS
    Requests = {q1, q2}
    MaxMessages = 4
    MaxSwitches = 1
SYMMETRY RequestSymmetry
CONSTRAINT OneOutcome
VIEW Alike
INVARIANTS
    MessageTree
    ContextIsOwnHistory
PROPERTY CompletesWhereSelected
CHECK_DEADLOCK FALSE
