\* Two pages that edit one document, or one page and its history.
SPECIFICATION Spec
CONSTANTS
    Pages = {"p1", "p2"}
    MaxEdits = 3
    MaxRestores = 2
    MaxSnapshots = 1
    MaxGiveUps = 1
    MaxRejects = 1
CONSTRAINT Scenarios
INVARIANT RecordsTrue
PROPERTIES
    NoEditLost
    Settles
CHECK_DEADLOCK FALSE
