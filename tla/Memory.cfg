\* Two replies, one slot and memories without a slot, up to two operations each and three altogether.
SPECIFICATION Spec
CONSTANTS
    Generations = {g1, g2}
    Slots = {s}
    NoSlot = NoSlot
    Values = {v1, v2}
    MaxOperations = 2
CONSTRAINT Few
SYMMETRY Symmetry
INVARIANT RollbackCommits
PROPERTY FailureRestores
CHECK_DEADLOCK FALSE
