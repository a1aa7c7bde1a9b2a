CONSTANTS
  Processes = {1, 2, 3}
  MaxAttempts = 2
  MaxCalls = 4
SPECIFICATION SupervisorSpec
INVARIANT StatusTrue
PROPERTY Settles
CHECK_DEADLOCK FALSE
