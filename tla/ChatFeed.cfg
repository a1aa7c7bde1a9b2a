\* A reply of up to three deltas, two reloads, two failures.
SPECIFICATION Spec
CONSTANTS
    MaxDeltas = 3
    MaxReloads = 2
    MaxFailures = 2
INVARIANT ShowsServer
PROPERTY CatchesUp
CHECK_DEADLOCK FALSE
