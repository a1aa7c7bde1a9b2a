\* Requests and jobs one after the other, with PATCH meta, and at once.
SPECIFICATION Spec
CONSTANTS
    MaxDocs = 4
    InitDocs = 2
    Users = {u1, u2}
    Maintainers = {u1}
    Workspaces = {w1, w2}
    Clients = {c1}
    Workers = {k1, k2}
    MaxRequests = 2
    MaxJobs = 1
    MaxRestarts = 1
SYMMETRY Symmetry
CONSTRAINT Scenarios
VIEW Alike
INVARIANTS
    Forest
    JobTruthful
PROPERTY RemovedWhole
CHECK_DEADLOCK FALSE
