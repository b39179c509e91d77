\* A worker with an old copy of the payload frees the app, and the gate opens.
SPECIFICATION Spec
CONSTANTS
    a1 = a1  a2 = a2  w1 = w1  w2 = w2
    Apps = {a1}
    Workers = {w1, w2}
    None = None
    AppOrder <- MCOneApp
    MaxAttempts = 2
    MaxRevision = 2
    MaxVersion = 1
    MaxJobs = 3
    MaxFaults = 1
SYMMETRY MCWorkerSymmetry
INVARIANT GateShut
CHECK_DEADLOCK FALSE
