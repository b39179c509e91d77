\* One app, two workers, a change of the model and a prompt: every interleaving with
\* one failed step, crash, lost stamp or race.
SPECIFICATION Spec
CONSTANTS
    a1 = a1  a2 = a2  w1 = w1  w2 = w2
    Apps = {a1}
    Workers = {w1, w2}
    None = None
    AppOrder <- MCOneApp
    MaxAttempts = 2
    MaxRevision = 2
    MaxVersion = 1
    MaxJobs = 3
    MaxFaults = 1
SYMMETRY MCWorkerSymmetry
INVARIANTS AppliedNotAhead SuccessIsComplete MarkerOwned
INVARIANTS GateShutUnlessRaced
CHECK_DEADLOCK FALSE
