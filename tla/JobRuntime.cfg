\* One job, two workers, the reaper and the reconciler: every interleaving, retry,
\* deferral, takeover, crash and loss.
SPECIFICATION Spec
CONSTANTS
    j1 = j1  j2 = j2  w1 = w1  w2 = w2
    Job = {j1}
    Worker = {w1, w2}
    Caretaker = {reaper, reconciler}
    InitJob = {j1}
    Unregistered = {}
    Rank <- MCRank
    MaxAttempts = 2
    WorkerBatch = 1
    SchedBatch = 1
    MaxDeferrals = 1
    MaxTakeovers = 2
    MaxFaults = 1
    NoJob = NoJob
SYMMETRY Workers
INVARIANTS AttemptBudget OneOwner
PROPERTIES SucceedsByOwner FailsOnlyExhausted
CHECK_DEADLOCK FALSE
