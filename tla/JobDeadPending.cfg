\* Two workers and no failure at all leave a pending row without attempts.
SPECIFICATION Spec
CONSTANTS
    j1 = j1  j2 = j2  w1 = w1  w2 = w2
    Job = {j1}
    Worker = {w1, w2}
    Caretaker = {}
    InitJob = {}
    Unregistered = {}
    Rank <- MCRank
    MaxAttempts = 2
    WorkerBatch = 1
    SchedBatch = 1
    MaxDeferrals = 1
    MaxTakeovers = 0
    MaxFaults = 0
    NoJob = NoJob
INVARIANT NoDeadPending
CHECK_DEADLOCK FALSE
