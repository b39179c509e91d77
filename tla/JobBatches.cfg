\* Two jobs, one of a type nobody handles, in batches a crash can abandon; without
\* takeovers the rows follow the state machine.
SPECIFICATION FairSpec
CONSTANTS
    j1 = j1  j2 = j2  w1 = w1  w2 = w2
    Job = {j1, j2}
    Worker = {w1}
    Caretaker = {}
    InitJob = {}
    Unregistered = {j2}
    Rank <- MCRank
    MaxAttempts = 1
    WorkerBatch = 2
    SchedBatch = 2
    MaxDeferrals = 0
    MaxTakeovers = 0
    MaxFaults = 1
    NoJob = NoJob
PROPERTIES ImplementsStateMachine EveryJobSettles
CHECK_DEADLOCK FALSE
