\* One worker, two prompts and two revisions, and attempts enough for both.
SPECIFICATION FairSpec
CONSTANTS
    a1 = a1  a2 = a2  w1 = w1  w2 = w2
    Apps = {a1}
    Workers = {w1}
    None = None
    AppOrder <- MCOneApp
    MaxAttempts = 3
    MaxRevision = 2
    MaxVersion = 2
    MaxJobs = 3
    MaxFaults = 0
PROPERTY EveryAppCatchesUp
CHECK_DEADLOCK FALSE
