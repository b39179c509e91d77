\* Any two requests, one fault and two attempts, with one worker: a handler may still
\* be overtaken by the recovery of its job and by the caretakers.
SPECIFICATION FairSpec
CONSTANTS
    Workers = {w1}
    None = None
    MaxVersion = 1
    Image <- OneImage
    MaxAttempts = 2
    MaxJobs = 2
    MaxOps = 2
    MaxFaults = 1
INVARIANTS ScaleMatchesStatus DeletedIsDown PromotedUnlessCut
PROPERTIES EveryAppSettles ReadyErrorHeals GateReopens
CHECK_DEADLOCK FALSE
