\* Two events, requests of any kind or faults, on a new base or on one with a file; one takeover.
SPECIFICATION FairSpec
CONSTANTS
    q0 = q0  q1 = q1  q2 = q2
    Requests = {q1, q2}
    Founder = q0
    None = None
    MaxEvents = 2
    MaxTakeovers = 1
    MaxAttempts = 2
ACTION_CONSTRAINT MCFirstIsQ1
INVARIANTS DatasetsManaged FilesManaged CompletedIsParsed HealBudget
PROPERTIES EveryFileSettles
CHECK_DEADLOCK FALSE
