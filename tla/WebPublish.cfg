\* Any two requests and two faults, with two workers.
SPECIFICATION FairSpec
CONSTANTS
    Workers = {w1, w2}
    Domains = {d1, d2}
    Home = d1
    None = None
    MaxJobs = 2
    MaxAttempts = 2
    MaxOps = 2
    MaxFaults = 2
    Sites = {s1, s2}
    MaxSites = 1
INVARIANTS SiteOvershootBounded ActiveHasContent SiteIsReachable
PROPERTIES EndedSiteGoesDark CertificateArrives
CHECK_DEADLOCK FALSE
