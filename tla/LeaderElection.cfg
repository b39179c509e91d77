\* Ticks late enough to outlast the lock, reconcilers, a failure and a shutdown:
\* two leaders only while one is late by a lease, a successor's lock is safe, and
\* some replica leads again.
SPECIFICATION FairSpec
CONSTANTS
    r1 = r1  r2 = r2  r3 = r3
    Replica = {r1, r2}
    Lease = 3
    Interval = 1
    MaxDelay = 2
    MaxRun = 1
    MaxFaults = 2
    MaxStops = 1
    NoOwner = NoOwner
    Stray = Stray
INVARIANTS AtMostOneLeader OneReconciler
PROPERTIES SuccessorKeepsLock SomeLeaderAgain
