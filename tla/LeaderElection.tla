--------------------------- MODULE LeaderElection ---------------------------
(***************************************************************************)
(* The election of the replica that runs the periodic reconcilers: the     *)
(* Redis lock of redis.DistLocker (SET NX PX, and scripts that refresh and *)
(* delete it only for the token that holds it), the loop of                *)
(* service.LeaderElector in every replica, and the onlyLeader gate that    *)
(* cmd/server puts before every tick of a PeriodicReconciler.              *)
(*                                                                         *)
(* Time is discrete and counted relatively, so that it needs no bound: ttl *)
(* is what is left of the lock, elapsed[r] the time since the tick r last  *)
(* handled was scheduled, ran[r] how old what its running reconciler knew  *)
(* of the lock is: elapsed[r] when it began, and the time it has run.      *)
(* A pause of the process and a slow Redis call are the same here: the     *)
(* next tick ends at most MaxDelay after it was scheduled.  The ticks of a *)
(* time.Ticker missed meanwhile are handled one after the other.           *)
(***************************************************************************)
EXTENDS Naturals

CONSTANTS
    Replica,    \* manager replicas
    Lease,      \* TTL of the lock: LeaderElector.lease
    Interval,   \* period of the election ticks: LeaderElector.interval
    MaxDelay,   \* the latest a tick can end after it was scheduled
    MaxRun,     \* the longest a reconciler tick takes
    MaxFaults,  \* bound on failed Redis calls and crashes
    MaxStops,   \* bound on graceful shutdowns
    NoOwner,    \* the lock does not exist
    Stray       \* a token of a process that is gone

ASSUME ConstantsAssumption ==
    /\ Interval \in Nat \ {0} /\ Lease \in Nat \ {0}
    /\ Interval < Lease         \* NewLeaderElector falls back to lease/3
    /\ MaxDelay \in Nat /\ MaxRun \in Nat
    /\ MaxFaults \in Nat /\ MaxStops \in Nat
    /\ NoOwner \notin Replica /\ Stray \notin Replica /\ NoOwner # Stray

VARIABLES
    owner, ttl,     \* the lock in Redis: who holds it, and for how long
    up,             \* replicas whose election loop runs
    isLeader,       \* LeaderElector.isLeader
    elapsed,        \* time since the last handled tick was scheduled
    call,           \* the Redis call of the tick in progress
    running, ran,   \* a reconciler tick in progress, and the age of its reason
    faults, stops   \* what the bounds count

lock    == <<owner, ttl>>
elector == <<up, isLeader, elapsed, call>>
gated   == <<running, ran>>
vars    == <<lock, elector, gated, faults, stops>>

\* A call is sent, executed by Redis, and only then answered.
Sent     == {"refresh", "acquire"}
Answered == {"renewed", "won", "lost", "refused"}
Call     == {"none"} \cup Sent \cup Answered

Init ==
    /\ owner = NoOwner /\ ttl = 0
    /\ up = Replica
    /\ isLeader = [r \in Replica |-> FALSE]
    /\ elapsed = [r \in Replica |-> 0]
    /\ call = [r \in Replica |-> "none"]
    /\ running = [r \in Replica |-> FALSE]
    /\ ran = [r \in Replica |-> 0]
    /\ faults = 0 /\ stops = 0

Fault == faults < MaxFaults /\ faults' = faults + 1

-----------------------------------------------------------------------------
(* Plausible mistakes in the operators below.                               *)

\* Release deletes whatever lock is there.
ReleaseUnchecked(r) ==
    /\ owner' = NoOwner
    /\ ttl' = 0

\* The lock is taken without NX.
TryAcquireOverwrites(r) ==
    /\ call[r] = "acquire"
    /\ owner' = r /\ ttl' = Lease
    /\ call' = [call EXCEPT ![r] = "won"]
    /\ UNCHANGED <<up, isLeader, elapsed, gated, faults, stops>>

\* The TTL is set by a separate EXPIRE, after a refused SET NX too.
TryAcquireExtends(r) ==
    /\ call[r] = "acquire"
    /\ owner' = IF owner = NoOwner THEN r ELSE owner
    /\ ttl' = Lease
    /\ call' = [call EXCEPT ![r] = IF owner = NoOwner THEN "won" ELSE "refused"]
    /\ UNCHANGED <<up, isLeader, elapsed, gated, faults, stops>>

\* The reconcilers are not gated.
ReconcileUngated(r) ==
    /\ r \in up /\ ~running[r]
    /\ running' = [running EXCEPT ![r] = TRUE]
    /\ ran' = [ran EXCEPT ![r] = elapsed[r]]
    /\ UNCHANGED <<lock, elector, faults, stops>>

-----------------------------------------------------------------------------
(* One tick of LeaderElector.Run: a leader refreshes, the others acquire.   *)

TickStarts(r) ==
    /\ r \in up /\ call[r] = "none"
    /\ elapsed[r] >= Interval
    /\ call' = [call EXCEPT ![r] = IF isLeader[r] THEN "refresh" ELSE "acquire"]
    /\ UNCHANGED <<lock, up, isLeader, elapsed, gated, faults, stops>>

\* The script of Refresh: extend the lock if the token still holds it.
Refresh(r) ==
    /\ call[r] = "refresh"
    /\ ttl' = IF owner = r THEN Lease ELSE ttl
    /\ call' = [call EXCEPT ![r] = IF owner = r THEN "renewed" ELSE "lost"]
    /\ UNCHANGED <<owner, up, isLeader, elapsed, gated, faults, stops>>

\* SET key token NX PX: also refused to the token that holds the lock.
TryAcquire(r) ==
    /\ call[r] = "acquire"
    /\ \/ /\ owner = NoOwner
          /\ owner' = r /\ ttl' = Lease
          /\ call' = [call EXCEPT ![r] = "won"]
       \/ /\ owner # NoOwner
          /\ call' = [call EXCEPT ![r] = "refused"]
          /\ UNCHANGED lock
    /\ UNCHANGED <<up, isLeader, elapsed, gated, faults, stops>>

\* The tick of r ends and the loop waits for the next one.
TickEnds(r, leads) ==
    /\ isLeader' = [isLeader EXCEPT ![r] = leads]
    /\ elapsed' = [elapsed EXCEPT ![r] = @ - Interval]
    /\ call' = [call EXCEPT ![r] = "none"]

Return(r) ==
    /\ call[r] \in Answered
    /\ TickEnds(r, call[r] \in {"renewed", "won"})
    /\ UNCHANGED <<lock, up, gated, faults, stops>>

\* The call returns an error, whether Redis executed it or not.
CallFails(r) ==
    /\ Fault
    /\ call[r] # "none"
    /\ TickEnds(r, FALSE)
    /\ UNCHANGED <<lock, up, gated, stops>>

-----------------------------------------------------------------------------
(* The gate: IsLeader is read once, when a reconciler tick begins.          *)

ReconcileStarts(r) ==
    /\ r \in up /\ isLeader[r] /\ ~running[r]
    /\ running' = [running EXCEPT ![r] = TRUE]
    /\ ran' = [ran EXCEPT ![r] = elapsed[r]]
    /\ UNCHANGED <<lock, elector, faults, stops>>

ReconcileEnds(r) ==
    /\ running[r]
    /\ running' = [running EXCEPT ![r] = FALSE]
    /\ ran' = [ran EXCEPT ![r] = 0]
    /\ UNCHANGED <<lock, elector, faults, stops>>

-----------------------------------------------------------------------------
(* Processes come and go.  A new process has a new token, so that what an   *)
(* old one left in Redis belongs to nobody until it expires.                *)

Leaves(r) ==
    /\ up' = up \ {r}
    /\ isLeader' = [isLeader EXCEPT ![r] = FALSE]
    /\ call' = [call EXCEPT ![r] = "none"]
    /\ elapsed' = [elapsed EXCEPT ![r] = 0]

Disown(r) ==
    /\ owner' = IF owner = r THEN Stray ELSE owner
    /\ UNCHANGED ttl

\* The script of Release: delete the lock if the token still holds it.
Release(r) ==
    /\ owner' = IF owner = r THEN NoOwner ELSE owner
    /\ ttl' = IF owner = r THEN 0 ELSE ttl

\* ctx is cancelled: the loop returns and a leader releases the lock.  A
\* tick in progress fails first, and then there is no leader to release.
\* The reconciler of the same process may still be running.
Shutdown(r) ==
    /\ stops < MaxStops /\ stops' = stops + 1
    /\ r \in up
    /\ IF isLeader[r] /\ call[r] = "none" THEN Release(r) ELSE Disown(r)
    /\ Leaves(r)
    /\ UNCHANGED <<gated, faults>>

Crash(r) ==
    /\ Fault
    /\ r \in up
    /\ Disown(r)
    /\ Leaves(r)
    /\ running' = [running EXCEPT ![r] = FALSE]
    /\ ran' = [ran EXCEPT ![r] = 0]
    /\ UNCHANGED stops

Start(r) ==
    /\ r \notin up /\ ~running[r]
    /\ up' = up \cup {r}
    /\ UNCHANGED <<lock, isLeader, elapsed, call, gated, faults, stops>>

-----------------------------------------------------------------------------
\* Time passes unless a tick or a reconciler has reached its bound.
Pass ==
    /\ \A r \in up : elapsed[r] < Interval + MaxDelay
    /\ \A r \in Replica : running[r] => ran[r] < Interval + MaxDelay + MaxRun
    /\ ttl' = IF ttl = 0 THEN 0 ELSE ttl - 1
    /\ owner' = IF ttl <= 1 THEN NoOwner ELSE owner
    /\ elapsed' = [r \in Replica |-> IF r \in up THEN elapsed[r] + 1 ELSE 0]
    /\ ran' = [r \in Replica |-> IF running[r] THEN ran[r] + 1 ELSE 0]
    /\ UNCHANGED <<up, isLeader, call, running, faults, stops>>

ReplicaStep(r) ==
    \/ TickStarts(r) \/ Refresh(r) \/ TryAcquire(r) \/ Return(r)
    \/ ReconcileStarts(r) \/ ReconcileEnds(r)
    \/ Start(r)

ReplicaFault(r) == CallFails(r) \/ Shutdown(r) \/ Crash(r)

Next ==
    \/ \E r \in Replica : ReplicaStep(r) \/ ReplicaFault(r)
    \/ Pass

Spec == Init /\ [][Next]_vars

\* Time passes, a scheduled goroutine runs, Redis answers, a stopped replica
\* is started again by the Deployment.
Fairness ==
    /\ WF_vars(Pass)
    /\ \A r \in Replica :
        /\ WF_vars(TickStarts(r)) /\ WF_vars(Refresh(r))
        /\ WF_vars(TryAcquire(r)) /\ WF_vars(Return(r))
        /\ WF_vars(ReconcileEnds(r)) /\ WF_vars(Start(r))

FairSpec == Spec /\ Fairness
-----------------------------------------------------------------------------
\* Types; the counters stay within the bounds that time imposes on them.
TypeOK ==
    /\ owner \in Replica \cup {NoOwner, Stray}
    /\ ttl \in 0..Lease
    /\ up \in SUBSET Replica
    /\ isLeader \in [Replica -> BOOLEAN]
    /\ elapsed \in [Replica -> 0..(Interval + MaxDelay)]
    /\ call \in [Replica -> Call]
    /\ running \in [Replica -> BOOLEAN]
    /\ ran \in [Replica -> 0..(Interval + MaxDelay + MaxRun)]
    /\ faults \in 0..MaxFaults
    /\ stops \in 0..MaxStops

\* A lock that exists expires; a tick in progress was due, in a replica that is
\* up; only a leader refreshes.
InTick ==
    /\ owner # NoOwner => ttl > 0
    /\ \A r \in Replica :
        /\ call[r] # "none" => r \in up /\ elapsed[r] >= Interval
        /\ isLeader[r] => r \in up
        /\ call[r] \in {"refresh", "renewed", "lost"} => isLeader[r]

\* What a leader, or a replica about to be one, knows of the lock: it was set
\* to Lease no earlier than the tick that did so was scheduled.  The knowledge
\* is good for the length of a lease.
LeaderHolds ==
    \A r \in Replica :
        /\ isLeader[r] /\ elapsed[r] < Lease =>
               owner = r /\ ttl + elapsed[r] >= Lease
        /\ call[r] \in {"renewed", "won"} /\ elapsed[r] < Lease + Interval =>
               owner = r /\ ttl + elapsed[r] >= Lease + Interval

\* The reconciler of a replica that is up relies on what its leader knew.
RunnerHolds ==
    \A r \in up :
        running[r] /\ ran[r] < Lease => owner = r /\ ttl + ran[r] >= Lease

\* "Elect a single leader replica" (leader_elector.go:23): two replicas report
\* IsLeader at once only while a tick of one of them is late by a whole lease,
\* although each replica only knows what Redis told it at its last tick.
AtMostOneLeader ==
    \A r, s \in Replica :
        isLeader[r] /\ isLeader[s] /\ r # s => elapsed[r] >= Lease \/ elapsed[s] >= Lease

\* "A replica that is not the leader runs no scheduled task" (the same
\* comment): two replicas that are up run gated reconcilers at the same time
\* only if one of them relies on a tick more than a lease old.  A replica that
\* shuts down gives the lock up first and may still be running one.
OneReconciler ==
    \A r, s \in up :
        running[r] /\ running[s] /\ r # s => ran[r] >= Lease \/ ran[s] >= Lease

\* Refresh and Release act on the caller's own lock only: while r holds the
\* lock it changes by the passing of time, by r's own refresh, or because r
\* leaves; a leader that has lost the lock and does not know it yet cannot
\* extend or delete its successor's.
SuccessorKeepsLock ==
    [][\A r \in Replica :
        owner = r /\ lock' # lock =>
            \/ ttl' = ttl - 1 /\ (owner' = r \/ ttl' = 0)
            \/ owner' = r /\ call'[r] = "renewed"
            \/ r \notin up']_vars

\* Whatever crashes, restarts, shutdowns and failed calls occur, there is a
\* leader again and again: a lock left behind expires.
SomeLeaderAgain == []<>(\E r \in Replica : isLeader[r])
=============================================================================
