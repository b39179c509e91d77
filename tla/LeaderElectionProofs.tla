------------------------ MODULE LeaderElectionProofs ------------------------
(***************************************************************************)
(* Proofs about the leader election, for any number of replicas and any    *)
(* times.  What a replica believes is tied to the lock by LeaderHolds: the *)
(* time left on the lock plus the time since the tick that set it is at    *)
(* least the lease, until a lease has passed since that tick.              *)
(***************************************************************************)
EXTENDS LeaderElection, TLAPS

IInv == TypeOK /\ InTick

USE ConstantsAssumption DEF lock, elector, gated, vars

LEMMA InitIInv == Init => IInv
BY DEF Init, IInv, TypeOK, InTick, Call, Sent, Answered

\* Every step keeps the types, and a tick in progress stays one that was due.
LEMMA StepIInv == IInv /\ [Next]_vars => IInv'
<1> SUFFICES ASSUME IInv, [Next]_vars
             PROVE  IInv'
    OBVIOUS
<1> USE DEF IInv, TypeOK, InTick, Call, Sent, Answered
<1>1. ASSUME NEW r \in Replica, ReplicaStep(r)
      PROVE  IInv'
  <2>1. CASE TickStarts(r)
        BY <2>1 DEF TickStarts
  <2>2. CASE Refresh(r)
        BY <2>2 DEF Refresh
  <2>3. CASE TryAcquire(r)
        BY <2>3 DEF TryAcquire
  <2>4. CASE Return(r)
        BY <2>4 DEF Return, TickEnds
  <2>5. CASE ReconcileStarts(r)
        BY <2>5 DEF ReconcileStarts
  <2>6. CASE ReconcileEnds(r)
        BY <2>6 DEF ReconcileEnds
  <2>7. CASE Start(r)
        BY <2>7 DEF Start
  <2> QED BY <1>1, <2>1, <2>2, <2>3, <2>4, <2>5, <2>6, <2>7 DEF ReplicaStep
<1>2. ASSUME NEW r \in Replica, ReplicaFault(r)
      PROVE  IInv'
  <2>1. CASE CallFails(r)
        BY <2>1 DEF CallFails, Fault, TickEnds
  <2>2. CASE Shutdown(r)
        BY <2>2 DEF Shutdown, Release, Disown, Leaves
  <2>3. CASE Crash(r)
        BY <2>3 DEF Crash, Fault, Disown, Leaves
  <2> QED BY <1>2, <2>1, <2>2, <2>3 DEF ReplicaFault
<1>3. CASE Pass
      BY <1>3 DEF Pass
<1>4. CASE UNCHANGED vars
      BY <1>4
<1> QED BY <1>1, <1>2, <1>3, <1>4 DEF Next

\* The variables of the election keep their types (TypeOK), for any times.
THEOREM TypeCorrect == Spec => []TypeOK
<1>1. IInv => TypeOK
      BY DEF IInv
<1> QED BY <1>1, InitIInv, StepIInv, PTL DEF Spec

\* Every step keeps LeaderHolds: until a lease has passed since the tick, the
\* lock that it set or renewed is still there.
LEMMA StepLeaderHolds ==
    ASSUME IInv, LeaderHolds, [Next]_vars
    PROVE  LeaderHolds'
<1> USE DEF LeaderHolds
<1>1. ASSUME NEW r \in Replica, ReplicaStep(r)
      PROVE  LeaderHolds'
  <2>1. CASE TickStarts(r)
        BY <2>1 DEF TickStarts
  <2>2. CASE Refresh(r)
        BY <2>2 DEF Refresh, IInv, TypeOK, InTick
  <2>3. CASE TryAcquire(r)
        BY <2>3 DEF TryAcquire, IInv, TypeOK, InTick
  <2>4. CASE Return(r)
    <3> SUFFICES ASSUME NEW s \in Replica
                 PROVE  /\ isLeader'[s] /\ elapsed'[s] < Lease =>
                               owner' = s /\ ttl' + elapsed'[s] >= Lease
                        /\ call'[s] \in {"renewed", "won"} /\ elapsed'[s] < Lease + Interval =>
                               owner' = s /\ ttl' + elapsed'[s] >= Lease + Interval
        OBVIOUS
    <3>1. /\ ttl \in Nat /\ ttl' = ttl /\ owner' = owner
          /\ elapsed[r] \in Nat /\ elapsed'[r] = elapsed[r] - Interval
          /\ call'[r] = "none"
          BY <2>4 DEF Return, TickEnds, IInv, TypeOK
    <3>2. isLeader'[r] => call[r] \in {"renewed", "won"}
          BY <2>4, Zenon DEF Return, TickEnds, IInv, TypeOK
    <3>3. s # r => elapsed'[s] = elapsed[s] /\ call'[s] = call[s]
          BY <2>4 DEF Return, TickEnds, IInv, TypeOK
    <3>4. s # r => isLeader'[s] = isLeader[s]
          BY <2>4, Zenon DEF Return, TickEnds, IInv, TypeOK
    <3>5. CASE s = r
          BY <3>2, <3>1, <3>5
    <3>6. CASE s # r
          BY <3>1, <3>3, <3>6, <3>4
    <3> QED BY <3>5, <3>6
  <2>5. CASE ReconcileStarts(r)
        BY <2>5 DEF ReconcileStarts
  <2>6. CASE ReconcileEnds(r)
        BY <2>6 DEF ReconcileEnds
  <2>7. CASE Start(r)
        BY <2>7 DEF Start
  <2> QED BY <1>1, <2>1, <2>2, <2>3, <2>4, <2>5, <2>6, <2>7 DEF ReplicaStep
<1>2. ASSUME NEW r \in Replica, ReplicaFault(r)
      PROVE  LeaderHolds'
  <2>1. CASE CallFails(r)
        BY <2>1 DEF CallFails, TickEnds, IInv, TypeOK
  <2>2. CASE Shutdown(r)
        BY <2>2 DEF Shutdown, Release, Disown, Leaves, IInv, TypeOK
  <2>3. CASE Crash(r)
        BY <2>3 DEF Crash, Disown, Leaves, IInv, TypeOK
  <2> QED BY <1>2, <2>1, <2>2, <2>3 DEF ReplicaFault
<1>3. CASE Pass
  <2> SUFFICES ASSUME NEW r \in Replica
               PROVE  /\ isLeader'[r] /\ elapsed'[r] < Lease =>
                             owner' = r /\ ttl' + elapsed'[r] >= Lease
                      /\ call'[r] \in {"renewed", "won"} /\ elapsed'[r] < Lease + Interval =>
                             owner' = r /\ ttl' + elapsed'[r] >= Lease + Interval
      OBVIOUS
  <2>1. /\ ttl \in 0..Lease /\ elapsed[r] \in Nat
        /\ r \in up => elapsed'[r] = elapsed[r] + 1
        /\ ttl > 1 => ttl' = ttl - 1 /\ owner' = owner
        /\ isLeader'[r] = isLeader[r] /\ call'[r] = call[r]
        BY <1>3 DEF Pass, IInv, TypeOK
  <2>2. /\ isLeader[r] => r \in up
        /\ call[r] \in {"renewed", "won"} => r \in up
        BY DEF IInv, InTick
  <2> QED BY <2>1, <2>2
<1>4. CASE UNCHANGED vars
      BY <1>4
<1> QED BY <1>1, <1>2, <1>3, <1>4 DEF Next

\* Two leaders at once mean that a tick of one of them is late by a lease
\* (AtMostOneLeader): a leader whose tick is not still holds the lock.
THEOREM OneLeader == Spec => []AtMostOneLeader
<1> DEFINE Inv == IInv /\ LeaderHolds
<1>1. Init => Inv
      BY InitIInv DEF Init, LeaderHolds
<1>2. Inv /\ [Next]_vars => Inv'
      BY StepIInv, StepLeaderHolds
<1>3. Inv => AtMostOneLeader
  <2> SUFFICES ASSUME Inv, NEW r \in Replica, NEW s \in Replica,
                      isLeader[r], isLeader[s], elapsed[r] < Lease, elapsed[s] < Lease
               PROVE  r = s
      BY DEF AtMostOneLeader, IInv, TypeOK
  <2> QED BY DEF LeaderHolds
<1> QED BY <1>1, <1>2, <1>3, PTL DEF Spec

\* If ticks end less than Lease - Interval after they were scheduled, there is
\* one leader at most.
THEOREM OneLeaderInTime ==
    ASSUME Interval + MaxDelay < Lease
    PROVE  Spec => [](\A r, s \in Replica : isLeader[r] /\ isLeader[s] => r = s)
<1> DEFINE One == \A r, s \in Replica : isLeader[r] /\ isLeader[s] => r = s
<1>1. ASSUME IInv, AtMostOneLeader
      PROVE  One
  <2>1. ASSUME NEW r \in Replica
        PROVE  ~(elapsed[r] >= Lease)
    <3>1. elapsed[r] \in 0..(Interval + MaxDelay)
          BY <1>1 DEF IInv, TypeOK
    <3> QED BY <3>1
  <2> QED BY <1>1, <2>1 DEF AtMostOneLeader
<1>2. IInv /\ AtMostOneLeader => One
      BY <1>1
<1>3. Spec => []IInv
      BY InitIInv, StepIInv, PTL DEF Spec
<1>4. []IInv /\ []AtMostOneLeader => []One
      BY <1>2, PTL
<1> QED BY <1>3, <1>4, OneLeader, PTL

\* What a reconciler relies on outlives every step but the release of the lock
\* by its own replica, which is then no longer up.
LEMMA StepRunnerHolds ==
    ASSUME IInv, LeaderHolds, RunnerHolds, [Next]_vars
    PROVE  RunnerHolds'
<1> USE DEF RunnerHolds
<1>1. ASSUME NEW r \in Replica, ReplicaStep(r)
      PROVE  RunnerHolds'
  <2>1. CASE TickStarts(r)
        BY <2>1 DEF TickStarts
  <2>2. CASE Refresh(r)
        BY <2>2 DEF Refresh, IInv, TypeOK
  <2>3. CASE TryAcquire(r)
        BY <2>3 DEF TryAcquire, IInv, TypeOK, InTick
  <2>4. CASE Return(r)
        BY <2>4 DEF Return
  <2>5. CASE ReconcileStarts(r)
        BY <2>5 DEF ReconcileStarts, LeaderHolds, IInv, TypeOK
  <2>6. CASE ReconcileEnds(r)
        BY <2>6 DEF ReconcileEnds, IInv, TypeOK
  <2>7. CASE Start(r)
        BY <2>7 DEF Start
  <2> QED BY <1>1, <2>1, <2>2, <2>3, <2>4, <2>5, <2>6, <2>7 DEF ReplicaStep
<1>2. ASSUME NEW r \in Replica, ReplicaFault(r)
      PROVE  RunnerHolds'
  <2>1. CASE CallFails(r)
        BY <2>1 DEF CallFails
  <2>2. CASE Shutdown(r)
        BY <2>2 DEF Shutdown, Release, Disown, Leaves, IInv, TypeOK
  <2>3. CASE Crash(r)
        BY <2>3 DEF Crash, Disown, Leaves, IInv, TypeOK
  <2> QED BY <1>2, <2>1, <2>2, <2>3 DEF ReplicaFault
<1>3. CASE Pass
  <2> SUFFICES ASSUME NEW r \in up', running'[r], ran'[r] < Lease
               PROVE  owner' = r /\ ttl' + ran'[r] >= Lease
      OBVIOUS
  <2>1. /\ ttl \in 0..Lease /\ r \in up /\ r \in Replica /\ ran[r] \in Nat
        /\ running[r] /\ ran'[r] = ran[r] + 1
        /\ ttl > 1 => ttl' = ttl - 1 /\ owner' = owner
        BY <1>3 DEF Pass, IInv, TypeOK
  <2> QED BY <2>1
<1>4. CASE UNCHANGED vars
      BY <1>4
<1> QED BY <1>1, <1>2, <1>3, <1>4 DEF Next

\* Two replicas that are up reconcile at once only if what one of them relies
\* on is more than a lease old (OneReconciler), whatever is late or fails.
THEOREM ReconcilersExclude == Spec => []OneReconciler
<1> DEFINE Inv == IInv /\ LeaderHolds /\ RunnerHolds
<1>1. Init => Inv
      BY InitIInv DEF Init, LeaderHolds, RunnerHolds
<1>2. Inv /\ [Next]_vars => Inv'
      BY StepIInv, StepLeaderHolds, StepRunnerHolds
<1>3. Inv => OneReconciler
  <2> SUFFICES ASSUME Inv, NEW r \in up, NEW s \in up,
                      running[r], running[s], ran[r] < Lease, ran[s] < Lease
               PROVE  r = s
      BY DEF OneReconciler, IInv, TypeOK
  <2> QED BY DEF RunnerHolds
<1> QED BY <1>1, <1>2, <1>3, PTL DEF Spec

\* The lock changes under its holder only by time, by the holder's own refresh
\* or when the holder leaves (SuccessorKeepsLock), however late the others are.
THEOREM LockIsItsOwners == Spec => SuccessorKeepsLock
<1>1. ASSUME IInv, [Next]_vars, NEW r \in Replica, owner = r, lock' # lock
      PROVE  \/ ttl' = ttl - 1 /\ (owner' = r \/ ttl' = 0)
             \/ owner' = r /\ call'[r] = "renewed"
             \/ r \notin up'
  <2> USE DEF IInv, TypeOK, InTick
  <2>1. ASSUME NEW s \in Replica, ReplicaStep(s)
        PROVE  owner' = r /\ call'[r] = "renewed"
        BY <1>1, <2>1 DEF ReplicaStep, TickStarts, Refresh, TryAcquire, Return,
              ReconcileStarts, ReconcileEnds, Start
  <2>2. ASSUME NEW s \in Replica, ReplicaFault(s)
        PROVE  r \notin up'
    <3>1. ASSUME Release(s) \/ Disown(s) \/ UNCHANGED lock
          PROVE  s = r
          BY <1>1, <3>1 DEF Release, Disown
    <3>2. CallFails(s) => UNCHANGED lock
          BY DEF CallFails
    <3>3. ASSUME Shutdown(s) \/ Crash(s)
          PROVE  (Release(s) \/ Disown(s)) /\ s \notin up'
          BY <3>3 DEF Shutdown, Crash, Leaves
    <3> QED BY <1>1, <2>2, <3>1, <3>2, <3>3 DEF ReplicaFault
  <2>3. CASE Pass
        BY <1>1, <2>3 DEF Pass
  <2>4. CASE UNCHANGED vars
        BY <1>1, <2>4
  <2> QED BY <1>1, <2>1, <2>2, <2>3, <2>4 DEF Next
<1>2. IInv /\ [Next]_vars => [\A r \in Replica :
        owner = r /\ lock' # lock =>
            \/ ttl' = ttl - 1 /\ (owner' = r \/ ttl' = 0)
            \/ owner' = r /\ call'[r] = "renewed"
            \/ r \notin up']_vars
      BY <1>1
<1> QED BY <1>2, InitIInv, StepIInv, PTL DEF Spec, SuccessorKeepsLock
=============================================================================
