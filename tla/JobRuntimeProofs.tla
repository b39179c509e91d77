------------------------- MODULE JobRuntimeProofs -------------------------
(***************************************************************************)
(* Proofs about the job runtime, for any number of jobs, workers and       *)
(* caretakers and any bounds: its type, the inductive invariant IInv, the  *)
(* safety properties that follow from it, and the refinement of the        *)
(* declared job state machine where nobody takes jobs over.                *)
(***************************************************************************)
EXTENDS JobRuntime, TLAPS

\* The worker's variables keep their types when it drops the id in hand.
LEMMA DropType ==
    ASSUME TypeOK, NEW w \in Worker, Drop(w)
    PROVE  /\ phase' \in [Worker -> Phase]
           /\ cur' \in [Worker -> Job \cup {NoJob}]
           /\ \A v \in Worker : phase'[v] = "idle" <=> cur'[v] = NoJob
           /\ seen' \in [Worker -> Nat]
           /\ myToken' \in [Worker -> Nat]
           /\ leaseLost' \in [Worker -> BOOLEAN]
BY DEF TypeOK, Drop, Phase, NoToken

USE DEF table, signal, worker, budget, vars

\* Every step of every goroutine keeps the types.
LEMMA TypeStep == TypeOK /\ [Next]_vars => TypeOK'
<1> SUFFICES ASSUME TypeOK, [Next]_vars
             PROVE  TypeOK'
    OBVIOUS
<1> USE ConstantsAssumption
<1>1. ASSUME NEW w \in Worker, WorkerStep(w)
      PROVE  TypeOK'
  <2>1. CASE Reserve(w)
        BY <2>1 DEF TypeOK, Reserve
  <2>2. ASSUME NEW j \in Job, Fetch(w, j)
        PROVE  TypeOK'
        BY <2>2 DEF TypeOK, Fetch, Phase
  <2>3. CASE Claim(w)
        BY <2>3 DEF TypeOK, Claim, Claimable, Status, Phase
  <2>4. CASE ClaimRefused(w)
        BY <2>4, DropType DEF TypeOK, ClaimRefused
  <2>5. CASE HandlerReturns(w)
        BY <2>5, DropType DEF TypeOK, HandlerReturns, Phase
  <2>6. CASE MarkJobSucceeded(w)
        BY <2>6, DropType DEF TypeOK, MarkJobSucceeded, ClearLease, NoToken, Status
  <2>7. CASE MarkJobFailed(w)
        BY <2>7, DropType DEF TypeOK, MarkJobFailed, ClearLease, NoToken, Status
  <2>8. CASE RetryJob(w)
        BY <2>8, DropType DEF TypeOK, RetryJob, ClearLease, NoToken, Status
  <2>9. CASE DeferJob(w)
        BY <2>9, DropType DEF TypeOK, DeferJob, ClearLease, NoToken, Status
  <2>10. CASE Stale(w)
        BY <2>10, DropType DEF TypeOK, Stale
  <2> QED BY <1>1, <2>1, <2>2, <2>3, <2>4, <2>5, <2>6, <2>7, <2>8, <2>9, <2>10
          DEF WorkerStep
<1>2. ASSUME NEW w \in Worker, Renew(w) \/ WorkerFault(w)
      PROVE  TypeOK'
  <2>1. CASE Renew(w)
        BY <2>1 DEF TypeOK, Renew
  <2>2. CASE RenewFails(w)
        BY <2>2 DEF TypeOK, RenewFails, Fault
  <2>3. CASE StatementFails(w)
        BY <2>3, DropType DEF TypeOK, StatementFails, Fault
  <2>4. CASE Crash(w)
        BY <2>4, DropType DEF TypeOK, Crash, Fault
  <2> QED BY <1>2, <2>1, <2>2, <2>3, <2>4 DEF WorkerFault
<1>3. ASSUME NEW j \in Job, JobStep(j)
      PROVE  TypeOK'
  <2>1. CASE CreateJob(j)
        BY <2>1 DEF TypeOK, CreateJob, Insert, Status
  <2>2. CASE Enqueue(j)
        BY <2>2 DEF TypeOK, Enqueue
  <2>3. CASE EnqueueLost(j)
        BY <2>3 DEF TypeOK, EnqueueLost, Fault
  <2>4. CASE SchedulerEnqueue(j)
        BY <2>4 DEF TypeOK, SchedulerEnqueue
  <2>5. CASE BecomeDue(j)
        BY <2>5 DEF TypeOK, BecomeDue
  <2>6. CASE LeaseExpires(j)
        BY <2>6 DEF TypeOK, LeaseExpires
  <2> QED BY <1>3, <2>1, <2>2, <2>3, <2>4, <2>5, <2>6 DEF JobStep
<1>4. CASE SchedulerScan
      BY <1>4 DEF TypeOK, SchedulerScan, IsFirstReady, Ready
<1>5. CASE SchedulerFails
      BY <1>5 DEF TypeOK, SchedulerFails, Fault
<1>6. CASE SignalsLost
      BY <1>6 DEF TypeOK, SignalsLost, Fault
<1>7. CASE Recover
      BY <1>7 DEF TypeOK, Recover, Status, NoToken
<1>8. ASSUME NEW c \in Caretaker, CaretakerStep(c)
      PROVE  TypeOK'
  <2>1. CASE EnsureRead(c)
        BY <2>1 DEF TypeOK, EnsureRead
  <2>2. CASE EnsureRequeue(c)
        BY <2>2 DEF TypeOK, EnsureRequeue, ClearLease, NoToken, Status
  <2>3. ASSUME NEW j \in Job, EnsureCreate(c, j)
        PROVE  TypeOK'
        BY <2>3 DEF TypeOK, EnsureCreate, Insert, Status
  <2> QED BY <1>8, <2>1, <2>2, <2>3 DEF CaretakerStep
<1>9. CASE UNCHANGED vars
      BY <1>9 DEF TypeOK
<1> QED BY <1>1, <1>2, <1>3, <1>4, <1>5, <1>6, <1>7, <1>8, <1>9 DEF Next

\* Type correctness of the whole runtime.
THEOREM TypeCorrect == Spec => []TypeOK
<1>1. Init => TypeOK
      BY ConstantsAssumption DEF Init, TypeOK, Status, Phase, NoToken
<1> QED BY <1>1, TypeStep, PTL DEF Spec

-----------------------------------------------------------------------------
(* The inductive invariant.  Most steps leave alone everything it speaks    *)
(* of; the steps below are grouped by what they change.                     *)

Invs == AttemptBudget /\ RowsConsistent /\ TokensDistinct /\ ReadsBehind

\* A step that changes neither the rows nor what goroutines hold.
LEMMA FrameStep ==
    ASSUME IInv, TypeOK',
           UNCHANGED <<status, attempts, leaseToken, claims, deferrals,
                       phase, cur, seen, myToken>>
    PROVE  Invs'
BY DEF IInv, Invs, AttemptBudget, RowsConsistent, TokensDistinct, ReadsBehind,
       Unspent, Owns, HoldsLease

\* A goroutine that drops its id while no row changes.
LEMMA DropStep ==
    ASSUME IInv, TypeOK', NEW w \in Worker, Drop(w),
           UNCHANGED <<status, attempts, leaseToken, claims, deferrals>>
    PROVE  Invs'
BY DEF IInv, TypeOK, Invs, AttemptBudget, RowsConsistent, TokensDistinct, ReadsBehind,
       Unspent, Owns, HoldsLease, Drop, Claimed

\* A result write: the owner's row leaves running, the goroutine drops it.
LEMMA WriteStep ==
    ASSUME IInv, TypeOK', NEW w \in Worker, Drop(w),
           phase[w] \in Claimed, cur[w] \in Job, HoldsLease(w, cur[w]),
           NEW s \in {"succeeded", "failed", "pending"},
           status' = [status EXCEPT ![cur[w]] = s],
           ClearLease(cur[w]),
           UNCHANGED <<attempts, claims, deferrals>>
    PROVE  Invs'
<1> USE DEF IInv, TypeOK
<1>1. AttemptBudget'
      BY DEF AttemptBudget
<1>2. RowsConsistent'
      BY DEF RowsConsistent, ClearLease, HoldsLease, NoToken
<1>3. TokensDistinct'
      BY DEF TokensDistinct, Drop, Claimed
<1>4. ReadsBehind'
      BY DEF ReadsBehind, RowsConsistent, Unspent, Owns, HoldsLease, ClearLease, Drop, Claimed
<1> QED BY <1>1, <1>2, <1>3, <1>4 DEF Invs

\* The claim: the one step that hands out a token and an attempt.
LEMMA ClaimStep ==
    ASSUME IInv, TypeOK', NEW w \in Worker, Claim(w)
    PROVE  Invs'
<1> USE ConstantsAssumption DEF IInv, TypeOK, Claim
<1> DEFINE j == cur[w]
<1>0. j \in Job /\ status[j] = "pending" /\ attempts[j] < MaxAttempts
      BY DEF Claimable
<1>1. AttemptBudget'
      BY <1>0 DEF AttemptBudget
<1>2. RowsConsistent'
      BY <1>0 DEF RowsConsistent
<1>3. TokensDistinct'
  <2> SUFFICES ASSUME NEW u \in Worker, phase'[u] \in Claimed
               PROVE  /\ cur'[u] \in Job
                      /\ myToken'[u] \in 1 .. claims'[cur'[u]]
                      /\ \A v \in Worker \ {u} :
                           phase'[v] \in Claimed /\ cur'[v] = cur'[u] => myToken'[v] # myToken'[u]
      BY DEF TokensDistinct
  <2>1. \A v \in Worker \ {w} : phase'[v] = phase[v] /\ cur'[v] = cur[v] /\ myToken'[v] = myToken[v]
        OBVIOUS
  <2>2. \A k \in Job : claims[k] <= claims'[k]
        OBVIOUS
  <2>3. CASE u = w
        BY <1>0, <2>1, <2>3 DEF TokensDistinct
  <2>4. CASE u # w
        BY <1>0, <2>1, <2>2, <2>4 DEF TokensDistinct
  <2> QED BY <2>3, <2>4
<1>4. ReadsBehind'
  <2>0. \A k \in Job : Unspent(k)' = Unspent(k)
        BY <1>0 DEF Unspent
  <2>1. ASSUME NEW u \in Worker, phase'[u] = "fetched"
        PROVE  cur'[u] \in Job /\ seen'[u] <= Unspent(cur[u])'
    <3>1. u # w
          BY <2>1
    <3>2. phase[u] = "fetched" /\ cur'[u] = cur[u] /\ seen'[u] = seen[u]
          BY <2>1, <3>1
    <3> QED BY <2>0, <3>2 DEF ReadsBehind, Unspent
  <2>2. ASSUME NEW u \in Worker, Owns(u)'
        PROVE  seen'[u] <= attempts'[cur'[u]]
    <3>1. CASE u = w
          BY <1>0, <2>2, <3>1 DEF ReadsBehind, Unspent
    <3>2. CASE u # w
          BY <1>0, <2>2, <3>2 DEF ReadsBehind, TokensDistinct, Owns, HoldsLease
    <3> QED BY <3>1, <3>2
  <2>3. ASSUME NEW u \in Worker, phase'[u] = "reject"
        PROVE  cur'[u] \in Unregistered
        BY <2>3 DEF ReadsBehind
  <2> QED BY <2>1, <2>2, <2>3 DEF ReadsBehind
<1> QED BY <1>1, <1>2, <1>3, <1>4 DEF Invs

\* An attempt handed back is counted as a deferral instead.
LEMMA HandBack ==
    ASSUME AttemptBudget, NEW j \in Job, attempts[j] >= 1,
           attempts \in [Job -> Nat], deferrals \in [Job -> Nat], MaxAttempts \in Nat,
           attempts' = [attempts EXCEPT ![j] = IF @ = 0 THEN 0 ELSE @ - 1],
           deferrals' = [deferrals EXCEPT ![j] = @ + 1],
           claims' = claims
    PROVE  AttemptBudget'
<1> SUFFICES ASSUME NEW k \in Job
             PROVE  attempts'[k] <= MaxAttempts /\ claims'[k] = attempts'[k] + deferrals'[k]
    BY DEF AttemptBudget
<1>1. attempts[k] <= MaxAttempts /\ claims[k] = attempts[k] + deferrals[k]
      BY DEF AttemptBudget
<1>2. CASE k = j
  <2>1. attempts'[k] = attempts[k] - 1 /\ deferrals'[k] = deferrals[k] + 1
        BY <1>2
  <2> QED BY <1>1, <1>2, <2>1
<1>3. CASE k # j
      BY <1>1, <1>3
<1> QED BY <1>2, <1>3

\* Handing an attempt back: the only step by which attempts decreases.
LEMMA DeferStep ==
    ASSUME IInv, TypeOK', NEW w \in Worker, DeferJob(w)
    PROVE  Invs'
<1> USE ConstantsAssumption DEF IInv, TypeOK, DeferJob
<1> DEFINE j == cur[w]
<1>0. j \in Job /\ status[j] = "running" /\ attempts[j] >= 1
      BY DEF HoldsLease, RowsConsistent
<1>1. AttemptBudget'
      BY <1>0, HandBack
<1>2. RowsConsistent'
      BY <1>0 DEF RowsConsistent, ClearLease, NoToken
<1>3. TokensDistinct'
      BY DEF TokensDistinct, Drop, Claimed
<1>4. ReadsBehind'
      BY <1>0 DEF ReadsBehind, RowsConsistent, Unspent, Owns, HoldsLease, ClearLease, Drop, Claimed
<1> QED BY <1>1, <1>2, <1>3, <1>4 DEF Invs

\* Recovery: the expired rows lose their token, whoever holds it.
LEMMA RecoverStep ==
    ASSUME IInv, TypeOK', Recover
    PROVE  Invs'
<1> USE DEF IInv, TypeOK, Recover
<1>1. AttemptBudget'
      BY DEF AttemptBudget
<1>2. RowsConsistent'
      BY DEF RowsConsistent, NoToken
<1>3. TokensDistinct'
      BY DEF TokensDistinct
<1>4. ReadsBehind'
      BY DEF ReadsBehind, Unspent, Owns, HoldsLease, NoToken
<1> QED BY <1>1, <1>2, <1>3, <1>4 DEF Invs

\* A takeover: the row becomes pending whatever it was.
LEMMA RequeueStep ==
    ASSUME IInv, TypeOK', NEW c \in Caretaker, EnsureRequeue(c)
    PROVE  Invs'
<1> USE ConstantsAssumption DEF IInv, TypeOK, EnsureRequeue
<1>1. AttemptBudget'
      BY DEF AttemptBudget
<1>2. RowsConsistent'
      BY DEF RowsConsistent, ClearLease, NoToken
<1>3. TokensDistinct'
      BY DEF TokensDistinct
<1>4. ReadsBehind'
      BY DEF ReadsBehind, Unspent, Owns, HoldsLease, ClearLease
<1> QED BY <1>1, <1>2, <1>3, <1>4 DEF Invs

\* A new row is pending and without a token, as an absent one was.
LEMMA InsertStep ==
    ASSUME IInv, TypeOK', NEW j \in Job, Insert(j),
           UNCHANGED <<claims, deferrals, phase, cur, seen, myToken>>
    PROVE  Invs'
BY DEF IInv, TypeOK, Invs, AttemptBudget, RowsConsistent, TokensDistinct, ReadsBehind,
       Unspent, Owns, HoldsLease, Insert

\* Reading a row: the goroutine knows its attempts as they are.
LEMMA FetchStep ==
    ASSUME IInv, TypeOK', NEW w \in Worker, NEW j \in Job, Fetch(w, j)
    PROVE  Invs'
<1> USE DEF IInv, TypeOK, Fetch
<1>1. AttemptBudget' /\ RowsConsistent'
      BY DEF AttemptBudget, RowsConsistent
<1>2. \A u \in Worker : phase'[u] \in Claimed =>
          u # w /\ phase'[u] = phase[u] /\ cur'[u] = cur[u] /\ seen'[u] = seen[u]
      BY DEF Claimed
<1>3. TokensDistinct'
      BY <1>2 DEF TokensDistinct
<1>4. ReadsBehind'
  <2>1. ASSUME NEW u \in Worker, phase'[u] = "fetched"
        PROVE  cur'[u] \in Job /\ seen'[u] <= Unspent(cur[u])'
        BY <2>1 DEF ReadsBehind, Unspent
  <2>2. ASSUME NEW u \in Worker, Owns(u)'
        PROVE  seen'[u] <= attempts'[cur'[u]]
        BY <1>2, <2>2 DEF ReadsBehind, Owns, HoldsLease
  <2>3. ASSUME NEW u \in Worker, phase'[u] = "reject"
        PROVE  cur'[u] \in Unregistered
        BY <1>2, <2>3 DEF ReadsBehind, Claimed
  <2> QED BY <2>1, <2>2, <2>3 DEF ReadsBehind
<1> QED BY <1>1, <1>3, <1>4 DEF Invs

\* The handler returns with a result, or the worker gives up a lost lease.
LEMMA ReturnStep ==
    ASSUME IInv, TypeOK', NEW w \in Worker, HandlerReturns(w)
    PROVE  Invs'
<1>1. CASE leaseLost[w]
      BY <1>1, DropStep DEF HandlerReturns
<1>2. CASE ~leaseLost[w]
      BY <1>2 DEF IInv, TypeOK, Invs, AttemptBudget, RowsConsistent, TokensDistinct, ReadsBehind,
                  Unspent, Owns, HoldsLease, HandlerReturns, Claimed
<1> QED BY <1>1, <1>2

LEMMA InvStep == IInv /\ [Next]_vars => IInv'
<1> SUFFICES ASSUME IInv, [Next]_vars
             PROVE  Invs'
    BY TypeStep DEF IInv, Invs
<1>0. TypeOK'
      BY TypeStep DEF IInv
<1>1. ASSUME NEW w \in Worker, WorkerStep(w)
      PROVE  Invs'
  <2>1. CASE Reserve(w)
        BY <1>0, <2>1, FrameStep DEF Reserve
  <2>2. ASSUME NEW j \in Job, Fetch(w, j)
        PROVE  Invs'
        BY <1>0, <2>2, FetchStep
  <2>3. CASE Claim(w)
        BY <1>0, <2>3, ClaimStep
  <2>4. CASE ClaimRefused(w)
        BY <1>0, <2>4, DropStep DEF ClaimRefused
  <2>5. CASE HandlerReturns(w)
        BY <1>0, <2>5, ReturnStep
  <2>6. CASE MarkJobSucceeded(w)
        BY <1>0, <2>6, WriteStep DEF MarkJobSucceeded, IInv, TypeOK, Claimed
  <2>7. CASE MarkJobFailed(w)
        BY <1>0, <2>7, WriteStep DEF MarkJobFailed, IInv, TypeOK, Claimed
  <2>8. CASE RetryJob(w)
        BY <1>0, <2>8, WriteStep DEF RetryJob, IInv, TypeOK, Claimed
  <2>9. CASE DeferJob(w)
        BY <1>0, <2>9, DeferStep
  <2>10. CASE Stale(w)
        BY <1>0, <2>10, DropStep DEF Stale
  <2> QED BY <1>1, <2>1, <2>2, <2>3, <2>4, <2>5, <2>6, <2>7, <2>8, <2>9, <2>10
          DEF WorkerStep
<1>2. ASSUME NEW w \in Worker, Renew(w) \/ WorkerFault(w)
      PROVE  Invs'
  <2>1. CASE Renew(w)
        BY <1>0, <2>1, FrameStep DEF Renew
  <2>2. CASE RenewFails(w)
        BY <1>0, <2>2, FrameStep DEF RenewFails
  <2>3. CASE StatementFails(w)
        BY <1>0, <2>3, DropStep DEF StatementFails
  <2>4. CASE Crash(w)
        BY <1>0, <2>4, DropStep DEF Crash
  <2> QED BY <1>2, <2>1, <2>2, <2>3, <2>4 DEF WorkerFault
<1>3. ASSUME NEW j \in Job, JobStep(j)
      PROVE  Invs'
  <2>1. CASE CreateJob(j)
        BY <1>0, <2>1, InsertStep DEF CreateJob
  <2>2. CASE ~CreateJob(j)
        BY <1>0, <1>3, <2>2, FrameStep
           DEF JobStep, Enqueue, EnqueueLost, SchedulerEnqueue, BecomeDue, LeaseExpires
  <2> QED BY <2>1, <2>2
<1>4. CASE SchedulerScan \/ SchedulerFails \/ SignalsLost
      BY <1>0, <1>4, FrameStep DEF SchedulerScan, SchedulerFails, SignalsLost
<1>5. CASE Recover
      BY <1>0, <1>5, RecoverStep
<1>6. ASSUME NEW c \in Caretaker, CaretakerStep(c)
      PROVE  Invs'
  <2>1. CASE EnsureRead(c)
        BY <1>0, <2>1, FrameStep DEF EnsureRead
  <2>2. CASE EnsureRequeue(c)
        BY <1>0, <2>2, RequeueStep
  <2>3. ASSUME NEW j \in Job, EnsureCreate(c, j)
        PROVE  Invs'
        BY <1>0, <2>3, InsertStep DEF EnsureCreate
  <2> QED BY <1>6, <2>1, <2>2, <2>3 DEF CaretakerStep
<1>7. CASE UNCHANGED vars
      BY <1>0, <1>7, FrameStep
<1> QED BY <1>1, <1>2, <1>3, <1>4, <1>5, <1>6, <1>7 DEF Next

\* The invariant holds in every behaviour.
THEOREM Invariance == Spec => []IInv
<1>1. Init => IInv
  <2> SUFFICES ASSUME Init PROVE IInv
      OBVIOUS
  <2>1. TypeOK
        BY ConstantsAssumption DEF Init, TypeOK, Status, Phase, NoToken
  <2>2. Invs
        BY ConstantsAssumption DEF Init, Invs, AttemptBudget, RowsConsistent, TokensDistinct,
           ReadsBehind, Unspent, Owns, Claimed, NoToken
  <2> QED BY <2>1, <2>2 DEF IInv, Invs
<1> QED BY <1>1, InvStep, PTL DEF Spec

-----------------------------------------------------------------------------
(* What follows from the invariant.                                         *)

\* max_attempts bounds the claims of a job in every run of the system.
THEOREM AttemptsBounded == Spec => []AttemptBudget
BY Invariance, PTL DEF IInv

\* No two goroutines can both write the result of a job, although several
\* may be executing its handler.
THEOREM SingleOwner == Spec => []OneOwner
<1>1. IInv => OneOwner
  <2> SUFFICES ASSUME IInv, NEW v \in Worker, NEW w \in Worker,
                      Owns(v), Owns(w), cur[v] = cur[w], v # w
               PROVE  FALSE
      BY DEF OneOwner
  <2>1. myToken[v] = myToken[w]
        BY DEF Owns, HoldsLease
  <2> QED BY <2>1 DEF IInv, TokensDistinct, Owns
<1> QED BY <1>1, Invariance, PTL

\* A row holds a token exactly while it is running.
THEOREM LeaseFollowsStatus == Spec => []LeaseMatchesStatus
<1>1. IInv => LeaseMatchesStatus
      BY DEF IInv, TypeOK, RowsConsistent, LeaseMatchesStatus, NoToken
<1> QED BY <1>1, Invariance, PTL

\* A job succeeds only by the goroutine of its latest claim.
THEOREM OnlyOwnerSucceeds == Spec => SucceedsByOwner
<1> DEFINE Good == \A j \in Job :
         status[j] # "succeeded" /\ status'[j] = "succeeded" =>
           \E w \in Worker : /\ cur[w] = j /\ phase[w] = "ok" /\ phase'[w] = "idle"
                            /\ myToken[w] = claims[j]
<1>1. IInv /\ [Next]_vars => Good
  <2> SUFFICES ASSUME IInv, [Next]_vars, NEW j \in Job,
                      status[j] # "succeeded", status'[j] = "succeeded"
               PROVE  \E w \in Worker : MarkJobSucceeded(w) /\ cur[w] = j
      BY DEF IInv, TypeOK, RowsConsistent, MarkJobSucceeded, HoldsLease, Drop
  <2> USE DEF IInv, TypeOK
  <2>1. ASSUME NEW w \in Worker, WorkerStep(w), ~MarkJobSucceeded(w)
        PROVE  FALSE
        BY <2>1 DEF WorkerStep, Reserve, Fetch, Claim, ClaimRefused, HandlerReturns,
                    MarkJobFailed, RetryJob, DeferJob, Stale
  <2>2. ASSUME NEW w \in Worker, MarkJobSucceeded(w)
        PROVE  cur[w] = j
        BY <2>2 DEF MarkJobSucceeded
  <2>3. ASSUME NEW w \in Worker, Renew(w) \/ WorkerFault(w)
        PROVE  FALSE
        BY <2>3 DEF Renew, WorkerFault, RenewFails, StatementFails, Crash
  <2>4. ASSUME NEW k \in Job, JobStep(k)
        PROVE  FALSE
        BY <2>4 DEF JobStep, CreateJob, Insert, Enqueue, EnqueueLost, SchedulerEnqueue,
                    BecomeDue, LeaseExpires
  <2>5. CASE SchedulerScan \/ SchedulerFails \/ SignalsLost
        BY <2>5 DEF SchedulerScan, SchedulerFails, SignalsLost
  <2>6. CASE Recover
        BY <2>6 DEF Recover
  <2>7. ASSUME NEW c \in Caretaker, CaretakerStep(c)
        PROVE  FALSE
        BY <2>7 DEF CaretakerStep, EnsureRead, EnsureRequeue, EnsureCreate, Insert
  <2>8. CASE UNCHANGED vars
        BY <2>8
  <2> QED BY <2>1, <2>2, <2>3, <2>4, <2>5, <2>6, <2>7, <2>8 DEF Next
<1> QED BY <1>1, Invariance, PTL DEF Spec, SucceedsByOwner

\* A job with a handler fails only when its attempts are used up.
THEOREM NoEarlyFailure == Spec => FailsOnlyExhausted
<1> DEFINE Good == \A j \in Job \ Unregistered :
         status[j] # "failed" /\ status'[j] = "failed" => attempts[j] = MaxAttempts
<1>1. IInv /\ [Next]_vars => Good
  <2> SUFFICES ASSUME IInv, [Next]_vars, NEW j \in Job \ Unregistered,
                      status[j] # "failed", status'[j] = "failed"
               PROVE  attempts[j] >= MaxAttempts
      BY ConstantsAssumption DEF IInv, TypeOK, AttemptBudget
  <2> USE DEF IInv, TypeOK
  <2>1. ASSUME NEW w \in Worker, WorkerStep(w), ~MarkJobFailed(w)
        PROVE  FALSE
        BY <2>1 DEF WorkerStep, Reserve, Fetch, Claim, ClaimRefused, HandlerReturns,
                    MarkJobSucceeded, RetryJob, DeferJob, Stale
  <2>2. ASSUME NEW w \in Worker, MarkJobFailed(w)
        PROVE  attempts[j] >= MaxAttempts
    <3>1. cur[w] = j /\ phase[w] # "reject"
          BY <2>2 DEF MarkJobFailed, ReadsBehind
    <3>2. Owns(w) /\ Exhausted(w)
          BY <2>2, <3>1 DEF MarkJobFailed, Owns, Claimed
    <3> QED BY <3>1, <3>2, ConstantsAssumption DEF ReadsBehind, Exhausted
  <2>3. ASSUME NEW w \in Worker, Renew(w) \/ WorkerFault(w)
        PROVE  FALSE
        BY <2>3 DEF Renew, WorkerFault, RenewFails, StatementFails, Crash
  <2>4. ASSUME NEW k \in Job, JobStep(k)
        PROVE  FALSE
        BY <2>4 DEF JobStep, CreateJob, Insert, Enqueue, EnqueueLost, SchedulerEnqueue,
                    BecomeDue, LeaseExpires
  <2>5. CASE SchedulerScan \/ SchedulerFails \/ SignalsLost
        BY <2>5 DEF SchedulerScan, SchedulerFails, SignalsLost
  <2>6. CASE Recover
        BY <2>6 DEF Recover
  <2>7. ASSUME NEW c \in Caretaker, CaretakerStep(c)
        PROVE  FALSE
        BY <2>7 DEF CaretakerStep, EnsureRead, EnsureRequeue, EnsureCreate, Insert
  <2>8. CASE UNCHANGED vars
        BY <2>8
  <2> QED BY <2>1, <2>2, <2>3, <2>4, <2>5, <2>6, <2>7, <2>8 DEF Next
<1> QED BY <1>1, Invariance, PTL DEF Spec, FailsOnlyExhausted

\* A job nobody may take over keeps its outcome and its attempts.
THEOREM OutcomeIsFinal == Spec => FinishedStaysFinished
<1> DEFINE Good == \A j \in Job \ InitJob :
         status[j] \in Terminal => status'[j] = status[j] /\ attempts'[j] = attempts[j]
<1>1. IInv /\ [Next]_vars => Good
  <2> SUFFICES ASSUME IInv, [Next]_vars, NEW j \in Job \ InitJob, status[j] \in Terminal
               PROVE  status'[j] = status[j] /\ attempts'[j] = attempts[j]
      OBVIOUS
  <2> USE DEF IInv, TypeOK, Terminal
  <2>1. ASSUME NEW w \in Worker, WorkerStep(w)
        PROVE  status'[j] = status[j] /\ attempts'[j] = attempts[j]
        BY <2>1 DEF WorkerStep, Reserve, Fetch, Claim, Claimable, ClaimRefused, HandlerReturns,
                    MarkJobSucceeded, MarkJobFailed, RetryJob, DeferJob, Stale, HoldsLease
  <2>2. ASSUME NEW w \in Worker, Renew(w) \/ WorkerFault(w)
        PROVE  status'[j] = status[j] /\ attempts'[j] = attempts[j]
        BY <2>2 DEF Renew, WorkerFault, RenewFails, StatementFails, Crash
  <2>3. ASSUME NEW k \in Job, JobStep(k)
        PROVE  status'[j] = status[j] /\ attempts'[j] = attempts[j]
        BY <2>3 DEF JobStep, CreateJob, Insert, Enqueue, EnqueueLost, SchedulerEnqueue,
                    BecomeDue, LeaseExpires
  <2>4. CASE SchedulerScan \/ SchedulerFails \/ SignalsLost
        BY <2>4 DEF SchedulerScan, SchedulerFails, SignalsLost
  <2>5. CASE Recover
        BY <2>5 DEF Recover
  <2>6. ASSUME NEW c \in Caretaker, CaretakerStep(c)
        PROVE  status'[j] = status[j] /\ attempts'[j] = attempts[j]
        BY <2>6 DEF CaretakerStep, EnsureRead, EnsureRequeue, EnsureCreate, Insert
  <2>7. CASE UNCHANGED vars
        BY <2>7
  <2> QED BY <2>1, <2>2, <2>3, <2>4, <2>5, <2>6, <2>7 DEF Next
<1> QED BY <1>1, Invariance, PTL DEF Spec, FinishedStaysFinished

-----------------------------------------------------------------------------
(* Refinement.                                                              *)

\* With nobody taking jobs over, the table follows the declared transitions.
THEOREM Refinement ==
    ASSUME Caretaker = {}
    PROVE  Spec => ImplementsStateMachine
<1> USE DEF Declared!IsJobTransitionAllowed, Declared!jobTransitions, Declared!Moves
<1>1. Init => Declared!Init
      BY DEF Init, Declared!Init
<1>2. IInv /\ [Next]_vars => [Declared!Next]_status
  <2> SUFFICES ASSUME IInv, [Next]_vars
               PROVE  \/ status' = status
                      \/ \A j \in Job : Declared!Moves(j)
      BY TypeStep DEF IInv, TypeOK, Status, Declared!Next, Declared!JobStatus
  <2> USE DEF IInv, TypeOK
  <2>1. ASSUME NEW w \in Worker, WorkerStep(w)
        PROVE  status' = status \/ \A j \in Job : Declared!Moves(j)
        BY <2>1 DEF WorkerStep, Reserve, Fetch, Claim, Claimable, ClaimRefused, HandlerReturns,
                    MarkJobSucceeded, MarkJobFailed, RetryJob, DeferJob, Stale, HoldsLease
  <2>2. ASSUME NEW w \in Worker, Renew(w) \/ WorkerFault(w)
        PROVE  status' = status
        BY <2>2 DEF Renew, WorkerFault, RenewFails, StatementFails, Crash
  <2>3. ASSUME NEW k \in Job, JobStep(k)
        PROVE  status' = status \/ \A j \in Job : Declared!Moves(j)
        BY <2>3 DEF JobStep, CreateJob, Insert, Enqueue, EnqueueLost, SchedulerEnqueue,
                    BecomeDue, LeaseExpires
  <2>4. CASE SchedulerScan \/ SchedulerFails \/ SignalsLost
        BY <2>4 DEF SchedulerScan, SchedulerFails, SignalsLost
  <2>5. CASE Recover
        BY <2>5 DEF Recover
  <2>6. CASE UNCHANGED vars
        BY <2>6
  <2> QED BY <2>1, <2>2, <2>3, <2>4, <2>5, <2>6 DEF Next
<1> QED BY <1>1, <1>2, Invariance, PTL DEF Spec, ImplementsStateMachine, Declared!Spec
=============================================================================
