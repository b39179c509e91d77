----------------------------- MODULE JobRuntime -----------------------------
(***************************************************************************)
(* The background job runtime of the manager: the jobs table, the Redis    *)
(* signal queue, the worker goroutines, the scheduler, the recovery of     *)
(* expired leases, and EnsureInitJob, by which the reaper and the status   *)
(* reconciler take a job back from outside the worker.                     *)
(*                                                                         *)
(* The table is the source of truth; the queue only carries job ids.  A    *)
(* worker reads a row, claims it with a conditional UPDATE and a fresh     *)
(* lease token, runs the handler, and writes the result with a conditional *)
(* UPDATE on the token.  Every statement is one atomic step; everything    *)
(* between two statements of one goroutine can interleave.                 *)
(*                                                                         *)
(* Time is abstracted to two facts per row: due (run_after <= now()) and   *)
(* expired (locked_at < now() - lease), which the environment may make     *)
(* true at any moment.  locked_by is left out: every replica is started    *)
(* with WorkerID = cfg.App.HTTPAddr, so only lease_token tells owners      *)
(* apart.                                                                  *)
(***************************************************************************)
EXTENDS Naturals, FiniteSets

CONSTANTS
    Job,            \* job ids
    Worker,         \* worker goroutines, of all replicas
    Caretaker,      \* callers of EnsureInitJob: the reaper, the reconciler
    InitJob,        \* ids of app_initialize jobs, all of one app
    Unregistered,   \* jobs whose type no handler is registered for
    Rank,           \* order of ListReadyJobs: priority DESC, created_at ASC
    MaxAttempts,    \* jobs.max_attempts
    WorkerBatch,    \* worker.Config.BatchSize
    SchedBatch,     \* scheduler.Config.BatchSize
    MaxDeferrals,   \* bound on deferrals of one job
    MaxTakeovers,   \* bound on RequeueJob calls
    MaxFaults,      \* bound on crashes, panics, lost signals, failed writes
    NoJob           \* the absent job

ASSUME ConstantsAssumption ==
    /\ IsFiniteSet(Job)
    /\ InitJob \subseteq Job
    /\ Unregistered \subseteq Job
    /\ NoJob \notin Job
    /\ Rank \in [Job -> Nat]
    /\ MaxAttempts \in Nat \ {0}
    /\ WorkerBatch \in Nat \ {0}
    /\ SchedBatch \in Nat \ {0}
    /\ MaxDeferrals \in Nat
    /\ MaxTakeovers \in Nat
    /\ MaxFaults \in Nat

VARIABLES
    \* the jobs table, one function per column
    status, attempts, leaseToken, due, expired,
    latest,     \* the init job GetLatestAppInitJob returns
    \* the Redis ZSET, and ids a caller still has to Enqueue
    queue, notify, scanned,
    \* the goroutines of the workers: position, ids still to process, the id
    \* in hand, the attempts it read, its lease token, the leaseLost flag
    phase, batch, cur, seen, myToken, leaseLost,
    \* what a caretaker decided to do: nothing, create, or requeue a job
    decision,
    \* history and budgets: claims and deferrals of each job, takeovers, faults
    claims, deferrals, takeovers, faults

table  == <<status, attempts, leaseToken, due, expired, latest>>
signal == <<queue, notify, scanned>>
worker == <<phase, batch, cur, seen, myToken, leaseLost>>
budget == <<claims, deferrals, takeovers, faults>>
vars   == <<table, signal, worker, decision, budget>>

Status   == {"absent", "pending", "running", "succeeded", "failed"}
Terminal == {"succeeded", "failed"}
Phase    == {"idle", "fetched", "running", "ok", "err", "defer", "reject"}
Claimed  == {"running", "ok", "err", "defer", "reject"}
Create   == "create"
Nothing  == "nothing"

NoToken == 0    \* lease_token IS NULL; the n-th claim of a job uses token n

-----------------------------------------------------------------------------
Init ==
    /\ status = [j \in Job |-> "absent"]
    /\ attempts = [j \in Job |-> 0]
    /\ leaseToken = [j \in Job |-> NoToken]
    /\ due = [j \in Job |-> FALSE]
    /\ expired = [j \in Job |-> FALSE]
    /\ latest = NoJob
    /\ queue = {} /\ notify = {} /\ scanned = {}
    /\ phase = [w \in Worker |-> "idle"]
    /\ batch = [w \in Worker |-> {}]
    /\ cur = [w \in Worker |-> NoJob]
    /\ seen = [w \in Worker |-> 0]
    /\ myToken = [w \in Worker |-> NoToken]
    /\ leaseLost = [w \in Worker |-> FALSE]
    /\ decision = [c \in Caretaker |-> Nothing]
    /\ claims = [j \in Job |-> 0]
    /\ deferrals = [j \in Job |-> 0]
    /\ takeovers = 0
    /\ faults = 0

Fault == faults < MaxFaults /\ faults' = faults + 1

-----------------------------------------------------------------------------
(* Enqueuers.  A service inserts the row, then signals it; the process may  *)
(* stop, or Redis fail, between the two.                                    *)

\* The INSERT of CreateJob: pending, no attempt, run_after = now.
Insert(j) ==
    /\ status[j] = "absent"
    /\ status' = [status EXCEPT ![j] = "pending"]
    /\ due' = [due EXCEPT ![j] = TRUE]
    /\ latest' = IF j \in InitJob THEN j ELSE latest
    /\ notify' = notify \cup {j}
    /\ UNCHANGED <<attempts, leaseToken, expired>>

CreateJob(j) ==
    /\ Insert(j)
    /\ UNCHANGED <<queue, scanned, worker, decision, budget>>

Enqueue(j) ==
    /\ j \in notify
    /\ notify' = notify \ {j}
    /\ queue' = queue \cup {j}
    /\ UNCHANGED <<table, scanned, worker, decision, budget>>

\* Enqueue fails or its caller dies first; callers only log it.
EnqueueLost(j) ==
    /\ j \in notify
    /\ notify' = notify \ {j}
    /\ Fault
    /\ UNCHANGED <<table, queue, scanned, worker, decision, claims, deferrals, takeovers>>

-----------------------------------------------------------------------------
(* Scheduler.  Each replica runs the loop; scanned is the union of what     *)
(* their scans have listed and not yet enqueued.                            *)

Ready == {j \in Job : status[j] = "pending" /\ due[j]}

\* S is what ListReadyJobs(SchedBatch) returns: the first rows of the order.
IsFirstReady(S) ==
    /\ S \subseteq Ready
    /\ \A j \in S, k \in Ready \ S : Rank[j] <= Rank[k]
    /\ Cardinality(S) <= SchedBatch
    /\ S # Ready => Cardinality(S) = SchedBatch

SchedulerScan ==
    /\ \E S \in SUBSET Ready : /\ IsFirstReady(S)
                               /\ S # {}
                               /\ scanned' = scanned \cup S
    /\ UNCHANGED <<table, queue, notify, worker, decision, budget>>

SchedulerEnqueue(j) ==
    /\ j \in scanned
    /\ scanned' = scanned \ {j}
    /\ queue' = queue \cup {j}
    /\ UNCHANGED <<table, notify, worker, decision, budget>>

\* Enqueue returns an error: the tick ends, the rest of its scan is dropped.
SchedulerFails ==
    /\ scanned # {}
    /\ scanned' = {}
    /\ Fault
    /\ UNCHANGED <<table, queue, notify, worker, decision, claims, deferrals, takeovers>>

-----------------------------------------------------------------------------
(* Worker.Tick and processJobID.                                            *)

\* Reserve: ZRANGEBYSCORE, then one ZREM per candidate; only the caller whose
\* ZREM removed the member keeps it.  The ZREMs commute with other steps.
Reserve(w) ==
    /\ phase[w] = "idle"
    /\ batch[w] = {}
    /\ \E S \in SUBSET queue :
         /\ S # {}
         /\ Cardinality(S) <= WorkerBatch
         /\ queue' = queue \ S
         /\ batch' = [batch EXCEPT ![w] = S]
    /\ UNCHANGED <<table, notify, scanned, phase, cur, seen, myToken, leaseLost, decision, budget>>

\* GetJob: a row that is not pending is skipped.
Fetch(w, j) ==
    /\ phase[w] = "idle"
    /\ j \in batch[w]
    /\ batch' = [batch EXCEPT ![w] = @ \ {j}]
    /\ IF status[j] = "pending"
       THEN /\ phase' = [phase EXCEPT ![w] = "fetched"]
            /\ cur' = [cur EXCEPT ![w] = j]
            /\ seen' = [seen EXCEPT ![w] = attempts[j]]
       ELSE UNCHANGED <<phase, cur, seen>>
    /\ UNCHANGED <<table, signal, myToken, leaseLost, decision, budget>>

\* Mutant: a claim that does not look at the attempts.
ClaimableAnyAttempts(j) == status[j] = "pending"

\* MarkJobRunning: WHERE status = 'pending' AND attempts < max_attempts.
\* run_after is not part of the condition.
Claimable(j) == status[j] = "pending" /\ attempts[j] < MaxAttempts

Claim(w) ==
    LET j == cur[w] IN
    /\ phase[w] = "fetched"
    /\ Claimable(j)
    /\ status' = [status EXCEPT ![j] = "running"]
    /\ attempts' = [attempts EXCEPT ![j] = @ + 1]
    /\ claims' = [claims EXCEPT ![j] = @ + 1]
    /\ leaseToken' = [leaseToken EXCEPT ![j] = claims[j] + 1]
    /\ expired' = [expired EXCEPT ![j] = FALSE]
    /\ myToken' = [myToken EXCEPT ![w] = claims[j] + 1]
    /\ seen' = [seen EXCEPT ![w] = @ + 1]
    /\ leaseLost' = [leaseLost EXCEPT ![w] = FALSE]
    /\ phase' = [phase EXCEPT ![w] = IF j \in Unregistered THEN "reject" ELSE "running"]
    /\ UNCHANGED <<due, latest, signal, batch, cur, decision, deferrals, takeovers, faults>>

\* The end of processJobID: the worker turns to the next id of its batch.
Drop(w) ==
    /\ phase' = [phase EXCEPT ![w] = "idle"]
    /\ cur' = [cur EXCEPT ![w] = NoJob]
    /\ seen' = [seen EXCEPT ![w] = 0]
    /\ myToken' = [myToken EXCEPT ![w] = NoToken]
    /\ leaseLost' = [leaseLost EXCEPT ![w] = FALSE]

ClaimRefused(w) ==
    /\ phase[w] = "fetched"
    /\ ~Claimable(cur[w])
    /\ Drop(w)
    /\ UNCHANGED <<table, signal, batch, decision, budget>>

\* The handler returns.  A worker that knows it lost the lease writes
\* nothing.  An error of the beforeSuccess callback is an "err" too.
HandlerReturns(w) ==
    /\ phase[w] = "running"
    /\ IF leaseLost[w]
       THEN Drop(w)
       ELSE /\ \E r \in {"ok", "err", "defer"} :
                 /\ r = "defer" => deferrals[cur[w]] < MaxDeferrals
                 /\ phase' = [phase EXCEPT ![w] = r]
            /\ UNCHANGED <<cur, seen, myToken, leaseLost>>
    /\ UNCHANGED <<table, signal, batch, decision, budget>>

\* Mutant: the write matches any running row, whoever claimed it.
HoldsLeaseByStatus(w, j) == status[j] = "running"

\* Mutant: the write is WHERE id = ? only.
HoldsLeaseUnchecked(w, j) == TRUE

\* The condition of every result write: status = 'running' and the token.
HoldsLease(w, j) == status[j] = "running" /\ leaseToken[j] = myToken[w]

Owns(w) == cur[w] \in Job /\ phase[w] \in Claimed /\ HoldsLease(w, cur[w])

\* A result write that matches no row changes nothing: ErrStaleJobOwner.
Stale(w) ==
    /\ phase[w] \in {"ok", "err", "defer", "reject"}
    /\ ~HoldsLease(w, cur[w])
    /\ Drop(w)
    /\ UNCHANGED <<table, signal, batch, decision, budget>>

\* The columns every result write clears.
ClearLease(j) ==
    /\ leaseToken' = [leaseToken EXCEPT ![j] = NoToken]
    /\ expired' = [expired EXCEPT ![j] = FALSE]

MarkJobSucceeded(w) ==
    /\ phase[w] = "ok"
    /\ HoldsLease(w, cur[w])
    /\ status' = [status EXCEPT ![cur[w]] = "succeeded"]
    /\ ClearLease(cur[w])
    /\ Drop(w)
    /\ UNCHANGED <<attempts, due, latest, signal, batch, decision, budget>>

\* Mutant: the attempts are counted once more than they were spent.
ExhaustedOneEarly(w) == seen[w] + 1 >= MaxAttempts

\* handleHandlerError judges by the attempts the worker read before its
\* claim, plus one; it does not read the row again.
Exhausted(w) == seen[w] >= MaxAttempts

MarkJobFailed(w) ==
    /\ \/ phase[w] = "err" /\ Exhausted(w)
       \/ phase[w] = "reject"
    /\ HoldsLease(w, cur[w])
    /\ status' = [status EXCEPT ![cur[w]] = "failed"]
    /\ ClearLease(cur[w])
    /\ Drop(w)
    /\ UNCHANGED <<attempts, due, latest, signal, batch, decision, budget>>

RetryJob(w) ==
    /\ phase[w] = "err" /\ ~Exhausted(w)
    /\ HoldsLease(w, cur[w])
    /\ status' = [status EXCEPT ![cur[w]] = "pending"]
    /\ due' = [due EXCEPT ![cur[w]] = FALSE]
    /\ ClearLease(cur[w])
    /\ Drop(w)
    /\ UNCHANGED <<attempts, latest, signal, batch, decision, budget>>

DeferJob(w) ==
    LET j == cur[w] IN
    /\ phase[w] = "defer"
    /\ HoldsLease(w, j)
    /\ status' = [status EXCEPT ![j] = "pending"]
    /\ due' = [due EXCEPT ![j] = FALSE]
    /\ attempts' = [attempts EXCEPT ![j] = IF @ = 0 THEN 0 ELSE @ - 1]
    /\ deferrals' = [deferrals EXCEPT ![j] = @ + 1]
    /\ ClearLease(j)
    /\ Drop(w)
    /\ UNCHANGED <<latest, signal, batch, decision, claims, takeovers, faults>>

\* The renewer of the claim: it refreshes locked_at, or notes the loss.
Renew(w) ==
    /\ phase[w] \in Claimed
    /\ ~leaseLost[w]
    /\ IF HoldsLease(w, cur[w])
       THEN /\ expired[cur[w]]
            /\ expired' = [expired EXCEPT ![cur[w]] = FALSE]
            /\ UNCHANGED leaseLost
       ELSE /\ leaseLost' = [leaseLost EXCEPT ![w] = TRUE]
            /\ UNCHANGED expired
    /\ UNCHANGED <<status, attempts, leaseToken, due, latest, signal, phase, batch,
                   cur, seen, myToken, decision, budget>>

-----------------------------------------------------------------------------
(* Failures of a worker.                                                    *)

\* RenewJobLease returns an error: the flag is set although the lease holds.
RenewFails(w) ==
    /\ phase[w] \in Claimed
    /\ ~leaseLost[w]
    /\ leaseLost' = [leaseLost EXCEPT ![w] = TRUE]
    /\ Fault
    /\ UNCHANGED <<table, signal, phase, batch, cur, seen, myToken, decision,
                   claims, deferrals, takeovers>>

\* A statement of processJobID returns an error: the id is given up.
StatementFails(w) ==
    /\ phase[w] \in Phase \ {"idle", "running"}
    /\ Drop(w)
    /\ Fault
    /\ UNCHANGED <<table, signal, batch, decision, claims, deferrals, takeovers>>

\* The process dies, or the handler panics: safeRecoverTick abandons the
\* whole batch, whose ids are no longer in Redis.
Crash(w) ==
    /\ phase[w] # "idle" \/ batch[w] # {}
    /\ batch' = [batch EXCEPT ![w] = {}]
    /\ Drop(w)
    /\ Fault
    /\ UNCHANGED <<table, signal, decision, claims, deferrals, takeovers>>

\* Redis restarts without its data, or a ZREM fails half way through Reserve.
SignalsLost ==
    /\ \E S \in SUBSET queue : S # {} /\ queue' = queue \ S
    /\ Fault
    /\ UNCHANGED <<table, notify, scanned, worker, decision, claims, deferrals, takeovers>>

-----------------------------------------------------------------------------
(* Time and recovery.                                                       *)

BecomeDue(j) ==
    /\ status[j] = "pending" /\ ~due[j]
    /\ due' = [due EXCEPT ![j] = TRUE]
    /\ UNCHANGED <<status, attempts, leaseToken, expired, latest, signal, worker, decision, budget>>

LeaseExpires(j) ==
    /\ status[j] = "running" /\ ~expired[j]
    /\ expired' = [expired EXCEPT ![j] = TRUE]
    /\ UNCHANGED <<status, attempts, leaseToken, due, latest, signal, worker, decision, budget>>

\* Mutant: expired rows without attempts left are not touched.
RecoverSkipsExhausted ==
    LET X == {j \in Job : status[j] = "running" /\ expired[j] /\ attempts[j] < MaxAttempts} IN
    /\ X # {}
    /\ status' = [j \in Job |-> IF j \in X THEN "pending" ELSE status[j]]
    /\ due' = [j \in Job |-> j \in X \/ due[j]]
    /\ leaseToken' = [j \in Job |-> IF j \in X THEN NoToken ELSE leaseToken[j]]
    /\ expired' = [j \in Job |-> IF j \in X THEN FALSE ELSE expired[j]]
    /\ UNCHANGED <<attempts, latest, signal, worker, decision, budget>>

\* RequeueExpiredRunningJobs: one UPDATE over every expired row.
Recover ==
    LET X == {j \in Job : status[j] = "running" /\ expired[j]} IN
    /\ X # {}
    /\ status' = [j \in Job |-> IF j \notin X THEN status[j]
                                ELSE IF attempts[j] >= MaxAttempts THEN "failed" ELSE "pending"]
    /\ due' = [j \in Job |-> IF j \in X /\ attempts[j] < MaxAttempts THEN TRUE ELSE due[j]]
    /\ leaseToken' = [j \in Job |-> IF j \in X THEN NoToken ELSE leaseToken[j]]
    /\ expired' = [j \in Job |-> IF j \in X THEN FALSE ELSE expired[j]]
    /\ UNCHANGED <<attempts, latest, signal, worker, decision, budget>>

-----------------------------------------------------------------------------
(* EnsureInitJob: read the latest init job of the app, then act on what was *)
(* read.  The caller then enqueues the id it got.                           *)

EnsureRead(c) ==
    /\ decision[c] = Nothing
    /\ takeovers < MaxTakeovers
    /\ IF latest = NoJob
       THEN decision' = [decision EXCEPT ![c] = Create] /\ UNCHANGED notify
       ELSE IF status[latest] = "pending"
       THEN IF attempts[latest] >= MaxAttempts
            THEN decision' = [decision EXCEPT ![c] = Create] /\ UNCHANGED notify
            ELSE notify' = notify \cup {latest} /\ UNCHANGED decision
       ELSE decision' = [decision EXCEPT ![c] = latest] /\ UNCHANGED notify
    /\ takeovers' = takeovers + 1
    /\ UNCHANGED <<table, queue, scanned, worker, claims, deferrals, faults>>

EnsureCreate(c, j) ==
    /\ decision[c] = Create
    /\ j \in InitJob
    /\ Insert(j)
    /\ decision' = [decision EXCEPT ![c] = Nothing]
    /\ UNCHANGED <<queue, scanned, worker, budget>>

\* RequeueJob: WHERE id = ? only; attempts and run_after are kept.
EnsureRequeue(c) ==
    LET j == decision[c] IN
    /\ j \in InitJob
    /\ status' = [status EXCEPT ![j] = "pending"]
    /\ ClearLease(j)
    /\ notify' = notify \cup {j}
    /\ decision' = [decision EXCEPT ![c] = Nothing]
    /\ UNCHANGED <<attempts, due, latest, queue, scanned, worker, budget>>

-----------------------------------------------------------------------------
WorkerStep(w) ==
    \/ Reserve(w) \/ \E j \in Job : Fetch(w, j)
    \/ Claim(w) \/ ClaimRefused(w)
    \/ HandlerReturns(w)
    \/ MarkJobSucceeded(w) \/ MarkJobFailed(w) \/ RetryJob(w) \/ DeferJob(w)
    \/ Stale(w)

WorkerFault(w) == RenewFails(w) \/ StatementFails(w) \/ Crash(w)

JobStep(j) ==
    \/ CreateJob(j) \/ Enqueue(j) \/ EnqueueLost(j)
    \/ SchedulerEnqueue(j)
    \/ BecomeDue(j) \/ LeaseExpires(j)

CaretakerStep(c) ==
    \/ EnsureRead(c) \/ EnsureRequeue(c)
    \/ \E j \in Job : EnsureCreate(c, j)

Next ==
    \/ \E w \in Worker : WorkerStep(w) \/ Renew(w) \/ WorkerFault(w)
    \/ \E j \in Job : JobStep(j)
    \/ SchedulerScan \/ SchedulerFails \/ SignalsLost \/ Recover
    \/ \E c \in Caretaker : CaretakerStep(c)

Spec == Init /\ [][Next]_vars

-----------------------------------------------------------------------------
(* Fairness: the loops of the workers, the scheduler and the recovery keep  *)
(* ticking, handlers return (their calls have deadlines), time passes, and  *)
(* a lease nobody renews expires.  An id that keeps waiting in the queue is *)
(* reserved in the end: ZRANGEBYSCORE takes the oldest scores first.        *)
(* Enqueuers, caretakers and faults need not act.                           *)

Abandoned(j) == \A w \in Worker : cur[w] = j /\ Owns(w) => leaseLost[w]

Fairness ==
    /\ \A w \in Worker : WF_vars(WorkerStep(w)) /\ WF_vars(Renew(w))
    /\ \A j \in Job : /\ SF_vars(\E w \in Worker : Reserve(w) /\ j \in batch'[w])
                      /\ WF_vars(SchedulerEnqueue(j))
                      /\ WF_vars(BecomeDue(j))
                      /\ WF_vars(Abandoned(j) /\ LeaseExpires(j))
    /\ WF_vars(SchedulerScan)
    /\ WF_vars(Recover)

FairSpec == Spec /\ Fairness

-----------------------------------------------------------------------------
(* Properties.                                                              *)

\* Every column and every goroutine variable has the type the schema and the
\* worker's locals give it.
TypeOK ==
    /\ status \in [Job -> Status]
    /\ attempts \in [Job -> Nat]
    /\ leaseToken \in [Job -> Nat]
    /\ due \in [Job -> BOOLEAN]
    /\ expired \in [Job -> BOOLEAN]
    /\ latest \in InitJob \cup {NoJob}
    /\ queue \subseteq Job /\ notify \subseteq Job /\ scanned \subseteq Job
    /\ phase \in [Worker -> Phase]
    /\ batch \in [Worker -> SUBSET Job]
    /\ cur \in [Worker -> Job \cup {NoJob}]
    /\ \A w \in Worker : phase[w] = "idle" <=> cur[w] = NoJob
    /\ seen \in [Worker -> Nat]
    /\ myToken \in [Worker -> Nat]
    /\ leaseLost \in [Worker -> BOOLEAN]
    /\ decision \in [Caretaker -> {Nothing, Create} \cup InitJob]
    /\ claims \in [Job -> Nat]
    /\ deferrals \in [Job -> Nat]
    /\ takeovers \in Nat /\ faults \in Nat

\* max_attempts bounds the work: attempts never passes it, and it counts
\* every claim that was not handed back by DeferJob, whatever crashes,
\* expiries, takeovers and stale workers come in between.
AttemptBudget ==
    \A j \in Job : /\ attempts[j] <= MaxAttempts
                  /\ claims[j] = attempts[j] + deferrals[j]

\* At most one worker could still write the result of a job, however many
\* goroutines are executing its handler.
OneOwner ==
    \A v, w \in Worker : Owns(v) /\ Owns(w) /\ cur[v] = cur[w] => v = w

\* A lease token is in the row exactly while the job is running: a row that
\* left running can match no worker, a running row can always expire.
LeaseMatchesStatus ==
    \A j \in Job : (leaseToken[j] # NoToken) <=> (status[j] = "running")

\* Why the above hold, as an invariant that every step preserves.  A running
\* row carries the token of its latest claim and at least one attempt.  The
\* tokens of goroutines that claimed the same job differ.  What a goroutine
\* read is never ahead of the row: Unspent, the attempts not counting the
\* claim under way, only grows.
Unspent(j) == IF status[j] = "running" THEN attempts[j] - 1 ELSE attempts[j]

RowsConsistent ==
    \A j \in Job : /\ status[j] = "running" => attempts[j] >= 1 /\ claims[j] >= 1
                  /\ leaseToken[j] = IF status[j] = "running" THEN claims[j] ELSE NoToken

TokensDistinct ==
    \A w \in Worker :
        phase[w] \in Claimed =>
            /\ cur[w] \in Job
            /\ myToken[w] \in 1 .. claims[cur[w]]
            /\ \A v \in Worker \ {w} :
                 phase[v] \in Claimed /\ cur[v] = cur[w] => myToken[v] # myToken[w]

ReadsBehind ==
    \A w \in Worker :
        /\ phase[w] = "fetched" => cur[w] \in Job /\ seen[w] <= Unspent(cur[w])
        /\ phase[w] = "reject" => cur[w] \in Unregistered
        /\ Owns(w) => seen[w] <= attempts[cur[w]]

IInv == TypeOK /\ AttemptBudget /\ RowsConsistent /\ TokensDistinct /\ ReadsBehind

\* A job succeeds only through the worker that holds the latest claim and
\* whose handler returned without error: a worker whose lease was recovered
\* or taken over never decides the outcome.
SucceedsByOwner ==
    [][\A j \in Job :
         status[j] # "succeeded" /\ status'[j] = "succeeded" =>
           \E w \in Worker : /\ cur[w] = j /\ phase[w] = "ok" /\ phase'[w] = "idle"
                            /\ myToken[w] = claims[j]]_vars

\* No job is given up early: it fails only when every attempt is used, or when
\* nobody handles its type, although the worker judges by an old read.
FailsOnlyExhausted ==
    [][\A j \in Job \ Unregistered :
         status[j] # "failed" /\ status'[j] = "failed" => attempts[j] = MaxAttempts]_vars

\* Only EnsureInitJob reopens a finished job; late workers, recovery and
\* duplicate signals leave it alone.
FinishedStaysFinished ==
    [][\A j \in Job \ InitJob :
         status[j] \in Terminal => status'[j] = status[j] /\ attempts'[j] = attempts[j]]_vars

\* The statuses of the table move only along the transitions the domain package
\* declares: pending to running, running to an outcome or back to pending, a
\* failed job back to pending.
Declared == INSTANCE JobStateMachine

ImplementsStateMachine == Declared!Spec

\* A job whose row can be claimed is worked on until it settles: it succeeds,
\* fails, or has no attempt left, although signals get lost and workers die.
OutOfAttempts(j) == status[j] = "pending" /\ attempts[j] >= MaxAttempts

EveryJobSettles ==
    \A j \in Job : status[j] \in {"pending", "running"} ~>
                     (status[j] \in Terminal \/ OutOfAttempts(j))

\* The worker's package comment: a handler that keeps failing is retried and
\* reaches failed when max_attempts is used up, so no pending row is left
\* that no worker may claim.
NoDeadPending == \A j \in Job : ~OutOfAttempts(j)
=============================================================================
