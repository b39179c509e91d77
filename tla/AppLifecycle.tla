---------------------------- MODULE AppLifecycle ----------------------------
(***************************************************************************)
(* The life of a standard app: the requests of its users, the handlers of   *)
(* module AppRuntime, the login of its WeChat channel, and the two          *)
(* caretakers that repair the row behind the handlers' backs, the reaper of *)
(* initializations that stopped moving and the reconciler that follows the  *)
(* pods.                                                                    *)
(***************************************************************************)
EXTENDS AppRuntime

------------------------------------------------------------------------------
\* The users.  No request looks at the jobs that are already there; Trigger does not
\* look at the row either.

Request == ops < MaxOps /\ ops' = ops + 1

Trigger(kind) ==
    /\ Request
    /\ CreateJob(kind)
    /\ UNCHANGED <<app, channel, k8s, work, caretakers, faults, history>>

\* The status is written before the job is created; the request may be cut in between.
RequestInitialize ==
    /\ Request
    /\ app.status \in {"error", "draft"}
    /\ SetStatus("pulling")
    /\ \/ CreateJob("init") /\ UNCHANGED faults
       \/ Faulty /\ UNCHANGED <<jobs, latest>>
    /\ UNCHANGED <<channel, k8s, work, caretakers, history>>

\* SetAppVersion also forgets what was applied last.
SwitchAppVersion(v) ==
    /\ Request /\ ~app.deleted
    /\ app' = [app EXCEPT !.version = v, !.applied = 0]
    /\ UNCHANGED <<channel, k8s, jobs, latest, work, caretakers, faults, history>>

\* The row goes first, then the job that clears the cluster; the request may be cut in
\* between.  A handler that has loaded the row goes on.
DeleteMember ==
    /\ Request /\ ~app.deleted
    /\ app' = [app EXCEPT !.deleted = TRUE, !.status = "deleted"]
    /\ \/ CreateJob("delete") /\ UNCHANGED <<faults, abandoned>>
       \/ Faulty /\ abandoned' = TRUE /\ UNCHANGED <<jobs, latest>>
    /\ UNCHANGED <<channel, k8s, work, caretakers, overlapped, disturbed>>

Serving == {"running", "binding_waiting"}
AppCanInitiateChannelAuth == app.status \in Serving /\ app.phase = "ready"

BeginAuth ==
    /\ Request
    /\ AppCanInitiateChannelAuth /\ binding # "bound"
    /\ binding' = "pending_auth"
    /\ CreateJob("login")
    /\ UNCHANGED <<app, qr, k8s, work, caretakers, faults, history>>

\* The account in the pod is removed too, if the pod answers.
Unbind ==
    /\ Request
    /\ binding' = "unbound_by_user"
    /\ \/ qr' = "none" /\ UNCHANGED faults
       \/ qr # "none" /\ Faulty /\ UNCHANGED qr
    /\ UNCHANGED <<app, k8s, jobs, latest, work, caretakers, history>>

\* The user scans the code; the pod keeps the account in its volume.
ScanQR ==
    /\ qr = "shown" /\ Observed = "ready" /\ qr' = "scanned"
    /\ UNCHANGED <<app, binding, k8s, jobs, latest, work, caretakers, ops, faults, history>>

Users == \/ \E kind \in {"start", "stop", "restart", "delete"} : Trigger(kind)
         \/ RequestInitialize \/ DeleteMember \/ BeginAuth \/ Unbind \/ ScanQR
         \/ \E v \in 1..MaxVersion : SwitchAppVersion(v)

------------------------------------------------------------------------------
\* channel_start_login

\* The gate may have closed since the request: then the login is put off.
LoadLogin(w) ==
    /\ At(w, "login")
    /\ IF binding # "bound" /\ ~AppCanInitiateChannelAuth /\ app.status \in Serving
       THEN binding' = "pending_auth" /\ Succession(w, "login")
       ELSE /\ IF binding # "bound" /\ AppCanInitiateChannelAuth
               THEN Goto(w, "begin") /\ UNCHANGED jobs ELSE Succeed(w)
            /\ UNCHANGED <<binding, latest>>
    /\ UNCHANGED <<app, qr, k8s, caretakers, ops, faults, history>>

\* The pod shows a code, or the login has failed.
BeginLogin(w) ==
    /\ At(w, "begin")
    /\ IF Observed = "ready"
       THEN /\ qr' = IF qr = "scanned" THEN qr ELSE "shown"
            /\ binding' = "pending_auth"
            /\ Succession(w, "check") /\ UNCHANGED history
       ELSE binding' = "failed" /\ HandlerError(w) /\ UNCHANGED <<qr, latest>>
    /\ UNCHANGED <<app, k8s, caretakers, ops, faults>>

------------------------------------------------------------------------------
\* channel_check_binding.  It keeps the app it has loaded.

LoadCheck(w) ==
    /\ At(w, "check")
    /\ IF binding = "bound"
       THEN Succeed(w)
       ELSE /\ work' = [work EXCEPT ![w].pc = "poll", ![w].at = app.status]
            /\ UNCHANGED jobs
    /\ UNCHANGED <<app, k8s, quiet, history>>

\* Bound, given up, or not yet: another check is due in five seconds.
PollBinding(w) ==
    /\ At(w, "poll")
    /\ \/ qr = "scanned" /\ binding' = "bound" /\ Goto(w, "reload") /\ UNCHANGED <<jobs, latest>>
       \/ qr # "scanned" /\ binding' = "failed" /\ Succeed(w) /\ UNCHANGED latest
       \/ qr # "scanned" /\ binding' = "pending_auth" /\ Succession(w, "check")
    /\ UNCHANGED <<app, qr, k8s, caretakers, ops, faults, history>>

\* finalizeChannelBound restarts the pod, which loads its accounts as it boots; a
\* restart that fails is only logged.
ReloadPod(w) ==
    /\ At(w, "reload")
    /\ \/ k8s.replicas # -1 /\ RolloutRestart /\ UNCHANGED faults
       \/ k8s.replicas = -1 /\ UNCHANGED <<k8s, faults>>
       \/ k8s.replicas # -1 /\ Faulty /\ UNCHANGED k8s
    /\ Goto(w, "bound")
    /\ UNCHANGED <<app, channel, jobs, latest, caretakers, ops, history>>

FinalizeBound(w) ==
    /\ At(w, "bound")
    /\ IF work[w].at = "binding_waiting" THEN SetStatus("running") ELSE UNCHANGED app
    /\ Succeed(w)
    /\ UNCHANGED <<k8s, quiet, history>>

Login(w) == \/ LoadLogin(w) \/ BeginLogin(w)
            \/ LoadCheck(w) \/ PollBinding(w) \/ ReloadPod(w) \/ FinalizeBound(w)

------------------------------------------------------------------------------
\* The caretakers.

\* A plausible mistake: a pending job is taken to be alive.
EnsureAnyPending ==
    IF latest = 0 THEN CreateJob("init")
    ELSE /\ jobs' = [jobs EXCEPT ![latest].status = "pending", ![latest].lease = None]
         /\ UNCHANGED latest

\* The newest initialization job is put back whatever became of it; one that is
\* pending is left alone unless nobody could claim it.
EnsureInitJob ==
    IF latest = 0 \/ (jobs[latest].status = "pending" /\ Exhausted(latest))
    THEN CreateJob("init")
    ELSE /\ jobs' = [jobs EXCEPT ![latest].status = "pending", ![latest].lease = None]
         /\ UNCHANGED latest

\* ListStaleInits: nobody has written the row for 90 s.  A living initialization
\* keeps writing it, unless it is slow.
Initializing == \E w \in Workers : work[w].pc \in InitSteps \cup {"init"} /\ Owns(w)
Stale(slow) ==
    /\ ~app.deleted /\ app.status \in InitStatus
    /\ Initializing => slow

\* reapApp: the status, then the job; a reaper that dies leaves the job as it is.
ReapApp(slow) ==
    /\ SetStatus("pulling")
    /\ EnsureInitJob \/ (slow /\ UNCHANGED <<jobs, latest>>)
    /\ reaper' = "idle"
    /\ UNCHANGED <<channel, k8s, work, recon, ops, history>>

Reaper == reaper = "idle" /\ Stale(FALSE) /\ ReapApp(FALSE) /\ UNCHANGED faults
SlowReaper ==
    /\ reaper = "idle" /\ Stale(TRUE) /\ Faulty
    /\ \/ ReapApp(TRUE)
       \/ /\ reaper' = "listed"
          /\ UNCHANGED <<app, channel, k8s, jobs, latest, work, recon, ops, history>>
LateReaper == reaper = "listed" /\ ReapApp(FALSE) /\ UNCHANGED faults

\* A plausible mistake: the apps that failed are not looked at.
PolledServing(pod, slow) == ~app.deleted /\ app.status \in Serving /\ pod = Observed

\* Tick asks for the pod of every app that should serve, and of every failed one.  An
\* initialization leaves the status error long before the next tick, unless it is slow.
Polled(pod, slow) ==
    /\ ~app.deleted
    /\ \/ app.status \in Serving /\ pod = Observed
       \/ /\ app.status = "error" /\ Observed = "ready" /\ pod = "revive"
          /\ Initializing => slow

\* A plausible mistake: only the handlers open the gate.
ReconcileShuts(pod) ==
    /\ IF pod = "revive"
       THEN EnsureInitJob /\ UNCHANGED app
       ELSE /\ app' = [app EXCEPT !.phase = IF pod = "ready" THEN @ ELSE "down",
                                  !.status = IF pod = "bad" /\ @ = "running" THEN "error"
                                             ELSE @]
            /\ UNCHANGED <<jobs, latest>>
    /\ recon' = "idle"
    /\ UNCHANGED <<channel, k8s, work, reaper, ops, history>>

\* The phase is written whatever the row says by then; a bad pod fails the app if the
\* row, read again, says running; a failed app whose pod is ready is initialized again.
Reconcile(pod) ==
    /\ IF pod = "revive"
       THEN EnsureInitJob /\ UNCHANGED app
       ELSE /\ app' = [app EXCEPT !.phase = IF pod = "ready" THEN "ready" ELSE "down",
                                  !.status = IF pod = "bad" /\ @ = "running" THEN "error"
                                             ELSE @]
            /\ UNCHANGED <<jobs, latest>>
    /\ recon' = "idle"
    /\ UNCHANGED <<channel, k8s, work, reaper, ops, history>>

Pods == {"ready", "bad", "pending", "revive"}
Reconciler ==
    recon = "idle" /\ \E pod \in Pods : Polled(pod, FALSE) /\ Reconcile(pod) /\ UNCHANGED faults
SlowReconciler ==
    /\ recon = "idle" /\ Faulty
    /\ \E pod \in Pods : Polled(pod, TRUE) /\ recon' = pod
    /\ UNCHANGED <<app, channel, k8s, jobs, latest, work, reaper, ops, history>>
LateReconciler == recon # "idle" /\ Reconcile(recon) /\ UNCHANGED faults

------------------------------------------------------------------------------
Handler(w) == \/ Initialize(w) \/ StartStop(w) \/ RestartApp(w) \/ DeleteApp(w)
              \/ Login(w) \/ LeaseLost(w)

Next ==
    \/ Users
    \/ \E w \in Workers : \/ Handler(w) \/ Fault(w) \/ Crash(w)
                          \/ \E j \in Jobs : Claim(w, j)
    \/ \E j \in Jobs : Recover(j)
    \/ Reaper \/ SlowReaper \/ LateReaper
    \/ Reconciler \/ SlowReconciler \/ LateReconciler
    \/ Pod \/ PodFails

Spec == Init /\ [][Next]_vars

\* Every loop of the manager keeps running, and the cluster does its work; a worker
\* that is free now and then gets to every job.
Fairness ==
    /\ \A w \in Workers : WF_vars(Handler(w))
    /\ \A j \in Jobs : /\ SF_vars(\E w \in Workers : Claim(w, j))
                       /\ WF_vars(~(\E w \in Workers : work[w].job = j /\ Owns(w)) /\ Recover(j))
    /\ WF_vars(Reaper) /\ WF_vars(LateReaper) /\ WF_vars(Reconciler) /\ WF_vars(LateReconciler)
    /\ WF_vars(Pod)

FairSpec == Spec /\ Fairness

------------------------------------------------------------------------------
\* The type invariant.
App == [status : Status, deleted : BOOLEAN, phase : {"down", "ready"},
        version : 1..MaxVersion, applied : 0..MaxVersion]
Deployment == [replicas : {-1, 0, 1}, image : Nat, mark : BOOLEAN,
               pod : {"none", "ready", "old", "bad"}, ver : 0..MaxVersion]
Row == [kind : Kind, status : {"free", "pending", "running", "ended"},
        attempts : 0..MaxAttempts, lease : Workers \cup {None}]
Work == [pc : Step, job : 0..MaxJobs, at : Status, ver : 1..MaxVersion]
TypeOK ==
    /\ app \in App /\ k8s \in Deployment
    /\ binding \in {"unbound", "pending_auth", "bound", "failed", "unbound_by_user"}
    /\ qr \in {"none", "shown", "scanned"}
    /\ jobs \in [Jobs -> Row] /\ latest \in 0..MaxJobs /\ work \in [Workers -> Work]
    /\ reaper \in {"idle", "listed"} /\ recon \in Pods \cup {"idle"}
    /\ ops \in 0..MaxOps /\ faults \in 0..MaxFaults
    /\ overlapped \in BOOLEAN /\ disturbed \in BOOLEAN /\ abandoned \in BOOLEAN

\* Nothing is being done, or about to be done, to the app: a login may be waiting.
AtRest == /\ \A w \in Workers : At(w, "idle")
          /\ \A j \in Jobs : jobs[j].status \in {"pending", "running"} =>
                               jobs[j].kind \in {"login", "check"}
          /\ reaper = "idle" /\ recon = "idle"

\* When the jobs of the app were handled one at a time and none failed for good, the
\* status that the console shows says what the cluster does: a stopped app has no pod
\* to come, and a running one has (app_runtime_ops.go, app_status_reconciler.go).  The
\* console shows no deleted app; a handler that DeleteMember overtakes writes its status
\* all the same.
ScaleMatchesStatus ==
    AtRest /\ ~overlapped /\ ~disturbed /\ ~app.deleted =>
        /\ app.status = "stopped" => k8s.replicas # 1
        /\ app.status = "running" => k8s.replicas = 1

\* The Deployment of a deleted app is gone, or a job that deletes it is due, whatever was
\* being done when the row was archived and whatever is queued, retried or taken up again
\* by the caretakers before and after: what a handler that DeleteMember overtook brings up
\* goes with that job, and once it has ended nothing brings a Deployment back.  Excepted
\* are handlers that overlap, and deletions that were never queued or failed for good
\* (DeleteMember, AppDeleteHandler, AppInitializeHandler).
DeletionDue == \E j \in Jobs : jobs[j].kind = "delete" /\ jobs[j].status \in {"pending", "running"}
DeletedIsDown ==
    app.deleted /\ ~overlapped => k8s.replicas = -1 \/ DeletionDue \/ abandoned

\* An app whose channel is bound does not stay in binding_waiting, whichever of the
\* check and the initialization came last, unless a check was cut after it had marked
\* the binding (promoteIfChannelBound, finalizeChannelBound).
PromotedUnlessCut ==
    AtRest /\ ~overlapped /\ ~disturbed /\ ~app.deleted /\ binding = "bound" =>
        app.status # "binding_waiting"

\* No initialization hangs: from some time on the app is in no step of one, though
\* jobs die, run out of attempts, lose their lease, and the request or the restart
\* that set the first step may not have queued the job (reaper.go, jobutil.go).
EveryAppSettles == <>[](app.deleted \/ app.status \notin InitStatus)

\* A failed app whose pod is ready is taken up again (recoverReadyButError).
Failed == app.status = "error" /\ ~app.deleted
ReadyErrorHeals == (Failed /\ Observed = "ready") ~> ~(Failed /\ Observed = "ready")

\* The gate for logins, shut by a start, a restart or a late tick, opens again when
\* the pod of an app that serves is ready (AppStatusReconciler.Tick).
Up == app.status \in Serving /\ ~app.deleted /\ Observed = "ready"
GateReopens == Up ~> (~Up \/ app.phase = "ready")
=============================================================================
