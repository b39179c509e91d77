----------------------------- MODULE AppRuntime -----------------------------
(***************************************************************************)
(* The lifecycle of one standard app: its row in the table apps, its        *)
(* Deployment and pod, and the handlers of the jobs that initialize, start, *)
(* stop, restart and delete it.  Nothing serializes the jobs of an app, and *)
(* SetAppStatus writes whatever it is given; the handlers check transitions *)
(* against their own copy of the row.                                      *)
(*                                                                          *)
(* A handler is one action per statement that reads or writes what others   *)
(* share.  A write of the status and the read of the row that follows it    *)
(* are one action; the key, token and skill steps change nothing that the   *)
(* properties tell apart.  The job runtime is reduced to claim, lease,      *)
(* retry and recovery (module JobRuntime has it in full).  AppLifecycle     *)
(* adds the callers, the caretakers and the channel.                        *)
(***************************************************************************)
EXTENDS Integers, FiniteSets

CONSTANTS
    Workers,      \* worker goroutines, of all replicas
    None,         \* no worker
    MaxVersion,   \* bound: assistant versions, of equal revision
    Image,        \* the runtime image of a version
    MaxAttempts,  \* jobs.max_attempts: 3 for operations, 20 for reaped initializations
    MaxJobs,      \* bound: jobs of the app that are active at once
    MaxOps,       \* bound: requests of the users
    MaxFaults     \* bound: failed calls, crashes, lapsed leases and bad pods

ASSUME AppConstants ==
    /\ None \notin Workers
    /\ MaxVersion \in Nat \ {0} /\ MaxAttempts \in Nat \ {0} /\ MaxJobs \in Nat \ {0}
    /\ MaxOps \in Nat /\ MaxFaults \in Nat
    /\ Image \in [1..MaxVersion -> Nat \ {0}]

VARIABLES
    app,        \* the row: status, deleted_at, runtime_phase (ready, or down for all
                \* the others), version_id, applied_*
    binding,    \* channel_bindings.status of the WeChat channel
    qr,         \* the login in the pod: none, shown to the user, scanned
    k8s,        \* the Deployment (replicas, -1 for none; image; restart mark) and its pod
    jobs,       \* the rows of the jobs table that something still reads
    latest,     \* the newest app_initialize job, 0 for none
    work,       \* what each worker goroutine is doing, with its copies
    reaper,     \* whether a slow reaper has listed the app and not reset it yet
    recon,      \* what a slow tick of the reconciler has read and not written yet
    ops,
    faults,
    overlapped, \* history: two handlers of the app have run at once
    disturbed,  \* history: see Disturb
    abandoned   \* history: see LastDelete

vars == <<app, binding, qr, k8s, jobs, latest, work, reaper, recon, ops, faults,
          overlapped, disturbed, abandoned>>
channel == <<binding, qr>>
caretakers == <<reaper, recon>>
history == <<overlapped, disturbed, abandoned>>

InitStatus == {"pulling", "preparing", "creating", "starting"}
Status == InitStatus \cup {"draft", "binding_waiting", "running", "stopped", "error",
                           "deleted"}
Kind == {"init", "start", "stop", "restart", "delete", "login", "check"}
Step == InitStatus \cup
    {"idle", "init", "ensure", "wait", "binding_waiting", "stamp", "promote", "resume",
     "start", "scale1", "started", "stop", "scale0", "stopped", "restart", "update",
     "repull", "enqueue", "shut", "rollout", "restarted", "applied", "delete", "archive",
     "login", "begin", "check", "poll", "reload", "bound"}

Idle == [pc |-> "idle", job |-> 0, at |-> "draft", ver |-> 1]
FreeRow == [kind |-> "init", status |-> "free", attempts |-> 0, lease |-> None]
NewJob(kind) == [FreeRow EXCEPT !.kind = kind, !.status = "pending"]
Jobs == 1..MaxJobs

\* Onboarding commits the row and its first job in one transaction.
Init ==
    /\ app = [status |-> "draft", deleted |-> FALSE, phase |-> "down", version |-> 1,
              applied |-> 0]
    /\ binding = "unbound" /\ qr = "none"
    /\ k8s = [replicas |-> -1, image |-> 0, mark |-> FALSE, pod |-> "none", ver |-> 0]
    /\ jobs = [j \in Jobs |-> IF j = 1 THEN NewJob("init") ELSE FreeRow]
    /\ latest = 1
    /\ work = [w \in Workers |-> Idle]
    /\ reaper = "idle" /\ recon = "idle"
    /\ ops = 0 /\ faults = 0 /\ overlapped = FALSE /\ disturbed = FALSE
    /\ abandoned = FALSE

------------------------------------------------------------------------------
\* The state machine that services and handlers consult.

AppTransitions ==
    {<<"draft", "pulling">>, <<"pulling", "preparing">>, <<"preparing", "creating">>,
     <<"creating", "starting">>, <<"starting", "binding_waiting">>,
     <<"binding_waiting", "running">>, <<"binding_waiting", "pulling">>,
     <<"running", "stopped">>, <<"running", "error">>, <<"running", "pulling">>,
     <<"stopped", "running">>, <<"stopped", "error">>, <<"error", "pulling">>}
    \cup (InitStatus \X {"error"})

SetStatus(s) == app' = [app EXCEPT !.status = s]

------------------------------------------------------------------------------
\* The cluster: the adapter's calls, and what the controllers make of them.

\* Recreate: a pod of an older template ends first; until it has, it still counts.
Outdated(p) == IF p \in {"ready", "old"} THEN "old" ELSE "none"

\* Only a template that differs replaces the pod.
Rolled(image, mark) ==
    [k8s EXCEPT !.image = image, !.mark = mark,
                !.pod = IF image # k8s.image \/ mark # k8s.mark THEN Outdated(@) ELSE @]

\* The rendered Deployment has one replica and no restart annotation.
EnsureApp(v) ==
    LET applied == IF k8s.replicas = -1 THEN [k8s EXCEPT !.image = Image[v], !.mark = FALSE]
                   ELSE Rolled(Image[v], FALSE)
    IN k8s' = [applied EXCEPT !.replicas = 1]

Scale(n) ==
    k8s' = [k8s EXCEPT !.replicas = n, !.pod = IF n = 0 THEN Outdated(@) ELSE @]

UpdateImage(v) == k8s' = Rolled(Image[v], k8s.mark)

\* A fresh annotation: always another template.
RolloutRestart == k8s' = [k8s EXCEPT !.mark = TRUE, !.pod = Outdated(@)]

DeleteResources == k8s' = [k8s EXCEPT !.replicas = -1, !.image = 0, !.mark = FALSE,
                                      !.pod = Outdated(@)]

\* Status: a pod that is going away may still be ready, and NotFound is bad.
Observed ==
    IF k8s.pod \in {"ready", "old"} THEN "ready"
    ELSE IF k8s.pod = "bad" \/ (k8s.pod = "none" /\ k8s.replicas = -1) THEN "bad"
    ELSE "pending"

PodEnds == k8s.pod = "old" /\ k8s' = [k8s EXCEPT !.pod = "none"]
\* The pod fetches its configuration from the manager as it boots.
PodBoots == /\ k8s.pod = "none" /\ k8s.replicas = 1
            /\ k8s' = [k8s EXCEPT !.pod = "ready", !.ver = app.version]

Pod == /\ PodEnds \/ PodBoots
       /\ UNCHANGED <<app, channel, jobs, latest, work, caretakers, ops, faults, history>>

Faulty == faults < MaxFaults /\ faults' = faults + 1

PodFails ==
    /\ Faulty /\ k8s.pod = "ready" /\ k8s' = [k8s EXCEPT !.pod = "bad"]
    /\ UNCHANGED <<app, channel, jobs, latest, work, caretakers, ops, history>>

------------------------------------------------------------------------------
\* The job runtime under the handlers.

At(w, pc)   == work[w].pc = pc
Goto(w, pc) == work' = [work EXCEPT ![w].pc = pc]
Stop(w)     == work' = [work EXCEPT ![w] = Idle]

Owns(w) == LET j == work[w].job IN
    j # 0 /\ jobs[j].status = "running" /\ jobs[j].lease = w

\* A row that ended is kept while GetLatestAppInitJob can return it.
Ended(j) == IF j = latest THEN [jobs[j] EXCEPT !.status = "ended", !.lease = None]
            ELSE FreeRow

Exhausted(j) == jobs[j].attempts >= MaxAttempts
Retried(j) == IF Exhausted(j) THEN Ended(j)
              ELSE [jobs[j] EXCEPT !.status = "pending", !.lease = None]

\* A new initialization job takes the place of the newest one when that has ended or
\* nobody can claim it.
Replaced(kind) ==
    {j \in {latest} \ {0} : /\ kind = "init"
                            /\ \/ jobs[j].status = "ended"
                               \/ jobs[j].status = "pending" /\ Exhausted(j)}
Room(kind) == IF Replaced(kind) # {} THEN Replaced(kind)
              ELSE {j \in Jobs : jobs[j].status = "free"}

CreateIn(room, kind) ==
    \E j \in room :
        /\ \A i \in room : j <= i
        /\ jobs' = [i \in Jobs |-> IF i = j THEN NewJob(kind)
                                  ELSE IF i \in Replaced(kind) THEN FreeRow ELSE jobs[i]]
        /\ latest' = IF kind = "init" THEN j ELSE latest

CreateJob(kind) == CreateIn(Room(kind), kind)

\* The last thing a handler does is to create the job that goes on: its row takes the
\* place of the handler's own.
Succession(w, kind) ==
    CreateIn(IF Owns(w) THEN {work[w].job} ELSE Room(kind), kind) /\ Stop(w)

\* What some safety properties except: a job that failed for good, a restart of a
\* stopped app, and a check that was cut between marking the binding and promoting the
\* app.
Disturb(yes) == disturbed' = (disturbed \/ yes) /\ UNCHANGED overlapped
Cut(w) == work[w].pc \in {"reload", "bound"}

\* A deletion that failed for good after the row was archived: nothing looks at the app
\* again (abandoned; so does the request of DeleteMember that is cut before its job).
LastDelete(j) == app.deleted /\ jobs[j].kind = "delete" /\ Exhausted(j)

\* MarkJobRunning, and the worker starts the handler.
Claim(w, j) ==
    /\ At(w, "idle")
    /\ jobs[j].status = "pending" /\ ~Exhausted(j)
    /\ jobs' = [jobs EXCEPT ![j].status = "running", ![j].lease = w,
                            ![j].attempts = @ + 1]
    /\ work' = [work EXCEPT ![w].pc = jobs[j].kind, ![w].job = j]
    /\ overlapped' = (overlapped \/ \E v \in Workers \ {w} : ~At(v, "idle"))
    /\ UNCHANGED <<disturbed, abandoned, app, channel, k8s, latest, caretakers, ops, faults>>

Succeed(w) ==
    /\ jobs' = IF Owns(w) THEN [jobs EXCEPT ![work[w].job] = Ended(work[w].job)] ELSE jobs
    /\ Stop(w)

\* The handler returned an error: another attempt, or failed for good.
HandlerError(w) ==
    LET j == work[w].job IN
    /\ jobs' = IF Owns(w) THEN [jobs EXCEPT ![j] = Retried(j)] ELSE jobs
    /\ Disturb((Owns(w) /\ Exhausted(j)) \/ Cut(w))
    /\ abandoned' = (abandoned \/ (Owns(w) /\ LastDelete(j)))
    /\ Stop(w)

\* Any error of the initialization after it has loaded the app.
MarkFailed(w) == SetStatus("error") /\ HandlerError(w)

InitSteps == InitStatus \cup {"ensure", "wait", "binding_waiting", "stamp", "promote"}

\* A call of the handler fails.  (That of "reload" is only logged.)
Fault(w) ==
    /\ Faulty /\ work[w].pc \notin {"idle", "reload"}
    /\ IF work[w].pc \in InitSteps THEN SetStatus("error") ELSE UNCHANGED app
    /\ HandlerError(w)
    /\ UNCHANGED <<channel, k8s, latest, caretakers, ops>>

Crash(w) ==
    /\ Faulty /\ ~At(w, "idle")
    /\ Disturb(Cut(w))
    /\ Stop(w)
    /\ UNCHANGED <<abandoned, app, channel, k8s, jobs, latest, caretakers, ops>>

\* The lease of a running row expired.
Recover(j) ==
    LET alive == \E w \in Workers : work[w].job = j /\ Owns(w) IN
    /\ jobs[j].status = "running"
    /\ IF alive THEN Faulty ELSE UNCHANGED faults
    /\ jobs' = [jobs EXCEPT ![j] = Retried(j)]
    /\ Disturb(Exhausted(j))
    /\ abandoned' = (abandoned \/ LastDelete(j))
    /\ UNCHANGED <<app, channel, k8s, latest, work, caretakers, ops>>

\* The renewer finds the lease gone and cancels the handler.
LeaseLost(w) ==
    /\ ~At(w, "idle") /\ ~Owns(w)
    /\ Disturb(Cut(w))
    /\ Stop(w)
    /\ UNCHANGED <<abandoned, app, channel, k8s, jobs, latest, caretakers, ops, faults>>

quiet == <<channel, latest, caretakers, ops, faults>>

------------------------------------------------------------------------------
\* Plausible mistakes in the operators below.

\* promoteIfChannelBound is left out at the end of an initialization.
PromoteNever(w) ==
    /\ work[w].pc \in {"promote", "resume"}
    /\ UNCHANGED app /\ Succeed(w)
    /\ UNCHANGED <<k8s, quiet, history>>

\* The status is recorded without scaling, as if there were no Deployment.
ScaleDownSkipped(w) ==
    /\ At(w, "scale0")
    /\ Goto(w, "stopped")
    /\ UNCHANGED <<app, k8s, jobs, quiet, history>>

\* A deleted app is initialized like any other.
LoadInitDeleted(w) ==
    /\ At(w, "init")
    /\ IF app.status = "running"
       THEN Succeed(w)
       ELSE /\ work' = [work EXCEPT ![w].pc = IF app.status = "binding_waiting"
                                              THEN "resume" ELSE "pulling",
                                    ![w].at = app.status, ![w].ver = app.version]
            /\ UNCHANGED jobs
    /\ UNCHANGED <<app, k8s, quiet, history>>

------------------------------------------------------------------------------
\* app_initialize

\* GetApp: nothing to do for a deleted or running app; one that waits for its
\* channel may only have to be promoted.  The version is read here.
LoadInit(w) ==
    /\ At(w, "init")
    /\ IF app.deleted \/ app.status = "running"
       THEN Succeed(w)
       ELSE /\ work' = [work EXCEPT ![w].pc = IF app.status = "binding_waiting"
                                              THEN "resume" ELSE "pulling",
                                    ![w].at = app.status, ![w].ver = app.version]
            /\ UNCHANGED jobs
    /\ UNCHANGED <<app, k8s, quiet, history>>

AfterPhase == [pulling |-> "preparing", preparing |-> "creating", creating |-> "ensure",
               starting |-> "wait", binding_waiting |-> "stamp"]

\* The transition is judged by the copy and written over whatever the row holds.
\* phaseStart also marks the phase.
TransitionTo(w) ==
    LET at == work[w].at
        to == work[w].pc IN
    /\ to \in DOMAIN AfterPhase
    /\ IF at = to \/ <<at, to>> \in AppTransitions
       THEN /\ app' = [app EXCEPT !.status = IF at = to THEN @ ELSE to,
                                  !.phase = IF to = "starting" THEN "down" ELSE @]
            /\ work' = [work EXCEPT ![w].pc = AfterPhase[to],
                                    ![w].at = IF at = to THEN @ ELSE to]
            /\ UNCHANGED <<jobs, history>>
       ELSE MarkFailed(w)
    /\ UNCHANGED <<k8s, quiet>>

PhaseCreate(w) ==
    /\ At(w, "ensure")
    /\ EnsureApp(work[w].ver)
    /\ Goto(w, "starting")
    /\ UNCHANGED <<app, jobs, quiet, history>>

\* Until the pod is ready; a bad pod or the timeout ends the wait with an error.
WaitReady(w) ==
    /\ At(w, "wait")
    /\ \/ Observed = "ready" /\ Goto(w, "binding_waiting") /\ UNCHANGED <<app, jobs, history>>
       \/ Observed # "ready" /\ MarkFailed(w)
    /\ UNCHANGED <<k8s, quiet>>

StampApplied(w) ==
    /\ At(w, "stamp")
    /\ app' = [app EXCEPT !.phase = "ready", !.applied = work[w].ver]
    /\ Goto(w, "promote")
    /\ UNCHANGED <<k8s, jobs, quiet, history>>

PromoteIfChannelBound(w) ==
    /\ work[w].pc \in {"promote", "resume"}
    /\ IF work[w].at = "binding_waiting" /\ binding = "bound"
       THEN SetStatus("running") ELSE UNCHANGED app
    /\ Succeed(w)
    /\ UNCHANGED <<k8s, quiet, history>>

Initialize(w) == \/ LoadInit(w) \/ TransitionTo(w) \/ PhaseCreate(w) \/ WaitReady(w)
                 \/ StampApplied(w) \/ PromoteIfChannelBound(w)

------------------------------------------------------------------------------
\* app_start_container and app_stop_container

\* loadApp refuses a deleted app, the status one without a Deployment.
LoadStart(w) ==
    /\ At(w, "start")
    /\ IF app.deleted \/ (k8s.replicas = -1 /\ k8s.pod = "none")
       THEN HandlerError(w)
       ELSE Goto(w, "scale1") /\ UNCHANGED <<jobs, history>>
    /\ UNCHANGED <<app, k8s, quiet>>

ScaleUp(w) ==
    /\ At(w, "scale1")
    /\ app' = [app EXCEPT !.phase = "down"]
    /\ IF k8s.replicas = -1
       THEN HandlerError(w) /\ UNCHANGED k8s
       ELSE Scale(1) /\ Goto(w, "started") /\ UNCHANGED <<jobs, history>>
    /\ UNCHANGED quiet

LoadStop(w) ==
    /\ At(w, "stop")
    /\ IF app.deleted
       THEN HandlerError(w) ELSE Goto(w, "scale0") /\ UNCHANGED <<jobs, history>>
    /\ UNCHANGED <<app, k8s, quiet>>

ScaleDown(w) ==
    /\ At(w, "scale0")
    /\ IF k8s.replicas = -1 THEN UNCHANGED k8s ELSE Scale(0)
    /\ Goto(w, "stopped")
    /\ UNCHANGED <<app, jobs, quiet, history>>

\* Both end with the status, whatever it is by then.
RecordStatus(w) ==
    /\ work[w].pc \in {"started", "stopped"}
    /\ SetStatus(IF At(w, "started") THEN "running" ELSE "stopped")
    /\ Succeed(w)
    /\ UNCHANGED <<k8s, quiet, history>>

StartStop(w) == LoadStart(w) \/ ScaleUp(w) \/ LoadStop(w) \/ ScaleDown(w) \/ RecordStatus(w)

------------------------------------------------------------------------------
\* app_restart_container

\* An image other than the one applied last goes through a new initialization.
LoadRestart(w) ==
    LET new == app.applied = 0 \/ Image[app.version] # Image[app.applied] IN
    /\ At(w, "restart")
    /\ IF app.deleted
       THEN HandlerError(w)
       ELSE /\ work' = [work EXCEPT ![w].pc = IF new THEN "update" ELSE "shut",
                                    ![w].ver = app.version]
            /\ Disturb(k8s.replicas = 0)
            /\ UNCHANGED <<abandoned, jobs>>
    /\ UNCHANGED <<app, k8s, quiet>>

RestartImage(w) ==
    /\ At(w, "update")
    /\ IF k8s.replicas = -1
       THEN HandlerError(w) /\ UNCHANGED k8s
       ELSE UpdateImage(work[w].ver) /\ Goto(w, "repull") /\ UNCHANGED <<jobs, history>>
    /\ UNCHANGED <<app, quiet>>

RestartRepull(w) ==
    /\ At(w, "repull")
    /\ SetStatus("pulling") /\ Goto(w, "enqueue")
    /\ UNCHANGED <<k8s, jobs, quiet, history>>

RestartEnqueue(w) ==
    /\ At(w, "enqueue")
    /\ Succession(w, "init")
    /\ UNCHANGED <<app, k8s, channel, caretakers, ops, faults, history>>

ShutGate(w) ==
    /\ At(w, "shut")
    /\ app' = [app EXCEPT !.phase = "down"] /\ Goto(w, "rollout")
    /\ UNCHANGED <<k8s, jobs, quiet, history>>

RestartRollout(w) ==
    /\ At(w, "rollout")
    /\ IF k8s.replicas = -1
       THEN HandlerError(w) /\ UNCHANGED k8s
       ELSE RolloutRestart /\ Goto(w, "restarted") /\ UNCHANGED <<jobs, history>>
    /\ UNCHANGED <<app, quiet>>

RestartStatus(w) ==
    /\ At(w, "restarted")
    /\ SetStatus("running") /\ Goto(w, "applied")
    /\ UNCHANGED <<k8s, jobs, quiet, history>>

RestartApplied(w) ==
    /\ At(w, "applied")
    /\ app' = [app EXCEPT !.applied = work[w].ver]
    /\ Succeed(w)
    /\ UNCHANGED <<k8s, quiet, history>>

RestartApp(w) == \/ LoadRestart(w) \/ RestartImage(w) \/ RestartRepull(w) \/ RestartEnqueue(w)
                 \/ ShutGate(w) \/ RestartRollout(w) \/ RestartStatus(w) \/ RestartApplied(w)

------------------------------------------------------------------------------
\* app_delete: the cluster first, the row last.

DeleteCluster(w) ==
    /\ At(w, "delete")
    /\ DeleteResources /\ Goto(w, "archive")
    /\ UNCHANGED <<app, jobs, quiet, history>>

SoftDelete(w) ==
    /\ At(w, "archive")
    /\ app' = IF app.deleted THEN app
              ELSE [app EXCEPT !.deleted = TRUE, !.status = "deleted"]
    /\ Succeed(w)
    /\ UNCHANGED <<k8s, quiet, history>>

DeleteApp(w) == DeleteCluster(w) \/ SoftDelete(w)
=============================================================================
