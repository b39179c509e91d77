---------------------------- MODULE RolloutGuard ----------------------------
(***************************************************************************)
(* The two rollouts that restart AICC apps one at a time: a new model       *)
(* (aicc_model_rollout, one job per change of an organization's             *)
(* configuration) and a new platform prompt (aicc_platform_prompt_rollout,  *)
(* one job at a time, with a successor).  Both persist a marker in their    *)
(* job's payload before they touch an app, hold the app's row in            *)
(* aicc_rollout_app_owners meanwhile, and shut the app's gate               *)
(* (apps.runtime_phase) until the restarted Deployment is ready.            *)
(*                                                                          *)
(* One organization whose agents stay active; a job's number is its place   *)
(* in the order (created_at, id).  The job runtime is reduced to what the   *)
(* handlers see of it: claim, lease, retry, deferral and recovery           *)
(* (module JobRuntime has them in full).                                    *)
(***************************************************************************)
EXTENDS Integers, Sequences, FiniteSets

CONSTANTS
    Apps,         \* the agents, each with its app
    Workers,      \* worker goroutines, of all replicas
    None,         \* no app, no worker
    AppOrder,     \* ORDER BY aa.id: an injection from Apps to Nat
    MaxAttempts,  \* jobs.max_attempts, 20 in the code
    MaxRevision,  \* bound: changes of the model
    MaxVersion,   \* bound: platform prompts deployed
    MaxJobs,      \* bound: jobs a behaviour of the instance creates
    MaxFaults     \* bound: failed steps, crashes, lost stamps and races

ASSUME ConstantsAssumption ==
    /\ None \notin Apps \cup Workers
    /\ AppOrder \in [Apps -> Nat]
    /\ \A a, b \in Apps : AppOrder[a] = AppOrder[b] => a = b
    /\ MaxAttempts \in Nat \ {0}
    /\ {MaxRevision, MaxVersion, MaxJobs, MaxFaults} \subseteq Nat

VARIABLES
    revision,  \* organization_aicc_configs.revision
    build,     \* the platform prompt each worker's process was built with
    starting,  \* the workers whose process is starting up
    jobs,      \* the rollout rows of the jobs table, in order of creation
    owner,     \* aicc_rollout_app_owners: the job, 0 for no row
    phase,     \* apps.runtime_phase
    applied,   \* aicc_agents.applied_config_revision
    prompt,    \* apps.applied_platform_prompt_hash, as a version
    spec,      \* Deployment generation
    boot,      \* the pods that bootstrapped last: generation and revision
    pod,       \* the pods that are all available: generation and revision
    work,      \* what each worker goroutine is doing, with its copy of the payload
    seen,      \* the status the reconciler has read of an app, not yet written
    faults,
    raced      \* history: two workers may have run one job at once

config  == <<revision, build, starting>>
cluster == <<spec, boot, pod, prompt>>
bounds  == <<faults, raced>>
vars == <<config, jobs, owner, phase, applied, cluster, work, seen, bounds>>

Kind   == {"model", "prompt"}
Status == {"pending", "running", "succeeded", "failed"}
Step   == {"idle", "claim", "loop", "elect", "list", "own", "readOwner", "mark", "shut",
           "restart", "record", "wait", "verify", "stamp", "open", "clear",
           "free", "before", "finish", "after"}

Marker == [app : Apps \cup {None}, gen : Nat, rev : Nat]
NoMarker == [app |-> None, gen |-> 0, rev |-> 0]
Idle == [pc |-> "idle", job |-> 0, attempts |-> 0, marker |-> NoMarker,
         pick |-> None, rev |-> 0]

Active(j) == jobs[j].status \in {"pending", "running"}
Rows      == DOMAIN jobs

JobRow == [kind : Kind, status : Status, target : Nat, marker : Marker,
           attempts : 0..MaxAttempts, lease : Workers \cup {None}]
WorkRow == [pc : Step, job : Nat, attempts : Nat, marker : Marker,
            pick : Apps \cup {None}, rev : Nat]

JobsType ==
    /\ jobs \in Seq(JobRow)
    /\ \A j \in DOMAIN jobs : jobs[j].lease # None <=> jobs[j].status = "running"

WorkType ==
    /\ work \in [Workers -> WorkRow]
    /\ \A w \in Workers : /\ work[w].job \in 0..Len(jobs)
                          /\ work[w].pc = "idle" <=> work[w].job = 0

EnvType ==
    /\ revision \in Nat /\ build \in [Workers -> Nat] /\ starting \subseteq Workers
    /\ owner \in [Apps -> Nat]
    /\ phase \in [Apps -> {"ready", "restarting"}]
    /\ applied \in [Apps -> Nat] /\ prompt \in [Apps -> Nat]
    /\ spec \in [Apps -> Nat]
    /\ boot \in [Apps -> [gen : Nat, rev : Nat]]
    /\ pod \in [Apps -> [gen : Nat, rev : Nat]]
    /\ seen \in [app : Apps \cup {None}, ready : BOOLEAN]
    /\ faults \in 0..MaxFaults /\ raced \in BOOLEAN

TypeOK == JobsType /\ WorkType /\ EnvType

\* A manager with a new platform prompt starts; every app runs what it was
\* created with.
Init ==
    /\ revision = 1
    /\ build = [w \in Workers |-> 1] /\ starting = Workers
    /\ jobs = << >>
    /\ owner = [a \in Apps |-> 0]
    /\ phase = [a \in Apps |-> "ready"]
    /\ applied = [a \in Apps |-> 1] /\ prompt = [a \in Apps |-> 0]
    /\ spec = [a \in Apps |-> 1]
    /\ boot = [a \in Apps |-> [gen |-> 1, rev |-> 1]] /\ pod = boot
    /\ work = [w \in Workers |-> Idle]
    /\ seen = [app |-> None, ready |-> FALSE]
    /\ faults = 0 /\ raced = FALSE

------------------------------------------------------------------------------
\* Jobs and their creation.

NewJob(kind, target) ==
    [kind |-> kind, status |-> "pending", target |-> target, marker |-> NoMarker,
     attempts |-> 0, lease |-> None]

\* The changed model bumps the revision and creates the job in one transaction,
\* under the lock on the configuration row.
UpdateAICCConfig ==
    /\ revision < MaxRevision
    /\ revision' = revision + 1
    /\ jobs' = Append(jobs, NewJob("model", revision + 1))
    /\ UNCHANGED <<build, starting, owner, phase, applied, cluster, work, seen,
                   bounds>>

\* The coordinator's transaction on w's process, serialized by the guard row: a
\* job for the prompt of this process, when no other prompt job is active and some
\* app has another prompt.
EnqueueIfNeeded(w, exclude) ==
    jobs' = IF \/ \E j \in Rows \ {exclude} : jobs[j].kind = "prompt" /\ Active(j)
               \/ \A a \in Apps : prompt[a] = build[w]
            THEN jobs
            ELSE Append(jobs, NewJob("prompt", build[w]))

\* The coordinator runs before the workers of a process start.
StartUp(w) ==
    /\ w \in starting /\ starting' = starting \ {w}
    /\ EnqueueIfNeeded(w, 0)
    /\ UNCHANGED <<revision, build, owner, phase, applied, cluster, work, seen,
                   bounds>>

------------------------------------------------------------------------------
\* Plausible mistakes in the operators below.

\* The status is of the generation before the restart.
RolledOutStale(a, gen) == pod[a].gen = boot[a].gen

\* The first updated pod ends the wait.
RolledOutEarly(a, gen) == boot[a].gen >= gen

\* ON DUPLICATE KEY replaces the owner.
ClaimOwnershipAlways(w) ==
    LET a == IF work[w].marker = NoMarker THEN work[w].pick ELSE work[w].marker.app IN
    /\ work[w].pc = "own"
    /\ owner' = [owner EXCEPT ![a] = work[w].job]
    /\ work' = [work EXCEPT ![w].pc = "readOwner"]
    /\ UNCHANGED <<config, jobs, phase, applied, cluster, seen, bounds>>

\* The reconciler opens the gate of every ready app.
WritePhaseUnguarded ==
    /\ seen.app # None
    /\ phase' = [phase EXCEPT ![seen.app] = IF seen.ready THEN "ready" ELSE "restarting"]
    /\ seen' = [app |-> None, ready |-> FALSE]
    /\ UNCHANGED <<config, jobs, owner, applied, cluster, work, bounds>>

\* The successor is not created while the job itself is active.
BeforeSuccessCountsItself(w) ==
    /\ work[w].pc = "before"
    /\ EnqueueIfNeeded(w, 0)
    /\ work' = [work EXCEPT ![w].pc = "finish"]
    /\ UNCHANGED <<config, owner, phase, applied, cluster, seen, bounds>>

------------------------------------------------------------------------------
\* The job runtime under the handlers.

Faulty == faults < MaxFaults /\ faults' = faults + 1

At(w, pc)   == work[w].pc = pc
Goto(w, pc) == work' = [work EXCEPT ![w].pc = pc]
Stop(w)     == work' = [work EXCEPT ![w] = Idle]

\* The condition of every UPDATE that a worker makes to its row.
Owns(w) == LET j == work[w].job IN
    j # 0 /\ jobs[j].status = "running" /\ jobs[j].lease = w

\* processJobID reads the row, its payload and attempts, before it claims it.
\* Another worker's attempt may fit in between: the claim then runs with an old
\* copy (a race).
GetJob(w, j) ==
    /\ At(w, "idle") /\ w \notin starting /\ jobs[j].status = "pending"
    /\ work' = [work EXCEPT ![w] = [pc |-> "claim", job |-> j, pick |-> None, rev |-> 0,
                  attempts |-> jobs[j].attempts, marker |-> jobs[j].marker]]
    /\ UNCHANGED <<config, jobs, owner, phase, applied, cluster, seen, bounds>>

MarkJobRunning(w) ==
    LET j == work[w].job IN
    /\ At(w, "claim")
    /\ IF jobs[j].status = "pending" /\ jobs[j].attempts < MaxAttempts
       THEN /\ IF /\ jobs[j].marker = work[w].marker
                  /\ jobs[j].attempts = work[w].attempts
               THEN UNCHANGED bounds
               ELSE Faulty /\ raced' = TRUE
            /\ jobs' = [jobs EXCEPT ![j].status = "running", ![j].lease = w,
                                    ![j].attempts = @ + 1]
            /\ work' = [work EXCEPT ![w].pc = "loop", ![w].attempts = @ + 1]
       ELSE UNCHANGED <<jobs, bounds>> /\ Stop(w)
    /\ UNCHANGED <<config, owner, phase, applied, cluster, seen>>

\* The deferral gives the attempt back.
DeferJob(w) ==
    /\ jobs' = IF Owns(w)
               THEN [jobs EXCEPT ![work[w].job].status = "pending",
                                 ![work[w].job].lease = None,
                                 ![work[w].job].attempts = IF @ > 0 THEN @ - 1 ELSE 0]
               ELSE jobs
    /\ Stop(w)

\* A step returned an error: retry, or fail for good and run the prompt job's
\* after-failure hook.  A worker without the lease changes nothing.
HandlerError(w) ==
    LET j == work[w].job
        last == work[w].attempts >= MaxAttempts IN
    /\ jobs' = IF Owns(w)
               THEN [jobs EXCEPT ![j].status = IF last THEN "failed" ELSE "pending",
                                 ![j].lease = None]
               ELSE jobs
    /\ IF Owns(w) /\ last /\ jobs[j].kind = "prompt" THEN Goto(w, "after") ELSE Stop(w)

\* Any call of a handler may fail, the notification of the successor too; the
\* write that ends the attempt may fail in its turn.
Fault(w) ==
    /\ Faulty
    /\ work[w].pc \notin {"idle", "claim", "after"}
    /\ \/ (At(w, "finish") => jobs[work[w].job].kind = "prompt") /\ HandlerError(w)
       \/ UNCHANGED jobs /\ Stop(w)
    /\ UNCHANGED <<config, owner, phase, applied, cluster, seen, raced>>

\* The process dies and Kubernetes starts it again; a rolling upgrade replaces it
\* by one that carries the next prompt.
Restart(w) ==
    /\ Stop(w) /\ starting' = starting \cup {w}
    /\ UNCHANGED <<revision, jobs, owner, phase, applied, cluster, seen, raced>>

Crash(w) ==
    /\ Faulty
    /\ ~At(w, "idle")
    /\ Restart(w) /\ UNCHANGED build

Upgrade(w) ==
    /\ build[w] < MaxVersion /\ build' = [build EXCEPT ![w] = @ + 1]
    /\ Restart(w) /\ UNCHANGED faults

\* The lease of a running row expired; the recovery takes the row back.
Recover(j) ==
    LET alive == \E w \in Workers : work[w].job = j /\ Owns(w) /\ ~At(w, "claim") IN
    /\ jobs[j].status = "running"
    /\ IF alive THEN Faulty /\ raced' = TRUE ELSE UNCHANGED bounds
    /\ jobs' = [jobs EXCEPT ![j].lease = None,
                  ![j].status = IF jobs[j].attempts >= MaxAttempts
                                THEN "failed" ELSE "pending"]
    /\ UNCHANGED <<config, owner, phase, applied, cluster, work, seen>>

\* The renewer finds the lease gone and cancels the handler.
LeaseLost(w) ==
    /\ work[w].pc \notin {"idle", "claim", "after"} /\ ~Owns(w)
    /\ Stop(w)
    /\ UNCHANGED <<config, jobs, owner, phase, applied, cluster, seen, bounds>>

\* The hook of a prompt job that failed for good.
AfterFailure(w) ==
    /\ At(w, "after")
    /\ \/ EnqueueIfNeeded(w, 0) /\ UNCHANGED faults
       \/ Faulty /\ UNCHANGED jobs
    /\ Stop(w)
    /\ UNCHANGED <<config, owner, phase, applied, cluster, seen, raced>>

------------------------------------------------------------------------------
\* The handlers' loop, one action per statement that reads or writes what others
\* share.

\* Persisting the payload needs the lease; without it the handler stops.
PersistPayload(w, marker, pc) ==
    IF Owns(w)
    THEN /\ jobs' = [jobs EXCEPT ![work[w].job].marker = marker]
         /\ work' = [work EXCEPT ![w].pc = pc, ![w].marker = marker]
    ELSE UNCHANGED jobs /\ Stop(w)

\* Without a marker the loop first drops the owner rows an earlier attempt left;
\* more than one is an error.
ReleaseByOwner(w) ==
    LET mine == {a \in Apps : owner[a] = work[w].job} IN
    /\ At(w, "loop")
    /\ IF work[w].marker # NoMarker
       THEN UNCHANGED <<owner, jobs>> /\ Goto(w, "elect")
       ELSE /\ owner' = [a \in Apps |-> IF a \in mine THEN 0 ELSE owner[a]]
            /\ IF Cardinality(mine) > 1
               THEN HandlerError(w)
               ELSE UNCHANGED jobs /\ Goto(w, "elect")
    /\ UNCHANGED <<config, phase, applied, cluster, seen, bounds>>

\* The leader of a kind is the oldest active job; the others are deferred.
Leader(kind) ==
    LET active == {j \in Rows : jobs[j].kind = kind /\ Active(j)} IN
    CHOOSE j \in active : \A i \in active : j <= i

Elect(w) ==
    LET j == work[w].job
        kind == jobs[j].kind IN
    /\ At(w, "elect")
    /\ IF \A i \in Rows : jobs[i].kind = kind => ~Active(i)
       THEN HandlerError(w)
       ELSE IF Leader(kind) # j
       THEN DeferJob(w)
       ELSE UNCHANGED jobs
            /\ Goto(w, IF work[w].marker = NoMarker THEN "list" ELSE "own")
    /\ UNCHANGED <<config, owner, phase, applied, cluster, seen, bounds>>

\* One app that is behind, the lowest agent id first; none ends the job.
Behind(j) ==
    {a \in Apps : IF jobs[j].kind = "model" THEN applied[a] < revision
                  ELSE prompt[a] # jobs[j].target}

ListPending(w) ==
    LET behind == Behind(work[w].job) IN
    /\ At(w, "list")
    /\ IF behind = {}
       THEN Goto(w, IF jobs[work[w].job].kind = "prompt" THEN "before" ELSE "finish")
       ELSE \E a \in behind :
              /\ \A b \in behind : AppOrder[a] <= AppOrder[b]
              /\ work' = [work EXCEPT ![w].pc = "own", ![w].pick = a, ![w].rev = revision]
    /\ UNCHANGED <<config, jobs, owner, phase, applied, cluster, seen, bounds>>

\* The app in hand: the marked one, or the one just listed.
Target(w) == IF work[w].marker = NoMarker THEN work[w].pick ELSE work[w].marker.app

\* INSERT ... ON DUPLICATE KEY: the row changes hands only when its job ended.
ClaimOwnership(w) ==
    LET a == Target(w) IN
    /\ At(w, "own")
    /\ owner' = [owner EXCEPT ![a] =
                   IF @ # 0 /\ Active(@) THEN @ ELSE work[w].job]
    /\ Goto(w, "readOwner")
    /\ UNCHANGED <<config, jobs, phase, applied, cluster, seen, bounds>>

GetOwnership(w) ==
    LET a == Target(w) IN
    /\ At(w, "readOwner")
    /\ IF owner[a] = 0
       THEN HandlerError(w)
       ELSE IF owner[a] # work[w].job
       THEN DeferJob(w)
       ELSE UNCHANGED jobs
            /\ Goto(w, IF work[w].marker = NoMarker THEN "mark"
                       ELSE IF work[w].marker.gen = 0 THEN "shut" ELSE "wait")
    /\ UNCHANGED <<config, owner, phase, applied, cluster, seen, bounds>>

PersistMarker(w) ==
    /\ At(w, "mark")
    /\ PersistPayload(w, [app |-> work[w].pick, gen |-> 0, rev |-> work[w].rev], "shut")
    /\ UNCHANGED <<config, owner, phase, applied, cluster, seen, bounds>>

ShutGate(w) ==
    /\ At(w, "shut")
    /\ phase' = [phase EXCEPT ![work[w].marker.app] = "restarting"]
    /\ Goto(w, "restart")
    /\ UNCHANGED <<config, jobs, owner, applied, cluster, seen, bounds>>

RolloutRestart(w) ==
    LET a == work[w].marker.app IN
    /\ At(w, "restart")
    /\ spec' = [spec EXCEPT ![a] = @ + 1]
    /\ work' = [work EXCEPT ![w].pc = "record", ![w].marker.gen = spec[a] + 1]
    /\ UNCHANGED <<config, jobs, owner, phase, applied, boot, pod, prompt, seen,
                   bounds>>

PersistGeneration(w) ==
    /\ At(w, "record")
    /\ PersistPayload(w, work[w].marker, "wait")
    /\ UNCHANGED <<config, owner, phase, applied, cluster, seen, bounds>>

\* Only a fully available current generation ends the wait.  A model job then
\* stamps the revision, a prompt job verifies what the bootstrap has written.
RolledOut(a, gen) == spec[a] >= gen /\ pod[a].gen = spec[a]

WaitRolloutReady(w) ==
    /\ At(w, "wait") /\ RolledOut(work[w].marker.app, work[w].marker.gen)
    /\ Goto(w, IF jobs[work[w].job].kind = "model" THEN "stamp" ELSE "verify")
    /\ UNCHANGED <<config, jobs, owner, phase, applied, cluster, seen, bounds>>

StampRevision(w) ==
    LET m == work[w].marker IN
    /\ At(w, "stamp")
    /\ applied' = [applied EXCEPT ![m.app] = IF @ < m.rev THEN m.rev ELSE @]
    /\ Goto(w, "open")
    /\ UNCHANGED <<config, jobs, owner, phase, cluster, seen, bounds>>

VerifyPrompt(w) ==
    /\ At(w, "verify")
    /\ IF prompt[work[w].marker.app] = jobs[work[w].job].target
       THEN UNCHANGED jobs /\ Goto(w, "open")
       ELSE HandlerError(w)
    /\ UNCHANGED <<config, owner, phase, applied, cluster, seen, bounds>>

\* The gate opens only while the row names this job.
OpenGate(w) ==
    LET a == work[w].marker.app IN
    /\ At(w, "open")
    /\ IF owner[a] = work[w].job
       THEN /\ phase' = [phase EXCEPT ![a] = "ready"]
            /\ UNCHANGED jobs /\ Goto(w, "clear")
       ELSE UNCHANGED phase /\ HandlerError(w)
    /\ UNCHANGED <<config, owner, applied, cluster, seen, bounds>>

ClearMarker(w) ==
    /\ At(w, "clear")
    /\ IF Owns(w)
       THEN /\ jobs' = [jobs EXCEPT ![work[w].job].marker = NoMarker]
            /\ work' = [work EXCEPT ![w].pc = "free", ![w].marker = NoMarker,
                                    ![w].pick = work[w].marker.app]
       ELSE UNCHANGED jobs /\ Stop(w)
    /\ UNCHANGED <<config, owner, phase, applied, cluster, seen, bounds>>

ReleaseOwnership(w) ==
    LET a == work[w].pick IN
    /\ At(w, "free")
    /\ owner' = [owner EXCEPT ![a] = IF @ = work[w].job THEN 0 ELSE @]
    /\ work' = [work EXCEPT ![w].pc = "loop", ![w].pick = None, ![w].rev = 0]
    /\ UNCHANGED <<config, jobs, phase, applied, cluster, seen, bounds>>

\* Before a prompt job succeeds it makes sure of a successor.
BeforeSuccess(w) ==
    /\ At(w, "before")
    /\ EnqueueIfNeeded(w, work[w].job)
    /\ Goto(w, "finish")
    /\ UNCHANGED <<config, owner, phase, applied, cluster, seen, bounds>>

MarkJobSucceeded(w) ==
    /\ At(w, "finish")
    /\ jobs' = IF Owns(w)
               THEN [jobs EXCEPT ![work[w].job].status = "succeeded",
                                 ![work[w].job].lease = None]
               ELSE jobs
    /\ Stop(w)
    /\ UNCHANGED <<config, owner, phase, applied, cluster, seen, bounds>>

Handle(w) ==
    \/ MarkJobRunning(w) \/ ReleaseByOwner(w) \/ Elect(w) \/ ListPending(w)
    \/ ClaimOwnership(w) \/ GetOwnership(w) \/ PersistMarker(w) \/ ShutGate(w)
    \/ RolloutRestart(w) \/ PersistGeneration(w) \/ WaitRolloutReady(w)
    \/ StampRevision(w) \/ VerifyPrompt(w) \/ OpenGate(w) \/ ClearMarker(w)
    \/ ReleaseOwnership(w) \/ BeforeSuccess(w) \/ MarkJobSucceeded(w)
    \/ AfterFailure(w)

------------------------------------------------------------------------------
\* Kubernetes and the reconciler.

\* A pod of the current generation fetches its configuration from some replica,
\* which records the prompt it served, unless that write fails.
Bootstrap(a) ==
    /\ boot[a].gen < spec[a]
    /\ boot' = [boot EXCEPT ![a] = [gen |-> spec[a], rev |-> revision]]
    /\ \/ /\ \E w \in Workers : prompt' = [prompt EXCEPT ![a] = build[w]]
          /\ UNCHANGED faults
       \/ Faulty /\ UNCHANGED prompt
    /\ UNCHANGED <<config, jobs, owner, phase, applied, spec, pod, work, seen, raced>>

BecomeAvailable(a) ==
    /\ pod[a].gen < boot[a].gen /\ boot[a].gen = spec[a]
    /\ pod' = [pod EXCEPT ![a] = boot[a]]
    /\ UNCHANGED <<config, jobs, owner, phase, applied, spec, boot, prompt, work,
                   seen, bounds>>

\* The status is that of some pod: an old one is ready during a rolling update.
Observe(a) ==
    /\ seen.app = None
    /\ \E ready \in IF pod[a].gen = spec[a] THEN {TRUE} ELSE BOOLEAN :
         seen' = [app |-> a, ready |-> ready]
    /\ UNCHANGED <<config, jobs, owner, phase, applied, cluster, work, bounds>>

WritePhase ==
    LET a == seen.app IN
    /\ a # None
    /\ phase' = [phase EXCEPT ![a] =
                   IF ~seen.ready THEN "restarting"
                   ELSE IF owner[a] # 0 /\ Active(owner[a]) THEN @ ELSE "ready"]
    /\ seen' = [app |-> None, ready |-> FALSE]
    /\ UNCHANGED <<config, jobs, owner, applied, cluster, work, bounds>>

Next ==
    \/ UpdateAICCConfig
    \/ \E w \in Workers, j \in Rows : GetJob(w, j)
    \/ \E w \in Workers : 
          StartUp(w) \/ Handle(w) \/ Fault(w) \/ Crash(w) \/ Upgrade(w) \/ LeaseLost(w)
    \/ \E j \in Rows : Recover(j)
    \/ \E a \in Apps : Bootstrap(a) \/ BecomeAvailable(a) \/ Observe(a)
    \/ WritePhase

Spec == Init /\ [][Next]_vars

\* Workers poll, the scheduler signals every pending row again and again, the
\* recovery and the reconciler tick, and Kubernetes makes progress.
FairSpec ==
    /\ Spec
    /\ WF_vars(WritePhase)
    /\ \A w \in Workers : WF_vars(StartUp(w)) /\ WF_vars(Handle(w))
    /\ \A j \in 1..MaxJobs : /\ SF_vars(j \in Rows /\ \E w \in Workers : GetJob(w, j))
                             /\ WF_vars(j \in Rows /\ Recover(j))
    /\ \A a \in Apps : WF_vars(Bootstrap(a)) /\ WF_vars(BecomeAvailable(a))
                       /\ SF_vars(Observe(a))

------------------------------------------------------------------------------
\* Properties.

\* applied_config_revision "is stamped once the Deployment is ready": an agent's
\* applied revision is never ahead of what all its pods booted with, whoever
\* else ran the same job meanwhile.
AppliedNotAhead == \A a \in Apps : applied[a] <= pod[a].rev

\* A model job ends when no agent is behind: its success means that every app
\* runs its revision or a later one.
SuccessIsComplete ==
    \A j \in Rows : jobs[j].kind = "model" /\ jobs[j].status = "succeeded"
                    => \A a \in Apps : pod[a].rev >= jobs[j].target

\* While one worker at a time runs a job, the marker in its payload stands for
\* the app that the job holds in aicc_rollout_app_owners, across failed steps,
\* crashes and attempts.
MarkerOwned ==
    raced \/ \A j \in Rows : Active(j) /\ jobs[j].marker # NoMarker
                             => owner[jobs[j].marker.app] = j

\* "Whichever side effect the process crashes after, the reconciler knows from
\* the active job that an old Ready pod must not open the gate"
\* (aicc_model_rollout.go:138): visitors are kept out from a recorded restart
\* until its pods are available.
GateShut ==
    \A j \in Rows : LET m == jobs[j].marker IN
        Active(j) /\ m # NoMarker /\ m.gen # 0 /\ pod[m.app].gen < m.gen
        => phase[m.app] = "restarting"

\* The code ensures it while one worker at a time runs a job.
GateShutUnlessRaced == raced \/ GateShut

\* Why: generations grow with revisions, a marker's revision is what the pods of
\* its generation and of later ones boot with or an older one, and a worker has
\* seen such pods before it stamps.
Generations ==
    \A a \in Apps : /\ pod[a].gen <= boot[a].gen /\ boot[a].gen <= spec[a]
                     /\ pod[a].rev <= boot[a].rev /\ boot[a].rev <= revision

Sound(m) ==
    /\ m.rev <= revision
    /\ m # NoMarker => m.app \in Apps
    /\ m.gen # 0 => /\ boot[m.app].gen >= m.gen => boot[m.app].rev >= m.rev
                    /\ pod[m.app].gen >= m.gen => pod[m.app].rev >= m.rev

Reached(j) == jobs[j].kind = "model" => \A a \in Apps : applied[a] >= jobs[j].target

RowSound(j) ==
    /\ Sound(jobs[j].marker)
    /\ jobs[j].kind = "model" => jobs[j].target <= revision
    /\ jobs[j].status = "succeeded" => Reached(j)

Needs(w, pc) ==
    /\ pc \in {"own", "readOwner"} => Target(w) \in Apps
    /\ pc = "mark" => work[w].pick \in Apps
    /\ pc \in {"shut", "restart"} => work[w].marker.app \in Apps
    /\ pc \in {"record", "wait", "verify", "stamp", "open", "clear"}
           => work[w].marker.gen # 0
    /\ pc = "stamp" => pod[work[w].marker.app].gen >= work[w].marker.gen
    /\ pc \in {"before", "finish"} => Reached(work[w].job)

StepSound(w) ==
    /\ work[w].rev <= revision /\ Sound(work[w].marker)
    /\ Needs(w, work[w].pc)

IInv ==
    /\ TypeOK /\ Generations /\ AppliedNotAhead
    /\ \A j \in Rows : RowSound(j)
    /\ \A w \in Workers : StepSound(w)

\* Why markers are owned and gates stay shut: a worker in its handler holds the
\* lease of its job, and its copy of the marker is the row's, but between a restart
\* and the write that records it.
Handling(w) == work[w].pc \notin {"idle", "claim", "after"}

CopyKept(w) ==
    LET m == jobs[work[w].job].marker IN
    IF At(w, "record") THEN m # NoMarker /\ m.app = work[w].marker.app
    ELSE m = work[w].marker

StepOwned(w) ==
    LET m == work[w].marker IN
    Handling(w) =>
        /\ Owns(w) /\ CopyKept(w)
        /\ At(w, "mark") => owner[work[w].pick] = work[w].job
        /\ At(w, "free") => m = NoMarker
        /\ work[w].pc \in {"restart", "record"} => phase[m.app] = "restarting"
        /\ work[w].pc \in {"verify", "stamp", "open", "clear"} => pod[m.app].gen >= m.gen

RowOwned(j) ==
    LET m == jobs[j].marker IN
    Active(j) /\ m # NoMarker =>
        /\ owner[m.app] = j
        /\ m.gen # 0 /\ pod[m.app].gen < m.gen => phase[m.app] = "restarting"

Owned ==
    /\ \A w \in Workers : StepOwned(w)
    /\ \A j \in Rows : RowOwned(j)

OwnInv == raced \/ Owned

\* Once the replicas agree on the prompt, every app ends up with it and with the
\* latest model, and open: the successor jobs and the start-up leave none behind.
EveryAppCatchesUp ==
    <>[](\A a \in Apps : /\ applied[a] = revision /\ phase[a] = "ready"
                         /\ \/ \A w \in Workers : prompt[a] = build[w]
                            \/ \E v, w \in Workers : build[v] # build[w])
=============================================================================
