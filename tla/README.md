# Verification of oc-manager

oc-manager is the control plane of a multi-tenant service that runs one agent
("app", a Hermes pod in Kubernetes) per member of an organization, and
customer-service agents (AICC) that answer visitors. It is one Go program
(`src/cmd/server/main.go`), started in several replicas that share MySQL, Redis and a
Kubernetes cluster; a second, small one serves published sites.

This directory holds TLA+ modules of its core, the TLC configurations that check them
on small instances, and TLAPS proofs for every instance. Part 1 is the inventory of the
system, 2 maps modules to code, 3 lists the runs, 4 the proofs, 5 what was found, 6 what
is left and in which order.

## 1. The system

### Parts and how they interact

`main.go` runs, in one errgroup per replica: the HTTP server; a pool of four worker
goroutines polling a Redis queue every 200 ms; the scheduler (5 s) and the job recovery;
the AICC message loop; the stale-initialization reaper, the retention loop and the
site reaper; and five reconcilers that only run on the elected leader (app status, AICC
runtime upgrade, RAGFlow parse status, RAGFlow self-heal, skill updates).

Parts meet in three places:

- **MySQL rows** written by conditional UPDATEs: `jobs` (status, attempts, lease),
  `apps` (status, runtime phase), `aicc_message_tasks`, `aicc_rollout_app_owners`, ...
- **Redis**: a sorted set of job ids, which is only a *signal* (the row decides), locks
  with a TTL, counters of limiters and breakers.
- **Kubernetes**: Deployments are applied or restarted, and their status is read later;
  a new pod calls back (`bootstrap_service.go`) for its configuration.

| Component | State it keeps | Operations | Hard behaviour | What makes it correct |
|---|---|---|---|---|
| Job runtime (`worker/`, `scheduler/`, `redis/queue.go`, `jobs.sql`) | a row per job: status, attempts, run_after, lease owner/token/expiry; queue of ids | create, signal, reserve, claim, renew, succeed, retry, fail, defer, recover, requeue | handlers run on after their lease is gone; ids are removed before the claim; crashes | bounded attempts; one owner; only the owner decides; everything settles |
| Leader election (`leader_elector.go`, `dist_locker.go`, `reconciler.go`) | a lock with TTL, a flag per replica | acquire, refresh, release, gated ticks | slow calls, expiry, shutdown | one leader, one reconciler, always a leader again |
| AICC admission (`aicc_public_service.go`) | visitor messages, their tasks | send, retry | two row locks, a snapshot older than the lock, resends | limits, idempotency, no deadlock |
| AICC dispatch (`aicc_dispatcher.go`, `aicc_intent.go`, `message_dispatch_loop.go`) | tasks with lease and attempts, replies, intent of the session | lease, analyse, answer, fail, recover, re-analyse | expired leases, order in a session, one invitation | one answer, in order, in the end |
| AICC overload protection (`aicc_upstream_circuit.go`, limiters) | breaker, slots and rates in Redis | open, probe, acquire, release | half-open races, TTLs | slots bounded, breaker closes again |
| AICC rollouts (`aicc_model_rollout.go`, `aicc_platform_prompt_rollout.go`) | marker in the job's payload, owner row and gate of an app, applied revision and prompt | change the model, restart apps one at a time, verify, succeed with a successor | nine writes in four places per app, crashes, old pods that are still ready, two kinds of rollouts | nothing stamped before it runs, gate shut meanwhile, nothing left behind |
| App lifecycle (`app_initialize.go`, `app_runtime_ops.go`, `app_status_reconciler.go`, `reaper.go`) | status, phase, API key, applied version of an app | initialize, start, stop, restart, delete, reconcile, reap | jobs of one app that nothing serializes, and caretakers that write the same status | status as in the cluster, no app stuck, deleted goes down and stays down |
| Channels (`channel_login.go`, `channel_service.go`) | bindings, login sessions in Redis | begin, poll by a chain of jobs, bind, unbind | late polls, retries after half a success | a bound app does not wait for its channel |
| Web publishing (`webpublish/`, `web_publish_*.go`, `siteserver/`) | certificate configuration, sites with quota and expiry, a routing table | provision, renew, publish, extend, take down, reap, poll | renewals that fail or run twice, uploads that take minutes | live sites keep certificate and files, ended ones go dark |
| RAGFlow knowledge (`knowledge_*.go`, `industry_knowledge_service.go`, `ragflow_*.go`) | rows of datasets and documents, the same in RAGFlow, heal counters, quotas | create a dataset, upload, overwrite, delete, parse, refresh, heal | two stores without a transaction, calls of seconds, writes by id | nothing unmanaged in RAGFlow, `completed` is true, healing bounded in each window |
| Skills (`skill_*.go`, `custom_skill_service.go`) | library, installs, tickets | publish, install, update, process tickets | two operators | legal ticket moves |
| Organizations, billing, authentication, HTTP API, runtime data access, orchestration adapter, overview, settings, web console, images, deployment | mostly rows of one transaction, or none | CRUD, pass-through | little | see `PROJECT.json` for each |

`PROJECT.json` lists all 27 components with their sources and status, and 40
hazards at the lines where they bite.

### Modules of this directory

    JobStateMachine  <-refines-  JobRuntime        (jobs, queue, workers, recovery)
                                 LeaderElection    (lock, electors, gated reconcilers)
                                 AICCAdmission     (SendMessage until its commit)
    AICCConversation <-refines-  AICCDispatch      (from the task to the answer)
                                 RolloutGuard      (model and prompt rollouts)
         AppRuntime  <-extends-  AppLifecycle      (handlers of an app; users, login, caretakers)
     WebCertificate  <-extends-  WebPublish        (certificate of an organization; its sites)
      KnowledgeBase  <-extends-  KnowledgeHealing  (requests on an industry base; refresher, healer)

The modules on the right have an `MC*` module with the sets for TLC and a `*Proofs` module that
EXTENDS them.
Definitions keep the names of the code where there is one. An action is one statement that
others can see (a query, a Redis call, a Kubernetes call) with the control flow up to the next
one. After the state of a module come *plausible mistakes*: operators that no action uses, each
a definition below it with a realistic bug, kept so that each property can be seen to fail when the
code is broken that way.

## 2. Modules and code

### JobRuntime

State: the `jobs` columns (`status`, `attempts`, `leaseToken`, `due` for
`run_after <= now`, `expired` for `lease_expires_at < now`), the Redis queue, the
wake-up signals, what each worker goroutine knows (`phase`, `batch`, `cur`, `seen`,
`myToken`, `leaseLost`), the scheduler's scan, and what each caller of `EnsureInitJob`
has decided (`decision`).

| Code | Action |
|---|---|
| `Pool.Run`, `Worker.Tick`, `queue.Reserve` | `Reserve`, one id of the batch at a time after it |
| `processJobID`: `GetJob`, then `MarkJobRunning` | `Fetch`, then `Claim` or `ClaimRefused`: the row may change in between |
| handler returns nil, error, panic, deferral; the UPDATE with its owner-and-token condition | `HandlerReturns`; `MarkJobSucceeded`, `MarkJobFailed`, `RetryJob`, `DeferJob`, or `Stale` when no row matches, `StatementFails` when the query fails |
| `startLeaseRenewer` | `Renew`, `RenewFails` |
| `Scheduler.Tick` | `SchedulerScan`, `SchedulerEnqueue`, `SchedulerFails` |
| `Recovery.Tick` | `Recover`: fails or requeues all expired rows |
| `jobutil.EnsureInitJob` (reaper, reconcilers) | `EnsureRead` (the newest job, and the decision), `EnsureRequeue`, `EnsureCreate` |
| services that insert a job and signal it | `CreateJob`, `Enqueue` |
| process and time | `Crash`, `SignalsLost`, `BecomeDue`, `LeaseExpires` |

A token is the number of the claim (in the code, a random UUID). Time is abstract: a lease
may expire whenever its worker is slow, which is a fault when it is alive.
`JobStateMachine` is `domain/job_state_machine.go`, an abstract specification that
no production code consults.

### LeaderElection

Discrete time. `owner`/`ttl` is the Redis key; a replica's tick starts when `elapsed`
reaches `Interval`, its call takes effect (`Refresh`, `TryAcquire`) and returns
(`Return`) by `Interval + MaxDelay`, where it may have failed or lost its answer. `Pass` is a
unit of time; it waits for what must happen first. A reconciler checks `IsLeader` once at the start
of a round of at most `MaxRun`, and `ran` counts how old what it relies on has become. A release on shutdown and a
crash end a replica's tick; a crash leaves the key.

### AICCAdmission

`SendMessage`: the idempotent look-up, the transaction with the session's row lock
(`LockSession`), the snapshot opened by the first plain read, the global lock
(`LockQueue`), the count over the snapshot (`snap`), the inserts (`Admit`,
`InsertRefused`), or the requeue of a failed task (`Requeue`). `Settle` stands for the
dispatcher. A failed transaction (`Rollback`) leaves no trace but frees its locks.

### AICCDispatch, AICCConversation

A task is leased (`Lease`) with an attempt counted when no other task of its session is in work and
none ahead of it waits; the worker analyses the message, answers it in a transaction
conditional on its token, or ends the attempt. Leases run out under live holders or
of dead ones (`events` counts them and the visitor's retries); `Recover` requeues or fails them. Failed analyses are queued in one row per
session and repeated by analyzers, beside later messages. `AICCConversation` says what
the visitor is promised, without leases, attempts or workers; `VisitorState` maps a task to it.

### RolloutGuard

Rows of both kinds of rollout job, reduced to what handlers see of the runtime; markers in the payload and
each worker's copy of it; `owner` (`aicc_rollout_app_owners`), `phase` (the gate), `applied`
(the agents' revision), `prompt` (the hash the bootstrap stamped); the Deployment as three
generations: asked for (`spec`), booted (`boot`, with the revision the pod fetched), fully
available (`pod`).

| Code | Action |
|---|---|
| `UpdateAICCConfig` | bump the revision and insert the job in one transaction |
| coordinator, `enqueueIfNeeded` (start-up, `beforeSuccess`, `afterFailure`) | `StartUp`, `BeforeSuccess`, `AfterFailure` |
| `Handle`: release rows of an earlier attempt, elect the leader job, list one app | `ReleaseByOwner`, `Elect`, `ListPending` |
| `claimOwnership`: upsert, then read | `ClaimOwnership`, `GetOwnership` |
| `recoverMarkedAgent`: marker, gate, restart, generation, wait | `PersistMarker`, `ShutGate`, `RolloutRestart`, `PersistGeneration`, `WaitRolloutReady` |
| `finishMarkedAgent`: stamp or verify, open, clear, release | `StampRevision`/`VerifyPrompt`, `OpenGate`, `ClearMarker`, `ReleaseOwnership` |
| errors and runtime | `Fault`, `HandlerError`, `Recover`, `LeaseLost`, `Crash`, `Upgrade` |
| `app_status_reconciler.go` | `Observe`, `WritePhase`: read, later write |
| Kubernetes (external) | `Bootstrap`, `BecomeAvailable` |

Left out: agents that are added or stopped during a rollout, several organizations, the runtime-image
upgrade reconciler, which shares the gate.

### AppRuntime, AppLifecycle

The row `app` (status, `deleted_at`, phase, version and applied version), the WeChat `binding` and the login in the pod
(`qr`), the Deployment with its pod (`k8s`), the jobs of the app that something still reads, `latest` (what
`GetLatestAppInitJob` returns), what each worker does with its copies (`work`: the step, the status and the version it
has read), and what a slow caretaker has read (`reaper`, `recon`). A handler is one action per statement that reads or writes what others
share; a step is named for what it does next.

| Code | Action |
|---|---|
| `AppInitializeHandler.Handle`: load, four phases with `transitionTo`, wait, stamp, promote | `LoadInit`, `TransitionTo`, `PhaseCreate`, `WaitReady`, `StampApplied`, `PromoteIfChannelBound`, `MarkFailed` |
| start, stop | `LoadStart`, `ScaleUp`, `LoadStop`, `ScaleDown`, `RecordStatus` |
| restart: through a new image, or a rollout | `LoadRestart`; `RestartImage`, `RestartRepull`, `RestartEnqueue`; `ShutGate`, `RestartRollout`, `RestartStatus`, `RestartApplied` |
| delete | `DeleteCluster`, `SoftDelete` |
| `processJobID`, recovery, renewer | `Claim`, `Succeed`, `HandlerError`, `Fault`, `Crash`, `Recover`, `LeaseLost` (`JobRuntime` has them in full) |
| Deployment controller and kubelet (external) | `Pod` (Recreate: the old pod ends before the new one starts), `PodFails` |
| `Trigger`, `RequestInitialize`, `SwitchAppVersion`, `BeginAuth`, `Unbind`, the scan | the same names, `ScanQR` |
| `MemberService.DeleteMember`: the row is archived, then the job is created | `DeleteMember`, which may be cut in between |
| `channel_start_login`, `channel_check_binding` | `LoadLogin`, `BeginLogin`; `LoadCheck`, `PollBinding`, `ReloadPod`, `FinalizeBound` |
| `Reaper.reapOnce`, `EnsureInitJob` | `Reaper`, and in two steps `SlowReaper`, `LateReaper` |
| `AppStatusReconciler.Tick`: phase, failure, revival of failed apps | `Reconciler`, and in two steps `SlowReconciler`, `LateReconciler` |

Merged: the key, token and skill steps of `preparing_runtime`, which change nothing the properties tell apart;
`binding_failed`, which behaves as `binding_waiting`; the phases other than `ready`. A reaper needs 90 s without a write
to the row, so it interferes with an initialization that is alive only if that is slow, which is a fault. `convergeRestarting`
has no writer of the status it looks for and is left out. Three histories restrict some safety properties: `overlapped` (two
handlers of the app have run at once), `disturbed` (a job failed for good, a stopped app was restarted, or a check
was cut between binding and promotion) and `abandoned` (the row is archived, and the job that deletes the cluster was never created
or has failed for good); section 5 says what happens then.

An app is deleted in one of two orders. `Trigger("delete")` only queues the job, whose handler clears the cluster and archives the row last.
`DeleteMember` archives the row first, whatever a handler is doing, and then queues the same job, whose handler finds the row archived
and only clears the cluster. So a deleted app may well have a Deployment: `DeletedIsDown` says that a job which removes it is then still
due, that what an overtaken handler brings up goes with that job, and that nothing brings a Deployment back after it.

### WebCertificate, WebPublish

The row `cfg` of `org_web_publish_config` (with the age that `cert_not_after` tells), the Secret and the Ingress of each
derived name (`cluster`), provision jobs and handlers with their copy of the row; then for each `site` the row, whether it is
due, the domain of its host and the objects under its prefix, and the reaper's list, takedowns under way and the site
server's `registry`.

| Code | Action |
|---|---|
| `Configure`, `Enable`, `Disable`, `RetryProvision` | the same names; `Enable` may be cut before its job |
| `CertRenewalChecker.CheckOnce` | `CheckRenewal` |
| `WebPublishProvisionHandler.Handle` | `Start`, `MarkInProgress`, `ApplyTLSSecret`, `ApplyWildcardIngress`, `RecordIssued`, `RecordReady`, `ProvisionFails` (`fail`), `ProvisionDies` |
| `WebPublishService.Publish`: checks, upload, INSERT | `Publish`, `CreatePublishedSite`, `PublishFails` |
| `Takedown`, `Renew` | `Takedown`, `TakedownDeletes`; `Renew` |
| `SiteReaper.ReapOnce` | `ReapList`, `ReapExpire`, `ReapDelete`, `ReaperDies` |
| `Syncer.syncOnce`, start of the site server | `SyncOnce`, `SiteServerRestarts` |
| time | `GrowOld` (certificates), `Expires` (sites) |

`issuing` and `renewing` are one status, the ACME order with its DNS challenge one call that may fail, and `max_sites` and the
prefix of the objects are constant. Histories: `cut`, `moved`, `revived`, `spilt` and `peak`, each the exception a property makes.

### KnowledgeBase, KnowledgeHealing

An industry base with files of one name: whether it is `live`, the mapping row `ds` with its claim, the file's `row`, and what RAGFlow
has, the datasets (`sets`) and the run of each document (`run`); then what each request has read and does next (`req`), and the copies
the two tasks of the leader work on (`refresh`, `heal`). `row` also carries what Redis holds of the file (`attempts`, `gaveUp`),
both of which expire.

| Code | Action |
|---|---|
| `getIndustryDataset`, `ensureDataset`, `ensureExistingDataset` | `Resolve`, `InsertMapping`, `Claim` |
| `createRemoteDataset`, `datasetAfterCreateConflict` | `CreateRemote`, `Activate`, `Discard`, `Reread` |
| `saveIndustryFileForBase`, `uploadToDataset` | `Lookup`, `Push`, `Save`, `Parse`, `Undo` |
| `overwriteIndustryFile` | `Push`, `ParseNew`, `Replace`, `ReadBack`, `Retire`, `Undo` |
| `deleteDocument`, `clearDocuments`; `reparseDocument` | `DeleteRemote`, `DropRow`; `Reparse`, `Requeue` |
| `UpdateKnowledgeEmbeddingModel`, `RunDatasetEmbedding` | `Embed`, `EmbedReset` |
| `DeleteIndustryKnowledgeBase` | `DropBase`, `DropSet` |
| `RagflowParseStatusRefresher.Tick` | `RefreshScan`, `RefreshList`, `RefreshWrite` |
| `RagflowAnomalyHealer.Tick`, `HealState` | `HealScan`, `HealStop`, `HealParse`, `HealRecord` |
| the TTLs of `HealState`'s keys | `CountExpires` (6 h after the last attempt), `MarkExpires` (7 days) |
| crashes, cut requests, a new leader | `Cut`, `TasksDie` |
| RAGFlow (external) and time | `RemoteEnds`, `RemoteHangs`, `RowAges` |

The documents are named by the request that uploaded them. A reading and the write that follows at once without a call to RAGFlow between
them are one step, and so are the healer's INCR, its UPDATE and its mark, each of which may fail. A cooldown is time that
passes, and only a parse that hangs makes a row old. RAGFlow refuses a whole embedding run when one of its documents is in process, as
it does for one document. Histories: `caught` and `crossed` count the requests that section 5 describes, `wrong` marks a
status that was written late or not at all, and `spent` the parses the healer asked for since it last started over. Left out: a healer of a former leader beside
that of the new one, an answer that is lost of a parse that did start, the scopes of organizations and apps, which have
the same steps without overwriting or deletion of a base, quotas, multipart uploads and search.

The TTLs make windows (`main.go:939-942`): when the mark expires, or the count before there is a mark, the healer starts over with a new `MaxAttempts`,
and `spent` with it. The order of the two expiries is all the models take from the clock, and a fault is counted where it is not the
regular one. The count has 6 h and every attempt renews them, while attempts on a file that is not settled are at most the time to find it stuck
(30 min by default) and a back-off (10 min) apart: it can expire after the file has settled, under the mark, or when no leader heals. The mark has 7 days from the last attempt, so it
outlives the count; when it goes first, Redis has lost it or the count has no TTL, its EXPIRE having failed after its INCR. Nothing has to expire.

## 3. Runs and bounds

Run a configuration with `tlc -config X.cfg M`. A run that passes has looked at every state of its
instance; the two runs that end in a violation belong to section 5.

| Configuration | Instance | States | What it shows |
|---|---|---|---|
| `JobRuntime` | 1 job, 2 workers, reaper and reconciler, 2 attempts, 2 takeovers, 1 deferral, 1 fault | 515 104 | attempts stay in budget, one owner decides, no early failure |
| `JobBatches` | 2 jobs (one without a handler), 1 worker, batches of 2, 1 fault, fair | 21 755 | every job settles; without takeovers the declared state machine is implemented |
| `LeaderElection` | 2 replicas, lease 3, interval 1, delay 2, reconciler rounds of 1, 2 faults, 1 shutdown, fair | 47 180 | two leaders or reconcilers only when one is late by a lease; a slow replica cannot touch its successor's lock; a leader comes back |
| `AICCAdmission` | 2 requests, 2 sessions, 4 messages (one refused), capacity 1, limit 2, 5 sends, fair | 28 134 | session limit and idempotency exact, capacity up to the requests in progress |
| `AICCDispatch` | 2 messages of a session, 2 workers, 1 analyzer, 2 attempts, 1 lapse or retry by the visitor, fair | 45 260 | the dispatcher implements `AICCConversation`; messages settle, queued analyses end |
| `RolloutGuard` | 1 app, 2 workers, 2 attempts, 1 changed model, 1 prompt, 1 fault | 326 155 | revision and success mean what they say; markers, owner rows and gates agree |
| `RolloutLive` | 1 app, 1 worker, 3 attempts, 1 changed model, 2 prompts, fair | 24 497 | every app catches up and opens |
| `AppLifecycle` | 1 app, 1 worker, 2 requests, 2 attempts, 2 jobs at once, 1 fault, fair | 192 822 | status and cluster agree, a deleted app, or the app of a deleted member, goes down and stays down; initializations end, failed apps heal, the gate reopens |
| `WebPublish` | 2 domains, 2 sites, quota 1, 2 workers, 2 requests, 2 attempts, 2 faults, fair | 97 333 | quota, files, certificate; ended sites go dark, certificates arrive |
| `Knowledge` | 1 base, new or with a file, 2 requests of any kind, or requests and faults, 2 in all, 1 takeover, 2 attempts, fair | 337 619 | nothing unmanaged but for faults and crossings; completed files are parsed; the healer's budget in each window; every file settles, again after each expiry |
| `JobDeadPending`, `RolloutGate` | small instances of the same | | section 5 |

**Why the bounds are enough.** Two workers are what a race needs: a third adds no new pair,
and every condition of an UPDATE compares one row with one worker's token. Two attempts
give each job a first, a last and a repeated attempt, so that the limit is reached on both
sides. One fault puts each crash, loss or lapse at every point of a run that is otherwise
regular. Two replicas let a lock go from a leader to a successor and back, and a delay as long as the lease makes a
leader late by all of it; three replicas with 1 fault were run apart (729 235 states). One
place in the queue and two requests make both requests see room. One app with two jobs
of different kinds is enough for two jobs to compete for it; that a job releases one app
before it takes the next was checked in larger instances that take longer than a regular run:
2 apps and 2 workers with 1 attempt and 1 fault (4 844 074 states), with 2 attempts and no
fault (119 155), and the liveness property with 2 apps (223 052). All passed.

In `AppLifecycle` one worker is enough for a job to be overtaken: its lease runs out, the recovery or a caretaker puts the job back,
and requests and caretakers act between any two of its steps. Two workers were run apart, since they take longer: safety with 2 requests and 1 fault
(3.4 million states up to the exchange of the workers), liveness with 1 request, 1 fault and 1 attempt (221 521) and with 2 requests and no fault (208 974). `WebPublish` passed
with 3 requests too: safety with 1 fault (852 426), liveness with 1 worker and 1 fault (149 000) and with no
fault (146 000). With two sites and a quota of 1,
the bound allows both as soon as two uploads have overlapped, so the run only tests it for uploads one after the other; the theorem covers the rest.
`JobBatches` has neither takeovers nor retries, which `JobRuntime` has without fairness.

In `Knowledge` two requests are what a crossing takes: two creators of a dataset, two overwrites, an overwrite and a deletion, an
upload and an embedding switch, each beside both tasks. With 3 events (2 requests and a fault at any point) the safety properties hold in all
2 920 736 states; with 3 requests they held, before the TTLs were modelled, in the 8.2 million states of the first 25 steps, where the search was ended. The theorems cover the rest.

`MaxAttempts`, `Lease`, `Capacity` and the like are the program's own parameters. The others
(`MaxFaults`, `MaxTakeovers`, `MaxDeferrals`, `MaxSends`, `MaxEvents`, `MaxOps`, `MaxStops`,
`MaxRevision`, `MaxVersion`, `MaxJobs`) only end what the environment could repeat for ever.
Workers or replicas are a symmetry set in safety runs and in none with a liveness property. `AICCDispatch` instead has the
action constraint `MCFirstIsM1`: where no two messages share a second the ids are not compared, so a behaviour that
sends `m2` first is one that sends `m1` first with the names exchanged; nothing is fair about sending, so no
liveness property leans on the steps left out. `MCFirstIsQ1` of `Knowledge` does the same for the request that begins first. Deadlock is
checked for the election, which never stops; the other systems may run out of work.

**Fairness.** Only of what the code's own loops do, or what the environment cannot withhold for ever:

- *JobRuntime*: a worker goes on with the job in hand and renews its lease; the scheduler and the recovery tick;
  `run_after` passes; a lease nobody renews expires. `Reserve` is strongly fair for each job:
  an id can leave Redis through a crash, but the scheduler puts it back and workers never stop asking.
- *LeaderElection*: time passes, tickers fire, calls return, a crashed replica is restarted by Kubernetes. Nothing says that a replica
  wins the lock.
- *AICCAdmission*: a request takes its steps; row locks are strongly fair, because InnoDB
  grants waiting locks in turn.
- *AICCDispatch*: workers go on. Leases and retries are strongly fair for each message or
  session, because the scans are ordered by `run_after`; that a repeated analysis is not refused for ever
  is an assumption about the model provider.
- *RolloutGuard*: handlers, recovery, reconciler and start-up run; pods boot and become available;
  for `GetJob` and `Observe`, strongly.
- *AppLifecycle*: handlers go on, the recovery, the reaper and the reconciler tick, the cluster ends and starts pods. Claims are strongly fair for each job,
  because a worker that is now and then free takes the jobs in the order of `run_after`. Nobody has to scan a code or send a request.
- *WebPublish*: workers take and carry out provision jobs, the renewal checker, the reaper and the site server's poll
  run, and an upload or a takedown under way ends. No administrator has to act.
- *KnowledgeHealing*: a request under way goes on, a parse that does not hang ends, and the refresher and the healer tick on some leader. A parse
  that hangs need never end, no key has to expire, and nobody has to ask for anything. The fairness of each is
  stated of the one variable that all its steps change, which is the same and quicker to check.

## 4. Proofs

`tlapm XProofs.tla` checks what follows for every value of the constants that satisfies `ConstantsAssumption`
of the module: any number of workers, jobs, messages, replicas or apps. An invariant
below is proved in the usual three facts (it holds at first, every action keeps it, it
implies the property). `TypeOK` of every module is proved too (`TypeCorrect`), so no run repeats it.

**JobRuntimeProofs.** `IInv` adds three things to the budget of attempts. `RowsConsistent`: the row's
token is the number of its latest claim. `TokensDistinct`: no two goroutines hold the same claim.
`ReadsBehind`: the attempts a worker read are at most those of its row. With them a worker
whose token matches the row is the latest claimant, hence `OneOwner` and `SucceedsByOwner`; and the worker's
judgement from a value read before the claim errs only towards too few attempts, hence
`FailsOnlyExhausted`. The same one-sidedness is the bug of `JobDeadPending`. `Refinement` shows each step
to be a step or a stutter of `JobStateMachine` when there are no caretakers: with them
it is false, since a takeover reopens a succeeded job (section 5).

**LeaderElectionProofs.** `LeaderHolds` measures the leader's belief against the lock: while a replica believes, it owns the key and
`ttl + elapsed >= Lease`, until a whole lease has passed without an answer. That gives `AtMostOneLeader` for all delays, faults and shutdowns,
and, if ticks end in time (`Interval + MaxDelay < Lease`), at most one leader without exception (`OneLeaderInTime`). `RunnerHolds` says the same
of a reconciler that started under the belief, with the age of that belief (`ran`) in place of `elapsed`. `SuccessorKeepsLock` is what
compare-and-extend and compare-and-delete give.

**AICCAdmissionProofs.** `SessionGuarded`: a request past the session lock holds it, so what it saw of
its session is still true. For the queue the count is a snapshot and may be old.
`EntriesBounded` is the invariant: unfinished tasks, plus the requests that have already counted and found room, are bounded
by the capacity plus the requests in progress. `OvershootBounded` follows, and is what the code really promises.
`KeysUnique` needs only that the row lock of the session excludes. The proofs count with the cardinality theorems of the library.

**AICCDispatchProofs.** `OneReply`, `SessionSerial` and `AttemptSpare` (a message that waits or is still to be sent has an attempt left) are inductive together with the
types. The refinement of `AICCConversation` also needs `SentInOrder` and `InLine`
(a message in work has no earlier one that still waits for its first answer): those rest on `~SameSecond`, since
`created_at` has whole seconds and a random id breaks ties.

**RolloutGuardProofs.** `IInv` says what is known at each step of a handler that others may overtake. `Sound` is
what a marker promises: once *all* pods are of its generation or a later one, they booted with the
marker's revision or a later one. The generations are ordered (`Generations`), so the wait that ends before the stamp
proves that `applied` is never ahead, however many workers run the job. `RowSound` asks it of markers in
rows, `StepSound` of markers in workers' copies, and that a worker past its list of apps saw every app
reach the target. `IInv` makes no use of the owner rows: it survives the race of
`RolloutGate`, in which they fail. `OwnInv` is a second invariant, on top of `IInv`, for the time
before two workers may have run one job (`raced`). A worker in its handler holds the lease of its job, and its copy of
the marker is the row's, except between a restart and the write that records it (`CopyKept`); before it writes a marker it has the
app's owner row, and it leaves the owner row only without a marker (`StepOwned`); an active row's marker stands for an app that it owns, and whose gate is shut while its pods
are older than the marker (`RowOwned`). The owner row admits one job at a time for an app, so the step of one job cannot touch what
another's marker says; the reconciler opens a gate only after it has seen that no active marker forbids it. Hence `MarkerOwned` and `GateShutUnlessRaced`, for any
number of apps and jobs, which TLC could only look at one or two at a time.

**AppLifecycleProofs.** `DeletedStaysDown` rests on `Down`. A row is archived either after the cluster was cleared or together with the creation of a delete job, so
the deletion of an archived app is for a while still to be done, or abandoned (`Undone`). As long as no two handlers have overlapped, at most one worker is
busy (`OneHandler`), a delete that has cleared the cluster finds it clear when it archives the row, and an archived
app whose deletion is done has no Deployment and no initialization under way (`Cleared`). The job of a deletion ends by its own handler only, after it has cleared the
cluster, or by failing for good, which leaves the mark `abandoned`: that needs `Mine`, that a worker which owns the job of an operation is in a step of that operation, and `Acts`, which says of each step
what it does to the jobs of others. Every other handler needs a Deployment or refuses a deleted row. `Turn` says that a step of one worker leaves the others alone, so that each handler is looked at once.
`ScaleMatchesStatus` and `PromotedUnlessCut` speak of an app at rest that is not deleted, and `Settled` says what holds until it is: as long as the app is not deleted (`DeletedForGood`: never taken back), no handlers overlap and none was cut or failed for good,
whatever the row and the cluster disagree about is owed by a job that is still open (`Fits`: a serving row above a pod that is not scaled up only while a stop or a deletion is due, a stopped one above a
running pod only while a start is; `Promoted`: an app waits for a binding that it has only while an initialization is due or a check is between the binding and the promotion). Each step of a handler works for the job it holds (`OwnJob`), has a copy
that says what its guards saw (`Copy`) and finds the scale it left (`Scaled`). `Spares` is what each step does to the jobs of others: nothing is ended but by its own handler. At rest no job is open, so nothing is owed.

**WebPublishProofs.** `Typed` adds to the types that a job that waits has an attempt left. `Kept` says that what a takedown or the reaper is
about to empty has ended or been revived (`DeletesEnded`), hence `ContentKept`; `QuotaBounded` counts the uploads that passed the
quota together, with the cardinality theorems. For `Reachable`, `HandlersRight` says of each provision in
progress that the Secret and the Ingress it has applied are still its own if it has run alone or the domain has not
changed, and `DomainServed` that whoever is ready, or has a site, is served. `Wanted` is needed because a provision
that fails keeps the old certificate in the cluster although the row says `failed`.

**KnowledgeProofs.** Four inductive invariants. `BudgetInv`: as long as there is no mark, the parses the healer has asked for since it started over are at most those it has counted, the faults, and the one
it is about to count; and while it is still allowed another, they are fewer than the attempts and the faults together, hence `HealBudget`. Under the mark the count may expire, and what was spent stays: the mark allows nothing more until it goes itself. `DatasetsInv`: `DatasetsManaged`, with a
dataset named by the row only when it is active; each step adds at most one dataset to those that nobody manages, and then counts a fault or a
request whose base was deleted under it, which the cardinality theorems of the library turn into the bound. `FileInv` follows the documents: one is attached to the row once, by the request that brought it
(`Later`, `Distinct`), whoever works on the document of the row knows the row by the same id (`SameFile`), and an embedding switch of a live base has its mapping row (`MappingKnown`). So
whoever parses a completed file again owes the row a write, hence `CompletedIsParsed`. It is stated for a live base: after the
deletion a request that was overtaken can put a file into a dataset made behind it, while a switch still runs on the old one (section 5).
`CountInv`, on top of `FileInv`, counts the documents. `FilesManaged` is not inductive: it forgives a request that is about to read its row back both its own document and the old one,
but only one of them can be loose, and which one depends on whether the replacement hit, which the program does not record. `Loose(H)` are the documents that no row and no request holds
when `H` are the requests whose replacement hit, and `FilesCounted` says that for *some* `H` they are at most the faults and the crossings; a replacement that hits adds its request to `H`,
one that misses removes it. `Emptied` (a delete that comes to the row has emptied its document) and `TookOver` (a request whose document the row names finds its own file) say when a step loses no document.

**Only model-checked.** All liveness, which needs fairness and `ENABLED`: `EveryJobSettles`, `SomeLeaderAgain`, `EveryRequestAnswers`, `EveryMessageSettles`, `EveryRetryEnds`, `EveryAppCatchesUp`,
`EveryAppSettles`, `ReadyErrorHeals`, `GateReopens`, `EndedSiteGoesDark`, `CertificateArrives`, `EveryFileSettles`. The two runs that end in a violation have nothing to prove. Every invariant and
every action property of the passing runs, and both refinements, are theorems. No recursive definition occurs, so no fact was set aside for lack of induction. Each of the
invariants above was a run's invariant in TLC before it was proved (`OwnInv` in the instance of `RolloutGuard`; `Settled` in that of `AppLifecycle` before `DeleteMember` was added, with two workers in 628 254 states and with 2 versions, 3 attempts and 2 faults
in 3 521 250; `CountInv` in that of `Knowledge`).

## 5. What the models show against the code

Two statements of the code do not hold, and have a run whose trace TLC prints.

1. `NoDeadPending` (`JobDeadPending.cfg`). Attempts are read by `GetJob` before `MarkJobRunning`. If another
   worker claims, fails and retries in between, the worker counts one attempt too few and calls `RetryJob`
   with the last one used. The row is `pending` for ever: no claim accepts it and nobody fails it, and the `afterFailure`
   hook does not run.
2. `GateShut` (`RolloutGate.cfg`). The payload is also read before the claim. A worker with a copy from before another's attempt
   finds no marker, releases the owner row of the app that is restarting, and the status
   reconciler opens the gate on an old pod.

A third, `OfferOnItsReply` of `AICCDispatch`, is not in a run: the lead card belongs to the first reply that invites, but an analysis of an
earlier message, repeated by an analyzer or finished by a worker that has lost its lease, between that reply's analysis and its transaction overwrites
`analyzed_message_id` (`aicc.sql:409`), and the card shows on another reply. Adding the invariant to `AICCDispatch.cfg` prints
the steps.

The lifecycle of an app has behaviours that its properties except, since nothing serializes the jobs of one app:

- A delete that overlaps an initialization: the initialization, which loaded the row before, applies the Deployment again after the
  delete has removed it, and no caretaker looks at deleted apps (`app_runtime_ops.go:497`). `DeletedIsDown` fails without `~overlapped`.
- A `DeleteMember` that is cut between the row and the job (`member_service.go:324-338`), or whose job fails for good, leaves the Deployment up: the row is archived, so no
  caretaker finds it, and deleting the member again does not either (`abandoned`). A handler it overtakes writes its status over that of the archived row (`SetAppStatus` has no condition on `deleted_at`). `DeleteHiddenAICCApp` has the same order (`app_service.go:369`).
- A check that is cut, or retried, after it has marked the binding and before it has promoted the app returns early (`channel_login.go:280`);
  a check that loaded the app before `binding_waiting` and marks the binding after the initialization has looked does not promote it either. Both leave the stuck view that `app_initialize.go:374-377` means to exclude: bound, and `binding_waiting`.
- A check under way overwrites `unbound_by_user`, which `channel_service.go:650` calls the source of truth.
- `SetAppVersion` also clears `applied_image_ref` (`apps.sql:300`), so a restart after a switch between versions of one image takes the branch for
  a new image: the template is the same, the pod is not replaced, and the initialization stamps a version that the pod has not read
  (`app_runtime_ops.go:350` describes the same effect for another column).
- A restart of a stopped app records `running` with zero replicas, and the reconciler does not scale it; a start does.
- A crash between `binding_waiting` and the stamp: the retry returns early and the version is never stamped (`app_initialize.go:343`).
- A check of WeChat has no deadline: while nobody scans, it queues its successor for ever.
- A slow tick of the reconciler writes `ready` after a handler has shut the gate; the next tick corrects it.

And those of web publishing:

- `web_publish_config_service.go:165`: the comment says that empty credentials are not written; the upsert sets NULL, and the next renewal fails.
- The first write of a provision clears `cert_not_after`; a run that is cut there and uses up its attempts is never listed again by the
  renewal checker (`web_publish_provision.go:157`). A renewal that fails marks the capability `failed`, which refuses publishing although the old certificate
  serves. A `Disable` during a provision is overwritten by its `ready`. An `Enable` cut before its job leaves `provisioning`.
- A new base domain keeps the name of the Secret and the Ingress: provisioning it takes the old domain's sites away (`moved`). Two domains that differ in
  a dot and a dash derive the same name.
- `Renew` revives a site that has ended, without its objects and without the quota (`revived`). `DeletePrefix` is tried once, and a publish
  that fails leaves its objects (`spilt`). The reaper and the takedown delete under `published-sites/`, whatever prefix is configured.

Those of knowledge, where RAGFlow and the database are written one after the other:

- An overwrite whose row is replaced again between its UPDATE and its reading back takes itself for the loser and deletes its own document, and the one it had
  replaced stays in RAGFlow (`industry_knowledge_service.go:436`), although the comment at line 381 says that concurrent overwrites leave no
  such document. A delete whose row is overwritten between its two steps removes the row of the new document. `crossed` counts both.
- A dataset whose base is deleted while it is being created, or a mapping that a request inserts after the deletion, stays behind (`caught`);
  the foreign key holds, because a deleted base keeps its row. A file uploaded meanwhile lands in it and is refreshed and healed for ever after.
- A parse that is refused after the row was inserted, or a crash before it, leaves `queued` for ever (`knowledge_service.go:1155`): the refresher sees no change, the healer ignores
  queued files and `reparseDocument` refuses them. `EveryFileSettles` excepts it.
- The refresher writes by id what it listed before: a file that was parsed again or overwritten meanwhile is shown as `completed` until somebody writes it again (`wrong`).
- An upload that was inserted but not yet parsed when an embedding switch ran is parsed twice, and can be shown as completed during the second parse.
- The healer counts by the id of the row: a file that is overwritten inherits the mark of the old one and is not healed until the mark's TTL ends.
- A file that can never be parsed costs RAGFlow `MaxAttempts` parses for each life of the mark, without any fault: `ragflow_heal_state.go:113` means the mark to end. Only the
  number in a window is bounded.
- Rows given up on keep the oldest `updated_at` and the list of failed files is ordered by it with a LIMIT (`ragflow_knowledge.sql:267`): with a batch of them no other file is healed. A
  listing that fails writes the row and so starts the clock of a hanging file again (`ragflow_parse_status_refresher.go:146`). With one file neither shows.

Narrower differences between comments and code were met while modelling. Each is in the models as the code
behaves, and none has a run:

- `worker.go:6` and `jobs.sql:110`: neither `processJobID` nor `MarkJobRunning` looks at `run_after`; an id still in
  Redis may be run before its back-off has passed.
- `job_state_machine.go:7`: `RequeueJob` (`jobs.sql:177`) takes `succeeded` to `pending`, which the declared transitions do not list, and no
  production code calls `EnsureJobTransition`.
- `jobutil.go:55`: only a pending job is tested for exhausted attempts; a requeued row keeps its count and is healed at the caretaker's next tick.
- `jobs.sql:90`, `scheduler.go:4`: exhausted pending rows stay in `ListReadyJobs` and can fill its batch.
- `recovery.go:108` compares the lease with the application's clock.
- `leader_elector.go:23,36,89`: nothing bounds a pause between the answer from Redis and a use of `IsLeader`;
  `main.go:914` starts a round that may outlast the lease; a shutdown (line 68) releases the lock with a round in progress.
- `main.go:294`, `aicc_public_service.go:653-678`: the queue's count comes from a snapshot older than the lock, so the capacity can be exceeded
  by the concurrent requests less one. `OvershootBounded` is the bound that holds.
- `aicc.sql:285`: the order within one second is that of random ids.
- `aicc.sql:442`, `aicc_intent.go:276`: the comments name a sweep that removes processed retry rows; there is none. A crash after
  `MarkProcessed` leaves the row until the session queues another.
- `main.go:608`: in a rolling upgrade the new process may find the old prompt's job active and add nothing while
  the old one's `beforeSuccess` compares with its own prompt; the next start-up heals it, which is why
  `EveryAppCatchesUp` excuses processes of two builds.
- A last attempt cut short by a crash is failed by `Recovery` without `afterFailure`, so no successor job exists until the next start-up.
- A marker with a generation never restarts again: if the pod came up with another build's prompt, each attempt fails at its verification
  and the gate stays shut until the job is failed.

## 6. Plan

Done, in this order: the job runtime, on which all background work rests; the election that
keeps its reconcilers single; the public chat from admission to reply, where concurrency and retries meet
visitors; the rollouts, which compose jobs, reconciler and Kubernetes; the life of an app with its channel; web publishing; the
files of industry knowledge with their two background tasks.

Left, in order of weight:

1. **AICCCircuit**: the breaker's half-open probe and the concurrency limiter in Redis, with lost releases and expiring slots; then its outcome in place of
   the free choice in `AICCDispatch`. Worth proving: slots in use never exceed the limit while holders live.
2. The credential flows of Feishu, WorkWechat and DingTalk beside the WeChat flow of `AppLifecycle`, and the hidden apps of AICC agents.
3. Several files of a base (the batches of the two tasks, the mark of a file that blocks others), and **KnowledgeQuota**: uploads that reserve and release.
4. **SkillTicket**, and the pure functions (back-off, rank of versions) against reference definitions.
5. Proofs of what these modules will promise. Those of the modules above are complete but for liveness.

Not modelled, and not planned, for the reasons `PROJECT.json` gives with each component: what keeps no state (HTTP API, configuration,
authorization), what forwards to another system (billing, runtime data, rendering of manifests), single-transaction
CRUD, the web console, the runtime images and deployment files. These are most of the lines of the repository; the parts above hold
nearly all of its concurrency.
