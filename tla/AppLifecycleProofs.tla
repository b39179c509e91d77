------------------------- MODULE AppLifecycleProofs -------------------------
(***************************************************************************)
(* Proofs about the life of an app, for any number of workers, jobs,        *)
(* versions, requests and faults: a deleted app goes down and stays down,   *)
(* an app at rest is scaled as its row says, and a bound channel's app is   *)
(* promoted.                                                                *)
(***************************************************************************)
EXTENDS AppLifecycle, TLAPS

USE AppConstants

------------------------------------------------------------------------------
(* Types: the row of the app.                                               *)

LEMMA AppTyped ==
    /\ \A a \in App, s \in Status : [a EXCEPT !.status = s] \in App
    /\ \A a \in App, p \in {"down", "ready"} : [a EXCEPT !.phase = p] \in App
    /\ \A a \in App, v \in 0..MaxVersion : [a EXCEPT !.applied = v] \in App
<1>1. \A a \in App, s \in Status : [a EXCEPT !.status = s] \in App
      BY DEF App
<1>2. \A a \in App, p \in {"down", "ready"} : [a EXCEPT !.phase = p] \in App
      BY DEF App
<1>3. \A a \in App, v \in 0..MaxVersion : [a EXCEPT !.applied = v] \in App
      BY DEF App
<1> QED BY <1>1, <1>2, <1>3

LEMMA StatusTyped ==
    /\ InitStatus \subseteq Status
    /\ /\ "draft" \in Status /\ "binding_waiting" \in Status /\ "running" \in Status
       /\ "stopped" \in Status /\ "error" \in Status /\ "deleted" \in Status
    /\ \A s \in Status : TypeOK /\ SetStatus(s) => app' \in App
<1>1. \A s \in Status : TypeOK /\ SetStatus(s) => app' \in App
      BY AppTyped DEF TypeOK, SetStatus
<1> QED BY <1>1 DEF Status

(* The Deployment and its pod.                                              *)

LEMMA RolledTyped ==
    ASSUME TypeOK, NEW i \in Nat, NEW m \in BOOLEAN
    PROVE  Rolled(i, m) \in Deployment /\ Rolled(i, m).replicas = k8s.replicas
<1>1. Outdated(k8s.pod) \in {"none", "old"}
      BY DEF Outdated
<1> DEFINE pod == IF i # k8s.image \/ m # k8s.mark THEN Outdated(k8s.pod) ELSE k8s.pod
<1>2. pod \in {"none", "ready", "old", "bad"}
      BY <1>1 DEF TypeOK, Deployment
<1>3. Rolled(i, m) = [k8s EXCEPT !.image = i, !.mark = m, !.pod = pod]
      BY DEF Rolled
<1> HIDE DEF pod
<1> QED BY <1>2, <1>3 DEF TypeOK, Deployment

LEMMA ClusterTyped ==
    ASSUME TypeOK
    PROVE  /\ \A v \in 1..MaxVersion : EnsureApp(v) => k8s' \in Deployment
           /\ \A n \in {0, 1} : Scale(n) => k8s' \in Deployment
           /\ \A v \in 1..MaxVersion : UpdateImage(v) => /\ k8s' \in Deployment
                                                         /\ k8s'.replicas = k8s.replicas
           /\ RolloutRestart => k8s' \in Deployment /\ k8s'.replicas = k8s.replicas
           /\ DeleteResources => k8s' \in Deployment /\ k8s'.replicas = -1
<1>1. k8s \in Deployment /\ \A v \in 1..MaxVersion : Image[v] \in Nat
      BY DEF TypeOK
<1>2. Outdated(k8s.pod) \in {"none", "ready", "old", "bad"}
      BY DEF Outdated
<1>3. ASSUME NEW v \in 1..MaxVersion, EnsureApp(v)
      PROVE  k8s' \in Deployment
  <2> DEFINE applied == IF k8s.replicas = -1
                        THEN [k8s EXCEPT !.image = Image[v], !.mark = FALSE]
                        ELSE Rolled(Image[v], FALSE)
  <2>1. applied \in Deployment
        BY <1>1, RolledTyped DEF Deployment
  <2>2. k8s' = [applied EXCEPT !.replicas = 1]
        BY <1>3 DEF EnsureApp
  <2> HIDE DEF applied
  <2> QED BY <2>1, <2>2 DEF Deployment
<1>4. ASSUME NEW n \in {0, 1}, Scale(n)
      PROVE  k8s' \in Deployment
  <2> DEFINE pod == IF n = 0 THEN Outdated(k8s.pod) ELSE k8s.pod
  <2>1. pod \in {"none", "ready", "old", "bad"}
        BY <1>1, <1>2 DEF Deployment
  <2>2. k8s' = [k8s EXCEPT !.replicas = n, !.pod = pod]
        BY <1>4 DEF Scale
  <2> HIDE DEF pod
  <2> QED BY <1>1, <2>1, <2>2 DEF Deployment
<1>5. ASSUME NEW v \in 1..MaxVersion, UpdateImage(v)
      PROVE  k8s' \in Deployment /\ k8s'.replicas = k8s.replicas
  <2>1. k8s.mark \in BOOLEAN
        BY <1>1 DEF Deployment
  <2> QED BY <1>1, <1>5, <2>1, RolledTyped DEF UpdateImage
<1>6. RolloutRestart => k8s' \in Deployment /\ k8s'.replicas = k8s.replicas
      BY <1>1, <1>2 DEF RolloutRestart, Deployment
<1>7. DeleteResources => k8s' \in Deployment /\ k8s'.replicas = -1
  <2> SUFFICES ASSUME DeleteResources
               PROVE  k8s' \in Deployment /\ k8s'.replicas = -1
      OBVIOUS
  <2> DEFINE pod == Outdated(k8s.pod)
  <2>1. k8s' = [k8s EXCEPT !.replicas = -1, !.image = 0, !.mark = FALSE, !.pod = pod]
        BY DEF DeleteResources
  <2>2. pod \in {"none", "ready", "old", "bad"}
        BY <1>2
  <2> HIDE DEF pod
  <2> QED BY <1>1, <2>1, <2>2 DEF Deployment
<1> QED BY <1>3, <1>4, <1>5, <1>6, <1>7

(* The jobs and the workers.                                                *)

LEMMA WorkTyped ==
    ASSUME TypeOK, NEW w \in Workers
    PROVE  /\ work[w] \in Work
           /\ \A pc \in Step : Goto(w, pc) => work' \in [Workers -> Work]
           /\ Stop(w) => work' \in [Workers -> Work]
<1>1. work \in [Workers -> Work]
      BY DEF TypeOK
<1>2. \A k \in Work, pc \in Step : [k EXCEPT !.pc = pc] \in Work
      BY DEF Work
<1>3. Idle \in Work
      BY DEF Idle, Work, Step, Status
<1>4. \A pc \in Step : Goto(w, pc) => work' \in [Workers -> Work]
      BY <1>1, <1>2 DEF Goto
<1>5. Stop(w) => work' \in [Workers -> Work]
      BY <1>1, <1>3 DEF Stop
<1> QED BY <1>1, <1>4, <1>5

LEMMA RowTyped ==
    /\ FreeRow \in Row /\ \A kind \in Kind : NewJob(kind) \in Row
    /\ \A r \in Row : /\ [r EXCEPT !.status = "ended", !.lease = None] \in Row
                      /\ [r EXCEPT !.status = "pending", !.lease = None] \in Row
<1>1. FreeRow \in Row
      BY DEF FreeRow, Row, Kind
<1>2. \A kind \in Kind : NewJob(kind) \in Row
      BY <1>1 DEF NewJob, Row
<1>3. \A r \in Row : [r EXCEPT !.status = "ended", !.lease = None] \in Row
      BY DEF Row
<1>4. \A r \in Row : [r EXCEPT !.status = "pending", !.lease = None] \in Row
      BY DEF Row
<1> QED BY <1>1, <1>2, <1>3, <1>4

LEMMA EndedTyped ==
    ASSUME TypeOK, NEW j \in Jobs
    PROVE  Ended(j) \in Row /\ Retried(j) \in Row
<1>1. jobs[j] \in Row
      BY DEF TypeOK
<1>2. Ended(j) \in Row
      BY <1>1, RowTyped DEF Ended
<1>3. Retried(j) \in Row
      BY <1>1, <1>2, RowTyped DEF Retried
<1> QED BY <1>2, <1>3

LEMMA SucceedTyped ==
    ASSUME TypeOK, NEW w \in Workers, Succeed(w)
    PROVE  jobs' \in [Jobs -> Row] /\ work' \in [Workers -> Work]
<1>1. work' \in [Workers -> Work]
      BY WorkTyped DEF Succeed
<1>2. jobs \in [Jobs -> Row]
      BY DEF TypeOK
<1>3. \A j \in Jobs : Ended(j) \in Row
      BY EndedTyped
<1>4. jobs' \in [Jobs -> Row]
      BY <1>2, <1>3 DEF Succeed
<1> QED BY <1>1, <1>4

LEMMA ErrorTyped ==
    ASSUME TypeOK, NEW w \in Workers, HandlerError(w)
    PROVE  /\ jobs' \in [Jobs -> Row] /\ work' \in [Workers -> Work]
           /\ overlapped' \in BOOLEAN /\ disturbed' \in BOOLEAN /\ abandoned' \in BOOLEAN
<1>1. work' \in [Workers -> Work]
      BY WorkTyped DEF HandlerError
<1>2. jobs \in [Jobs -> Row]
      BY DEF TypeOK
<1>3. \A j \in Jobs : Retried(j) \in Row
      BY EndedTyped
<1>4. jobs' \in [Jobs -> Row]
      BY <1>2, <1>3 DEF HandlerError
<1>5. overlapped' \in BOOLEAN /\ disturbed' \in BOOLEAN /\ abandoned' \in BOOLEAN
      BY DEF HandlerError, Disturb, TypeOK
<1> QED BY <1>1, <1>4, <1>5

LEMMA CreateTyped ==
    ASSUME TypeOK, NEW kind \in Kind
    PROVE  /\ Room(kind) \subseteq Jobs
           /\ \A room \in SUBSET Jobs : CreateIn(room, kind) =>
                jobs' \in [Jobs -> Row] /\ latest' \in 0..MaxJobs
           /\ CreateJob(kind) => jobs' \in [Jobs -> Row] /\ latest' \in 0..MaxJobs
<1>1. Room(kind) \subseteq Jobs
      BY DEF Room, Replaced, Jobs, TypeOK
<1>2. ASSUME NEW room \in SUBSET Jobs, CreateIn(room, kind)
      PROVE  jobs' \in [Jobs -> Row] /\ latest' \in 0..MaxJobs
  <2>1. PICK j \in room :
          /\ jobs' = [i \in Jobs |-> IF i = j THEN NewJob(kind)
                                     ELSE IF i \in Replaced(kind) THEN FreeRow ELSE jobs[i]]
          /\ latest' = IF kind = "init" THEN j ELSE latest
        BY <1>2 DEF CreateIn
  <2>2. jobs' \in [Jobs -> Row]
        BY <2>1, RowTyped DEF TypeOK
  <2>3. latest' \in 0..MaxJobs
        BY <2>1 DEF TypeOK, Jobs
  <2> QED BY <2>2, <2>3
<1> QED BY <1>1, <1>2 DEF CreateJob

LEMMA SuccessionTyped ==
    ASSUME TypeOK, NEW w \in Workers, NEW kind \in Kind, Succession(w, kind)
    PROVE  /\ jobs' \in [Jobs -> Row] /\ latest' \in 0..MaxJobs
           /\ work' \in [Workers -> Work]
<1>1. work[w] \in Work
      BY WorkTyped
<1>2. Owns(w) => {work[w].job} \subseteq Jobs
      BY <1>1 DEF Owns, Work, Jobs
<1>3. (IF Owns(w) THEN {work[w].job} ELSE Room(kind)) \subseteq Jobs
      BY <1>2, CreateTyped
<1> QED BY <1>3, CreateTyped, WorkTyped DEF Succession

------------------------------------------------------------------------------
(* Types: one group of actions at a time.                                   *)

\* Most steps write the row, the cluster and the jobs, and leave the rest.
Quiet == UNCHANGED <<binding, qr, latest, reaper, recon, ops, faults>>
HistoryTyped == overlapped' \in BOOLEAN /\ disturbed' \in BOOLEAN /\ abandoned' \in BOOLEAN
RunTyped == jobs' \in [Jobs -> Row] /\ work' \in [Workers -> Work]

LEMMA QuietTyped ==
    ASSUME TypeOK, Quiet, app' \in App, k8s' \in Deployment, RunTyped, HistoryTyped
    PROVE  TypeOK'
<1> QED BY DEF TypeOK, Quiet, RunTyped, HistoryTyped

LEMMA EndsTyped ==
    ASSUME TypeOK, NEW w \in Workers
    PROVE  /\ HandlerError(w) => RunTyped /\ HistoryTyped
           /\ Succeed(w) /\ UNCHANGED history => RunTyped /\ HistoryTyped
           /\ \A pc \in Step : Goto(w, pc) /\ UNCHANGED <<jobs, history>> =>
                                 RunTyped /\ HistoryTyped
<1> USE DEF RunTyped, HistoryTyped
<1>1. HandlerError(w) => RunTyped /\ HistoryTyped
      BY ErrorTyped
<1>2. Succeed(w) /\ UNCHANGED history => RunTyped /\ HistoryTyped
      BY SucceedTyped DEF history, TypeOK
<1>3. \A pc \in Step : Goto(w, pc) /\ UNCHANGED <<jobs, history>> =>
                         RunTyped /\ HistoryTyped
      BY WorkTyped DEF history, TypeOK
<1> QED BY <1>1, <1>2, <1>3

LEMMA InitializeTyped ==
    ASSUME TypeOK, NEW w \in Workers, Initialize(w)
    PROVE  TypeOK'
<1>1. app \in App /\ k8s \in Deployment /\ work[w] \in Work /\ jobs \in [Jobs -> Row]
      /\ work \in [Workers -> Work]
      BY DEF TypeOK
<1>2. work[w].ver \in 1..MaxVersion /\ work[w].at \in Status
      BY <1>1 DEF Work
<1>3. CASE LoadInit(w)
  <2>1. Quiet /\ UNCHANGED <<app, k8s, history>>
        BY <1>3 DEF LoadInit, quiet, channel, caretakers, Quiet
  <2>2. RunTyped
    <3>1. CASE Succeed(w)
          BY <3>1, SucceedTyped DEF RunTyped
    <3>2. CASE /\ work' = [work EXCEPT ![w].pc = IF app.status = "binding_waiting"
                                              THEN "resume" ELSE "pulling",
                                    ![w].at = app.status, ![w].ver = app.version]
               /\ UNCHANGED jobs
      <4> DEFINE pc == IF app.status = "binding_waiting" THEN "resume" ELSE "pulling"
      <4>1. pc \in Step /\ app.status \in Status /\ app.version \in 1..MaxVersion
            BY <1>1 DEF Step, InitStatus, App
      <4> HIDE DEF pc
      <4>2. \A k \in Work : [k EXCEPT !.pc = pc, !.at = app.status, !.ver = app.version] \in Work
            BY <4>1 DEF Work
      <4>3. work' = [work EXCEPT ![w] = [work[w] EXCEPT !.pc = pc, !.at = app.status,
                                                        !.ver = app.version]]
            BY <1>1, <3>2 DEF pc
      <4>4. [work[w] EXCEPT !.pc = pc, !.at = app.status, !.ver = app.version] \in Work
            BY <1>1, <4>2
      <4>5. work' \in [Workers -> Work]
            BY <1>1, <4>3, <4>4
      <4>6. jobs' \in [Jobs -> Row]
            BY <1>1, <3>2
      <4> QED BY <4>5, <4>6 DEF RunTyped
    <3> QED BY <1>3, <3>1, <3>2 DEF LoadInit
  <2>3. HistoryTyped
        BY <2>1 DEF history, HistoryTyped, TypeOK
  <2> QED BY <1>1, <2>1, <2>2, <2>3, QuietTyped
<1>4. CASE TransitionTo(w)
  <2> DEFINE at == work[w].at
             to == work[w].pc
  <2>1. Quiet /\ UNCHANGED k8s
        BY <1>4 DEF TransitionTo, quiet, channel, caretakers, Quiet
  <2>2. /\ to \in InitStatus \cup {"binding_waiting"}
        /\ AfterPhase[to] \in Step
        BY <1>4 DEF TransitionTo, AfterPhase, InitStatus, Step
  <2>3. CASE MarkFailed(w)
    <3>1. app' \in App
          BY <2>3, StatusTyped DEF MarkFailed
    <3>2. RunTyped /\ HistoryTyped
          BY <2>3, EndsTyped DEF MarkFailed
    <3> QED BY <1>1, <2>1, <3>1, <3>2, QuietTyped
  <2>4. CASE ~MarkFailed(w)
    <3>1. /\ app' = [app EXCEPT !.status = IF at = to THEN @ ELSE to,
                                !.phase = IF to = "starting" THEN "down" ELSE @]
          /\ work' = [work EXCEPT ![w].pc = AfterPhase[to],
                                  ![w].at = IF at = to THEN @ ELSE to]
          /\ UNCHANGED <<jobs, history>>
          BY <1>4, <2>4 DEF TransitionTo
    <3>2. app' \in App
      <4>1. to \in Status
            BY <2>2 DEF Status
      <4> HIDE DEF to, at
      <4> QED BY <1>1, <3>1, <4>1 DEF App
    <3>3. work' \in [Workers -> Work]
      <4> DEFINE pc == AfterPhase[to]
                 now == IF at = to THEN at ELSE to
      <4>1. pc \in Step /\ now \in Status
            BY <1>2, <2>2 DEF Status
      <4>2. work' = [work EXCEPT ![w] = [work[w] EXCEPT !.pc = pc, !.at = now]]
            BY <1>1, <3>1 DEF Work
      <4> HIDE DEF pc, now
      <4>3. [work[w] EXCEPT !.pc = pc, !.at = now] \in Work
            BY <1>1, <4>1 DEF Work
      <4> QED BY <1>1, <4>2, <4>3
    <3>4. RunTyped /\ HistoryTyped
          BY <3>1, <3>3 DEF RunTyped, HistoryTyped, history, TypeOK
    <3> QED BY <1>1, <2>1, <3>2, <3>4, QuietTyped
  <2> QED BY <2>3, <2>4
<1>5. CASE PhaseCreate(w)
  <2>1. Quiet /\ UNCHANGED app /\ RunTyped /\ HistoryTyped
        BY <1>5, EndsTyped DEF PhaseCreate, quiet, channel, caretakers, Quiet, Step, InitStatus
  <2>2. k8s' \in Deployment
        BY <1>2, <1>5, ClusterTyped DEF PhaseCreate
  <2> QED BY <1>1, <2>1, <2>2, QuietTyped
<1>6. CASE WaitReady(w)
  <2>1. Quiet /\ UNCHANGED k8s
        BY <1>6 DEF WaitReady, quiet, channel, caretakers, Quiet
  <2>2. app' \in App /\ RunTyped /\ HistoryTyped
        BY <1>1, <1>6, EndsTyped, StatusTyped DEF WaitReady, MarkFailed, Step
  <2> QED BY <1>1, <2>1, <2>2, QuietTyped
<1>7. CASE StampApplied(w)
  <2>1. Quiet /\ UNCHANGED k8s /\ RunTyped /\ HistoryTyped
        BY <1>7, EndsTyped DEF StampApplied, quiet, channel, caretakers, Quiet, Step
  <2>2. app' \in App
    <3>1. work[w].ver \in 0..MaxVersion
          BY <1>2
    <3>2. app' = [app EXCEPT !.phase = "ready", !.applied = work[w].ver]
          BY <1>7 DEF StampApplied
    <3> QED BY <1>1, <3>1, <3>2 DEF App
  <2> QED BY <1>1, <2>1, <2>2, QuietTyped
<1>8. CASE PromoteIfChannelBound(w)
  <2>1. Quiet /\ UNCHANGED k8s /\ RunTyped /\ HistoryTyped
        BY <1>8, EndsTyped DEF PromoteIfChannelBound, quiet, channel, caretakers, Quiet
  <2>2. app' \in App
        BY <1>1, <1>8, StatusTyped DEF PromoteIfChannelBound
  <2> QED BY <1>1, <2>1, <2>2, QuietTyped
<1> QED BY <1>3, <1>4, <1>5, <1>6, <1>7, <1>8 DEF Initialize

LEMMA StartStopTyped ==
    ASSUME TypeOK, NEW w \in Workers, StartStop(w)
    PROVE  TypeOK'
<1>1. app \in App /\ k8s \in Deployment
      BY DEF TypeOK
<1>2. CASE LoadStart(w) \/ LoadStop(w)
      BY <1>1, <1>2, EndsTyped, QuietTyped
         DEF LoadStart, LoadStop, quiet, channel, caretakers, Quiet, Step
<1>3. CASE ScaleUp(w)
  <2>1. Quiet /\ RunTyped /\ HistoryTyped
        BY <1>3, EndsTyped DEF ScaleUp, quiet, channel, caretakers, Quiet, Step
  <2>2. app' \in App
        BY <1>1, <1>3, AppTyped DEF ScaleUp
  <2>3. k8s' \in Deployment
        BY <1>1, <1>3, ClusterTyped DEF ScaleUp
  <2> QED BY <2>1, <2>2, <2>3, QuietTyped
<1>4. CASE ScaleDown(w)
  <2>1. Quiet /\ UNCHANGED app /\ RunTyped /\ HistoryTyped
        BY <1>4, EndsTyped DEF ScaleDown, quiet, channel, caretakers, Quiet, Step
  <2>2. k8s' \in Deployment
        BY <1>1, <1>4, ClusterTyped DEF ScaleDown
  <2> QED BY <1>1, <2>1, <2>2, QuietTyped
<1>5. CASE RecordStatus(w)
      BY <1>1, <1>5, EndsTyped, QuietTyped, StatusTyped
         DEF RecordStatus, quiet, channel, caretakers, Quiet
<1> QED BY <1>2, <1>3, <1>4, <1>5 DEF StartStop

LEMMA RestartTyped ==
    ASSUME TypeOK, NEW w \in Workers, RestartApp(w)
    PROVE  TypeOK'
<1>1. /\ app \in App /\ k8s \in Deployment /\ jobs \in [Jobs -> Row]
      /\ work \in [Workers -> Work] /\ work[w] \in Work
      BY DEF TypeOK
<1>2. work[w].ver \in 1..MaxVersion
      BY <1>1 DEF Work
<1>3. CASE LoadRestart(w)
  <2>1. Quiet /\ UNCHANGED <<app, k8s>>
        BY <1>3 DEF LoadRestart, quiet, channel, caretakers, Quiet
  <2>2. CASE HandlerError(w)
        BY <1>1, <2>1, <2>2, EndsTyped, QuietTyped
  <2>3. CASE ~HandlerError(w)
    <3> DEFINE new == app.applied = 0 \/ Image[app.version] # Image[app.applied]
               pc == IF new THEN "update" ELSE "shut"
    <3>1. /\ work' = [work EXCEPT ![w] = [work[w] EXCEPT !.pc = pc, !.ver = app.version]]
          /\ Disturb(k8s.replicas = 0) /\ UNCHANGED <<abandoned, jobs>>
          BY <1>1, <1>3, <2>3 DEF LoadRestart
    <3>2. pc \in Step /\ app.version \in 1..MaxVersion
          BY <1>1 DEF Step, App
    <3> HIDE DEF pc, new
    <3>3. [work[w] EXCEPT !.pc = pc, !.ver = app.version] \in Work
          BY <1>1, <3>2 DEF Work
    <3>4. RunTyped /\ HistoryTyped
          BY <1>1, <3>1, <3>3 DEF RunTyped, HistoryTyped, Disturb, TypeOK
    <3> QED BY <1>1, <2>1, <3>4, QuietTyped
  <2> QED BY <2>2, <2>3
<1>4. CASE RestartImage(w) \/ RestartRollout(w)
  <2>1. Quiet /\ UNCHANGED app /\ RunTyped /\ HistoryTyped
        BY <1>4, EndsTyped DEF RestartImage, RestartRollout, quiet, channel, caretakers,
                               Quiet, Step
  <2>2. k8s' \in Deployment
        BY <1>1, <1>2, <1>4, ClusterTyped DEF RestartImage, RestartRollout
  <2> QED BY <1>1, <2>1, <2>2, QuietTyped
<1>5. CASE RestartRepull(w) \/ RestartStatus(w)
  <2>1. Quiet /\ UNCHANGED k8s /\ RunTyped /\ HistoryTyped
        BY <1>5, EndsTyped DEF RestartRepull, RestartStatus, quiet, channel, caretakers,
                               Quiet, Step
  <2>2. app' \in App
        BY <1>5, StatusTyped DEF RestartRepull, RestartStatus, InitStatus
  <2> QED BY <1>1, <2>1, <2>2, QuietTyped
<1>6. CASE RestartEnqueue(w)
      BY <1>6, SuccessionTyped DEF RestartEnqueue, channel, caretakers, history, Kind, TypeOK
<1>7. CASE ShutGate(w)
  <2>1. Quiet /\ UNCHANGED k8s /\ RunTyped /\ HistoryTyped
        BY <1>7, EndsTyped DEF ShutGate, quiet, channel, caretakers, Quiet, Step
  <2>2. app' \in App
        BY <1>1, <1>7, AppTyped DEF ShutGate
  <2> QED BY <1>1, <2>1, <2>2, QuietTyped
<1>8. CASE RestartApplied(w)
  <2>1. Quiet /\ UNCHANGED k8s /\ RunTyped /\ HistoryTyped
        BY <1>8, EndsTyped DEF RestartApplied, quiet, channel, caretakers, Quiet
  <2>2. app' \in App
        BY <1>1, <1>2, <1>8, AppTyped DEF RestartApplied
  <2> QED BY <1>1, <2>1, <2>2, QuietTyped
<1> QED BY <1>3, <1>4, <1>5, <1>6, <1>7, <1>8 DEF RestartApp

LEMMA DeleteTyped ==
    ASSUME TypeOK, NEW w \in Workers, DeleteApp(w)
    PROVE  TypeOK'
<1>1. app \in App /\ k8s \in Deployment
      BY DEF TypeOK
<1>2. CASE DeleteCluster(w)
  <2>1. Quiet /\ UNCHANGED app /\ RunTyped /\ HistoryTyped
        BY <1>2, EndsTyped DEF DeleteCluster, quiet, channel, caretakers, Quiet, Step
  <2>2. k8s' \in Deployment
        BY <1>2, ClusterTyped DEF DeleteCluster
  <2> QED BY <1>1, <2>1, <2>2, QuietTyped
<1>3. CASE SoftDelete(w)
  <2>1. Quiet /\ UNCHANGED k8s /\ RunTyped /\ HistoryTyped
        BY <1>3, EndsTyped DEF SoftDelete, quiet, channel, caretakers, Quiet
  <2>2. app' \in App
        BY <1>1, <1>3, StatusTyped DEF SoftDelete, App
  <2> QED BY <1>1, <2>1, <2>2, QuietTyped
<1> QED BY <1>2, <1>3 DEF DeleteApp

LEMMA FaultyTyped == TypeOK /\ (Faulty \/ UNCHANGED faults) => faults' \in 0..MaxFaults
<1> QED BY DEF TypeOK, Faulty

LEMMA RequestTyped == TypeOK /\ Request => ops' \in 0..MaxOps
<1> QED BY DEF TypeOK, Request

LEMMA RuntimeTyped ==
    ASSUME TypeOK,
           \/ \E w \in Workers : LeaseLost(w) \/ Fault(w) \/ Crash(w)
           \/ \E w \in Workers, j \in Jobs : Claim(w, j)
           \/ \E j \in Jobs : Recover(j)
    PROVE  TypeOK'
<1>1. /\ app \in App /\ jobs \in [Jobs -> Row] /\ work \in [Workers -> Work]
      /\ overlapped \in BOOLEAN /\ disturbed \in BOOLEAN /\ abandoned \in BOOLEAN
      BY DEF TypeOK
<1>2. ASSUME NEW w \in Workers, LeaseLost(w) \/ Crash(w)
      PROVE  TypeOK'
  <2>1. HistoryTyped /\ work' \in [Workers -> Work] /\ faults' \in 0..MaxFaults
        BY <1>1, <1>2, WorkTyped, FaultyTyped DEF LeaseLost, Crash, Disturb, HistoryTyped
  <2> QED BY <1>2, <2>1 DEF LeaseLost, Crash, channel, caretakers, TypeOK, HistoryTyped
<1>3. ASSUME NEW w \in Workers, Fault(w)
      PROVE  TypeOK'
  <2>1. RunTyped /\ HistoryTyped /\ faults' \in 0..MaxFaults
        BY <1>3, EndsTyped, FaultyTyped DEF Fault
  <2>2. app' \in App
        BY <1>1, <1>3, StatusTyped DEF Fault
  <2> QED BY <1>3, <2>1, <2>2 DEF Fault, channel, caretakers, TypeOK, RunTyped, HistoryTyped
<1>4. ASSUME NEW w \in Workers, NEW j \in Jobs, Claim(w, j)
      PROVE  TypeOK'
  <2>1. jobs[j] \in Row /\ jobs[j].attempts + 1 \in 0..MaxAttempts /\ jobs[j].kind \in Step
    <3>1. jobs[j] \in Row /\ jobs[j].attempts \in 0..MaxAttempts /\ jobs[j].kind \in Kind
          BY <1>1 DEF Row
    <3>2. ~(jobs[j].attempts >= MaxAttempts)
          BY <1>4 DEF Claim, Exhausted
    <3>3. jobs[j].attempts + 1 \in 0..MaxAttempts
          BY <3>1, <3>2
    <3>4. Kind \subseteq Step
          BY DEF Kind, Step
    <3> QED BY <3>1, <3>3, <3>4
  <2>2. jobs' \in [Jobs -> Row]
    <3> DEFINE n == jobs[j].attempts + 1
    <3>1. jobs' = [jobs EXCEPT ![j] = [jobs[j] EXCEPT !.status = "running", !.lease = w,
                                                      !.attempts = n]]
          BY <1>1, <1>4 DEF Claim
    <3>2. n \in 0..MaxAttempts
          BY <2>1
    <3> HIDE DEF n
    <3>3. [jobs[j] EXCEPT !.status = "running", !.lease = w, !.attempts = n] \in Row
          BY <2>1, <3>2 DEF Row
    <3> QED BY <1>1, <3>1, <3>3
  <2>3. work' \in [Workers -> Work]
    <3> DEFINE kind == jobs[j].kind
    <3>1. work' = [work EXCEPT ![w] = [work[w] EXCEPT !.pc = kind, !.job = j]]
          BY <1>1, <1>4 DEF Claim
    <3>2. kind \in Step /\ j \in 0..MaxJobs /\ work[w] \in Work
          BY <1>1, <2>1 DEF Jobs
    <3> HIDE DEF kind
    <3>3. [work[w] EXCEPT !.pc = kind, !.job = j] \in Work
          BY <3>2 DEF Work
    <3> QED BY <1>1, <3>1, <3>3
  <2>4. overlapped' \in BOOLEAN
        BY <1>1, <1>4 DEF Claim
  <2> QED BY <1>4, <2>2, <2>3, <2>4 DEF Claim, channel, caretakers, TypeOK
<1>5. ASSUME NEW j \in Jobs, Recover(j)
      PROVE  TypeOK'
  <2>1. jobs' \in [Jobs -> Row]
        BY <1>1, <1>5, EndedTyped DEF Recover
  <2>2. HistoryTyped /\ faults' \in 0..MaxFaults
        BY <1>1, <1>5, FaultyTyped DEF Recover, Disturb, HistoryTyped
  <2> QED BY <1>5, <2>1, <2>2 DEF Recover, channel, caretakers, TypeOK, HistoryTyped
<1> QED BY <1>2, <1>3, <1>4, <1>5

LEMMA LoginTyped ==
    ASSUME TypeOK, NEW w \in Workers, Login(w)
    PROVE  TypeOK'
<1>1. app \in App /\ k8s \in Deployment /\ work \in [Workers -> Work] /\ work[w] \in Work
      BY DEF TypeOK
<1> USE DEF TypeOK, channel, caretakers, history, quiet
<1>2. CASE LoadLogin(w)
  <2>1. CASE Succession(w, "login")
        BY <1>2, <2>1, SuccessionTyped DEF LoadLogin, Kind
  <2>2. CASE ~Succession(w, "login")
    <3>1. RunTyped
          BY <1>2, <2>2, EndsTyped DEF LoadLogin, Step
    <3> QED BY <1>2, <2>2, <3>1 DEF LoadLogin, RunTyped
  <2> QED BY <2>1, <2>2
<1>3. CASE BeginLogin(w)
  <2>1. CASE Succession(w, "check") /\ UNCHANGED history
        BY <1>3, <2>1, SuccessionTyped DEF BeginLogin, Kind
  <2>2. CASE HandlerError(w)
    <3>1. RunTyped /\ HistoryTyped
          BY <2>2, EndsTyped
    <3> QED BY <1>3, <2>2, <3>1, SuccessionTyped DEF BeginLogin, RunTyped, HistoryTyped, Kind
  <2> QED BY <1>3, <2>1, <2>2 DEF BeginLogin
<1>4. CASE LoadCheck(w)
  <2>1. CASE Succeed(w)
    <3>1. RunTyped
          BY <2>1, SucceedTyped DEF RunTyped
    <3> QED BY <1>4, <3>1 DEF LoadCheck, RunTyped
  <2>2. CASE ~Succeed(w)
    <3>1. work' = [work EXCEPT ![w] = [work[w] EXCEPT !.pc = "poll", !.at = app.status]]
          BY <1>1, <1>4, <2>2 DEF LoadCheck
    <3>2. [work[w] EXCEPT !.pc = "poll", !.at = app.status] \in Work
      <4>1. app.status \in Status /\ "poll" \in Step
            BY <1>1 DEF App, Step
      <4> QED BY <1>1, <4>1 DEF Work
    <3> QED BY <1>1, <1>4, <2>2, <3>1, <3>2 DEF LoadCheck
  <2> QED BY <2>1, <2>2
<1>5. CASE PollBinding(w)
  <2>1. CASE Succession(w, "check")
        BY <1>5, <2>1, SuccessionTyped DEF PollBinding, Kind
  <2>2. CASE ~Succession(w, "check")
    <3>1. RunTyped
          BY <1>5, <2>2, EndsTyped DEF PollBinding, Step
    <3> QED BY <1>5, <2>2, <3>1 DEF PollBinding, RunTyped
  <2> QED BY <2>1, <2>2
<1>6. CASE ReloadPod(w)
  <2>1. k8s' \in Deployment /\ faults' \in 0..MaxFaults
        BY <1>1, <1>6, ClusterTyped, FaultyTyped DEF ReloadPod
  <2>2. work' \in [Workers -> Work]
        BY <1>6, WorkTyped DEF ReloadPod, Step
  <2> QED BY <1>6, <2>1, <2>2 DEF ReloadPod
<1>7. CASE FinalizeBound(w)
  <2>1. app' \in App /\ RunTyped
        BY <1>1, <1>7, EndsTyped, StatusTyped DEF FinalizeBound
  <2> QED BY <1>7, <2>1 DEF FinalizeBound, RunTyped
<1> QED BY <1>2, <1>3, <1>4, <1>5, <1>6, <1>7 DEF Login

LEMMA UsersTyped == TypeOK /\ Users => TypeOK'
<1> SUFFICES ASSUME TypeOK, Users
             PROVE  TypeOK'
    OBVIOUS
<1>1. app \in App
      BY DEF TypeOK
<1> USE DEF channel, caretakers, history
<1>2. ASSUME NEW kind \in {"start", "stop", "restart", "delete"}, Trigger(kind)
      PROVE  TypeOK'
  <2>1. jobs' \in [Jobs -> Row] /\ latest' \in 0..MaxJobs /\ ops' \in 0..MaxOps
        BY <1>2, CreateTyped, RequestTyped DEF Trigger, Kind
  <2> QED BY <1>2, <2>1 DEF Trigger, TypeOK
<1>3. CASE RequestInitialize
  <2>1. app' \in App /\ ops' \in 0..MaxOps /\ faults' \in 0..MaxFaults
        BY <1>3, StatusTyped, RequestTyped, FaultyTyped DEF RequestInitialize, InitStatus
  <2>2. jobs' \in [Jobs -> Row] /\ latest' \in 0..MaxJobs
        BY <1>3, CreateTyped DEF RequestInitialize, Kind, TypeOK
  <2> QED BY <1>3, <2>1, <2>2 DEF RequestInitialize, TypeOK
<1>4. CASE BeginAuth
  <2>1. jobs' \in [Jobs -> Row] /\ latest' \in 0..MaxJobs /\ ops' \in 0..MaxOps
        BY <1>4, CreateTyped, RequestTyped DEF BeginAuth, Kind
  <2> QED BY <1>4, <2>1 DEF BeginAuth, TypeOK
<1>5. CASE Unbind
  <2>1. ops' \in 0..MaxOps /\ faults' \in 0..MaxFaults
        BY <1>5, RequestTyped, FaultyTyped DEF Unbind
  <2> QED BY <1>5, <2>1 DEF Unbind, TypeOK
<1>6. CASE ScanQR
      BY <1>6 DEF ScanQR, TypeOK
<1>7. ASSUME NEW v \in 1..MaxVersion, SwitchAppVersion(v)
      PROVE  TypeOK'
  <2>1. app' \in App /\ ops' \in 0..MaxOps
    <3>1. app' = [app EXCEPT !.version = v, !.applied = 0] /\ ops' \in 0..MaxOps
          BY <1>7, RequestTyped DEF SwitchAppVersion
    <3>2. 0 \in 0..MaxVersion
          OBVIOUS
    <3>3. app' \in App
          BY <1>1, <3>1, <3>2 DEF App
    <3> QED BY <3>1, <3>3
  <2> QED BY <1>7, <2>1 DEF SwitchAppVersion, TypeOK
<1>8. CASE DeleteMember
  <2>1. app' \in App /\ ops' \in 0..MaxOps /\ faults' \in 0..MaxFaults
        BY <1>1, <1>8, StatusTyped, RequestTyped, FaultyTyped DEF DeleteMember, App
  <2>2. jobs' \in [Jobs -> Row] /\ latest' \in 0..MaxJobs /\ abandoned' \in BOOLEAN
        BY <1>8, CreateTyped DEF DeleteMember, Kind, TypeOK
  <2> QED BY <1>8, <2>1, <2>2 DEF DeleteMember, TypeOK
<1> QED BY <1>2, <1>3, <1>4, <1>5, <1>6, <1>7, <1>8 DEF Users

LEMMA EnsureTyped ==
    ASSUME TypeOK, EnsureInitJob
    PROVE  jobs' \in [Jobs -> Row] /\ latest' \in 0..MaxJobs
<1>1. CASE CreateJob("init")
      BY <1>1, CreateTyped DEF Kind
<1>2. CASE ~CreateJob("init")
  <2>1. /\ latest # 0
        /\ jobs' = [jobs EXCEPT ![latest].status = "pending", ![latest].lease = None]
        /\ UNCHANGED latest
        BY <1>2 DEF EnsureInitJob
  <2>2. jobs \in [Jobs -> Row] /\ latest \in Jobs
        BY <2>1 DEF TypeOK, Jobs
  <2>3. jobs' = [jobs EXCEPT ![latest] = [jobs[latest] EXCEPT !.status = "pending",
                                                              !.lease = None]]
        BY <2>1, <2>2
  <2>4. [jobs[latest] EXCEPT !.status = "pending", !.lease = None] \in Row
        BY <2>2, RowTyped
  <2>5. jobs' \in [Jobs -> Row]
        BY <2>2, <2>3, <2>4
  <2> QED BY <2>1, <2>5 DEF TypeOK
<1> QED BY <1>1, <1>2

LEMMA CaretakersTyped ==
    ASSUME TypeOK, \/ Reaper \/ SlowReaper \/ LateReaper
                   \/ Reconciler \/ SlowReconciler \/ LateReconciler
    PROVE  TypeOK'
<1>1. app \in App
      BY DEF TypeOK
<1> USE DEF channel, caretakers, history
<1>2. ASSUME NEW slow \in BOOLEAN, ReapApp(slow), faults' \in 0..MaxFaults
      PROVE  TypeOK'
  <2>1. app' \in App
        BY <1>2, StatusTyped DEF ReapApp, InitStatus
  <2>2. jobs' \in [Jobs -> Row] /\ latest' \in 0..MaxJobs
        BY <1>2, EnsureTyped DEF ReapApp, TypeOK
  <2> QED BY <1>2, <2>1, <2>2 DEF ReapApp, TypeOK
<1>3. ASSUME NEW pod, Reconcile(pod), faults' \in 0..MaxFaults
      PROVE  TypeOK'
  <2>1. app' \in App
    <3> DEFINE phase == IF pod = "ready" THEN "ready" ELSE "down"
               status == IF pod = "bad" /\ app.status = "running" THEN "error" ELSE app.status
    <3>1. phase \in {"down", "ready"} /\ status \in Status
          BY <1>1, StatusTyped DEF App
    <3>2. app' = app \/ app' = [app EXCEPT !.phase = phase, !.status = status]
          BY <1>1, <1>3 DEF Reconcile, App
    <3> HIDE DEF phase, status
    <3> QED BY <1>1, <3>1, <3>2 DEF App
  <2>2. jobs' \in [Jobs -> Row] /\ latest' \in 0..MaxJobs
        BY <1>3, EnsureTyped DEF Reconcile, TypeOK
  <2> QED BY <1>3, <2>1, <2>2 DEF Reconcile, TypeOK
<1>4. faults' \in 0..MaxFaults
      BY FaultyTyped DEF Reaper, SlowReaper, LateReaper, Reconciler, SlowReconciler,
                         LateReconciler
<1>5. CASE Reaper \/ LateReaper
      BY <1>2, <1>4, <1>5 DEF Reaper, LateReaper
<1>6. CASE SlowReaper
  <2>1. CASE ReapApp(TRUE)
        BY <1>2, <1>4, <2>1
  <2>2. CASE ~ReapApp(TRUE)
        BY <1>4, <1>6, <2>2 DEF SlowReaper, TypeOK
  <2> QED BY <2>1, <2>2
<1>7. CASE Reconciler \/ LateReconciler
      BY <1>3, <1>4, <1>7 DEF Reconciler, LateReconciler
<1>8. CASE SlowReconciler
      BY <1>4, <1>8 DEF SlowReconciler, TypeOK
<1> QED BY <1>5, <1>6, <1>7, <1>8

LEMMA PodTyped == TypeOK /\ (Pod \/ PodFails) => TypeOK'
<1> SUFFICES ASSUME TypeOK, Pod \/ PodFails
             PROVE  TypeOK'
    OBVIOUS
<1>1. faults' \in 0..MaxFaults
      BY FaultyTyped DEF Pod, PodFails
<1>2. k8s' \in Deployment
  <2>1. app \in App /\ k8s \in Deployment
        BY DEF TypeOK
  <2>2. CASE PodBoots
    <3>1. app.version \in 0..MaxVersion
          BY <2>1 DEF App
    <3>2. k8s' = [k8s EXCEPT !.pod = "ready", !.ver = app.version]
          BY <2>2 DEF PodBoots
    <3> QED BY <2>1, <3>1, <3>2 DEF Deployment
  <2>3. CASE PodEnds \/ PodFails
        BY <2>1, <2>3 DEF PodEnds, PodFails, Deployment
  <2> QED BY <2>2, <2>3 DEF Pod
<1> QED BY <1>1, <1>2 DEF Pod, PodFails, channel, caretakers, history, TypeOK

LEMMA InitTyped == Init => TypeOK
<1> SUFFICES ASSUME Init
             PROVE  TypeOK
    OBVIOUS
<1>1. app \in App
      BY StatusTyped DEF Init, App
<1>2. k8s \in Deployment
      BY DEF Init, Deployment
<1>3. jobs \in [Jobs -> Row]
  <2>1. FreeRow \in Row /\ NewJob("init") \in Row
        BY RowTyped DEF Kind
  <2> QED BY <2>1 DEF Init
<1>4. Idle \in Work
      BY StatusTyped DEF Idle, Work, Step
<1>5. work \in [Workers -> Work]
      BY <1>4 DEF Init
<1>6. latest \in 0..MaxJobs /\ ops \in 0..MaxOps /\ faults \in 0..MaxFaults
      BY DEF Init
<1>7. overlapped \in BOOLEAN /\ disturbed \in BOOLEAN /\ abandoned \in BOOLEAN
      BY Zenon DEF Init
<1>8. /\ binding = "unbound" /\ qr = "none" /\ reaper = "idle" /\ recon = "idle"
      BY DEF Init
<1> QED BY <1>1, <1>2, <1>3, <1>5, <1>6, <1>7, <1>8 DEF TypeOK

LEMMA NextTyped == TypeOK /\ [Next]_vars => TypeOK'
<1> SUFFICES ASSUME TypeOK, [Next]_vars
             PROVE  TypeOK'
    OBVIOUS
<1>1. CASE UNCHANGED vars
      BY <1>1 DEF vars, TypeOK
<1> QED BY <1>1, InitializeTyped, StartStopTyped, RestartTyped, DeleteTyped, RuntimeTyped,
           LoginTyped, UsersTyped, CaretakersTyped, PodTyped
        DEF Next, Handler

\* Every variable keeps its type: the row, the Deployment, the jobs, the copies that the
\* handlers work on, and what the caretakers have read.
THEOREM TypeCorrect == Spec => []TypeOK
<1> QED BY InitTyped, NextTyped, PTL DEF Spec

------------------------------------------------------------------------------
(* The jobs.  What a step leaves of them: which kinds of operation are      *)
(* still due, and which rows are still running.                             *)

Open(j)   == jobs[j].status \in {"pending", "running"}
Due(kind) == \E j \in Jobs : jobs[j].kind = kind /\ Open(j)

\* The operations that move the scale or the channel, and the steps of each.
Ops == {"init", "start", "stop", "delete"}
StepsOf(kind) ==
    CASE kind = "init"   -> InitSteps \cup {"init", "resume"}
      [] kind = "start"  -> {"start", "scale1", "started"}
      [] kind = "stop"   -> {"stop", "scale0", "stopped"}
      [] kind = "delete" -> {"delete", "archive"}
\* The newest initialization.
Latest == latest # 0 => jobs[latest].kind = "init" /\ jobs[latest].status # "free"

\* What a step does to the jobs: it ends none of an operation that is not in done.
Spares(done) ==
    /\ Latest'
    /\ \A j \in Jobs : jobs'[j].status = "running" => jobs'[j] = jobs[j]
    /\ \A kind \in Ops \ done : Due(kind) => Due(kind)'

LEMMA EndedRow ==
    ASSUME TypeOK, Latest, NEW j \in Jobs
    PROVE  /\ Ended(j).status \in {"free", "ended"}
           /\ j = latest => Ended(j).kind = "init" /\ Ended(j).status = "ended"
           /\ ~Exhausted(j) => /\ Retried(j).status = "pending"
                               /\ Retried(j).kind = jobs[j].kind
           /\ Exhausted(j) => Retried(j) = Ended(j)
<1>1. jobs[j] \in Row /\ latest \in 0..MaxJobs /\ j # 0
      BY DEF TypeOK, Jobs
<1>2. Ended(j).status \in {"free", "ended"}
      BY <1>1 DEF Ended, FreeRow, Row
<1>3. j = latest => Ended(j).kind = "init" /\ Ended(j).status = "ended"
      BY <1>1 DEF Ended, Row, Latest
<1>4. ~Exhausted(j) => Retried(j).status = "pending" /\ Retried(j).kind = jobs[j].kind
      BY <1>1 DEF Retried, Row
<1> QED BY <1>2, <1>3, <1>4 DEF Retried

\* One row is written: it ends, or it waits again with its kind.
LEMMA RowWritten ==
    ASSUME TypeOK, Latest, NEW j \in Jobs, NEW r \in Row, NEW done,
           jobs' = [jobs EXCEPT ![j] = r], UNCHANGED latest,
           r.status # "running",
           j = latest => r.kind = "init" /\ r.status # "free",
           \/ r.status = "pending" /\ r.kind = jobs[j].kind
           \/ ~Open(j)
           \/ \A kind \in Ops : jobs[j].kind = kind => kind \in done
    PROVE  Spares(done)
<1>1. jobs \in [Jobs -> Row] /\ latest \in 0..MaxJobs
      BY DEF TypeOK
<1>2. jobs'[j] = r /\ \A i \in Jobs \ {j} : jobs'[i] = jobs[i]
      BY <1>1
<1>3. Latest'
      BY <1>1, <1>2 DEF Latest, Jobs
<1>4. \A i \in Jobs : jobs'[i].status = "running" => jobs'[i] = jobs[i]
      BY <1>2
<1>5. ASSUME NEW kind \in Ops \ done, Due(kind)
      PROVE  Due(kind)'
  <2>1. PICK i \in Jobs : jobs[i].kind = kind /\ Open(i)
        BY <1>5 DEF Due
  <2>2. jobs'[i].kind = kind /\ Open(i)'
        BY <1>2, <2>1 DEF Open
  <2> QED BY <2>2 DEF Due
<1> QED BY <1>3, <1>4, <1>5 DEF Spares

LEMMA NothingWritten ==
    ASSUME TypeOK, Latest, NEW done, UNCHANGED <<jobs, latest>>
    PROVE  Spares(done)
<1> QED BY DEF Spares, Latest, Due, Open

LEMMA SucceedSpares ==
    ASSUME TypeOK, Latest, NEW w \in Workers, NEW done, Succeed(w), UNCHANGED latest,
           \A kind \in Ops : Owns(w) /\ jobs[work[w].job].kind = kind => kind \in done
    PROVE  Spares(done)
<1>1. CASE Owns(w)
  <2> DEFINE j == work[w].job
             r == Ended(j)
  <2>1. work[w] \in Work
        BY DEF TypeOK
  <2>2. j \in Jobs
        BY <1>1, <2>1 DEF Owns, Work, Jobs
  <2>3. /\ r \in Row /\ r.status \in {"free", "ended"}
        /\ j = latest => r.kind = "init" /\ r.status = "ended"
        BY <2>2, EndedTyped, EndedRow
  <2>4. jobs' = [jobs EXCEPT ![j] = r]
        BY <1>1 DEF Succeed
  <2>5. \A kind \in Ops : jobs[j].kind = kind => kind \in done
        BY <1>1
  <2> HIDE DEF j, r
  <2> QED BY <2>2, <2>3, <2>4, <2>5, RowWritten
<1>2. CASE ~Owns(w)
  <2>1. UNCHANGED <<jobs, latest>>
        BY <1>2 DEF Succeed
  <2> QED BY <2>1, NothingWritten
<1> QED BY <1>1, <1>2

LEMMA RetrySpares ==
    ASSUME TypeOK, Latest, NEW j \in Jobs, ~Exhausted(j),
           jobs' = [jobs EXCEPT ![j] = Retried(j)], UNCHANGED latest
    PROVE  Spares({})
<1> DEFINE r == Retried(j)
<1>1. r \in Row /\ r.status = "pending" /\ r.kind = jobs[j].kind
      BY EndedTyped, EndedRow
<1>2. j = latest => r.kind = "init"
      BY <1>1 DEF Latest, Jobs
<1>3. jobs' = [jobs EXCEPT ![j] = r]
      OBVIOUS
<1> HIDE DEF r
<1> QED BY <1>1, <1>2, <1>3, RowWritten

LEMMA ErrorSpares ==
    ASSUME TypeOK, Latest, NEW w \in Workers, HandlerError(w), UNCHANGED latest, ~disturbed'
    PROVE  Spares({})
<1>1. CASE Owns(w)
  <2> DEFINE j == work[w].job
  <2>1. work[w] \in Work
        BY DEF TypeOK
  <2>2. j \in Jobs
        BY <1>1, <2>1 DEF Owns, Work, Jobs
  <2>3. ~Exhausted(j)
        BY <1>1 DEF HandlerError, Disturb
  <2>4. jobs' = [jobs EXCEPT ![j] = Retried(j)]
        BY <1>1 DEF HandlerError
  <2> HIDE DEF j
  <2> QED BY <2>2, <2>3, <2>4, RetrySpares
<1>2. CASE ~Owns(w)
      BY <1>2, NothingWritten DEF HandlerError
<1> QED BY <1>1, <1>2

LEMMA RecoverSpares ==
    ASSUME TypeOK, Latest, NEW j \in Jobs, Recover(j), ~disturbed'
    PROVE  Spares({})
<1>1. ~Exhausted(j) /\ jobs' = [jobs EXCEPT ![j] = Retried(j)] /\ UNCHANGED latest
      BY DEF Recover, Disturb
<1> QED BY <1>1, RetrySpares

\* A job is created on a row of the room: the room is free, or it is the initialization
\* that is replaced, or the row of the job that ends.
LEMMA CreateSpares ==
    ASSUME TypeOK, Latest, NEW kind \in Kind, NEW room \in SUBSET Jobs, NEW done,
           CreateIn(room, kind),
           \A j \in room : /\ j = latest => kind = "init"
                           /\ \/ ~Open(j)
                              \/ jobs[j].kind = kind
                              \/ \A k \in Ops : jobs[j].kind = k => k \in done
    PROVE  Spares(done) /\ Due(kind)'
<1>1. PICK j \in room :
        /\ jobs' = [i \in Jobs |-> IF i = j THEN NewJob(kind)
                                   ELSE IF i \in Replaced(kind) THEN FreeRow ELSE jobs[i]]
        /\ latest' = IF kind = "init" THEN j ELSE latest
      BY DEF CreateIn
<1>2. jobs \in [Jobs -> Row] /\ latest \in 0..MaxJobs /\ j \in Jobs /\ j # 0
      BY DEF TypeOK, Jobs
<1>3. Replaced(kind) \subseteq {latest} /\ (kind # "init" => Replaced(kind) = {})
      BY DEF Replaced
<1>4. jobs'[j].kind = kind /\ jobs'[j].status = "pending"
      BY <1>1, <1>2 DEF NewJob, FreeRow
<1>5. \A i \in Jobs \ {j} : \/ jobs'[i] = jobs[i]
                            \/ kind = "init" /\ i = latest /\ jobs'[i] = FreeRow
      BY <1>1, <1>2, <1>3
<1>6. Due(kind)'
      BY <1>2, <1>4 DEF Due, Open
<1>7. Latest'
  <2>1. CASE kind = "init"
        BY <1>1, <1>4, <2>1 DEF Latest
  <2>2. CASE kind # "init"
    <3>1. latest' = latest /\ j # latest
          BY <1>1, <2>2
    <3>2. latest # 0 => latest \in Jobs \ {j}
          BY <1>2, <3>1 DEF Jobs
    <3>3. latest # 0 => jobs'[latest] = jobs[latest]
          BY <1>5, <2>2, <3>2
    <3> QED BY <3>1, <3>3 DEF Latest
  <2> QED BY <2>1, <2>2
<1>8. \A i \in Jobs : jobs'[i].status = "running" => jobs'[i] = jobs[i]
  <2>1. FreeRow.status = "free"
        BY DEF FreeRow
  <2> QED BY <1>4, <1>5, <2>1
<1>9. ASSUME NEW k \in Ops \ done, Due(k)
      PROVE  Due(k)'
  <2>1. CASE k = kind
        BY <1>6, <2>1
  <2>2. CASE k # kind
    <3>1. PICK i \in Jobs : jobs[i].kind = k /\ Open(i)
          BY <1>9 DEF Due
    <3>2. i # j
          BY <2>2, <3>1
    <3>3. kind = "init" => i # latest
          BY <1>2, <2>2, <3>1 DEF Latest, Jobs
    <3>4. jobs'[i] = jobs[i]
          BY <1>5, <3>2, <3>3
    <3> QED BY <3>1, <3>4 DEF Due, Open
  <2> QED BY <2>1, <2>2
<1> QED BY <1>6, <1>7, <1>8, <1>9 DEF Spares

LEMMA RoomIsOver ==
    ASSUME TypeOK, Latest, NEW kind \in Kind, NEW j \in Room(kind)
    PROVE  (j = latest => kind = "init") /\ (~Open(j) \/ jobs[j].kind = kind)
<1>1. CASE j \in Replaced(kind)
      BY <1>1 DEF Replaced, Latest
<1>2. CASE j \notin Replaced(kind)
  <2>1. j \in Jobs /\ jobs[j].status = "free"
        BY <1>2 DEF Room
  <2> QED BY <2>1 DEF Open, Latest, Jobs
<1> QED BY <1>1, <1>2

LEMMA CreateJobSpares ==
    ASSUME TypeOK, Latest, NEW kind \in Kind, CreateJob(kind)
    PROVE  Spares({}) /\ Due(kind)'
<1> DEFINE room == Room(kind)
<1>1. room \in SUBSET Jobs
      BY CreateTyped
<1>2. CreateIn(room, kind)
      BY DEF CreateJob
<1>3. \A j \in room : (j = latest => kind = "init") /\ (~Open(j) \/ jobs[j].kind = kind)
      BY RoomIsOver
<1> HIDE DEF room
<1> QED BY <1>1, <1>2, <1>3, CreateSpares

LEMMA SuccessionSpares ==
    ASSUME TypeOK, Latest, NEW w \in Workers, NEW kind \in Kind, Succession(w, kind),
           Owns(w) => jobs[work[w].job].kind \notin Ops
    PROVE  Spares({}) /\ Due(kind)'
<1>1. CASE Owns(w)
  <2> DEFINE j == work[w].job
  <2>1. work[w] \in Work
        BY DEF TypeOK
  <2>2. j \in Jobs
        BY <1>1, <2>1 DEF Owns, Work, Jobs
  <2>3. CreateIn({j}, kind) /\ jobs[j].kind \notin Ops
        BY <1>1 DEF Succession
  <2>4. j # latest
        BY <2>2, <2>3 DEF Latest, Jobs, Ops
  <2> HIDE DEF j
  <2> QED BY <2>2, <2>3, <2>4, CreateSpares
<1>2. CASE ~Owns(w)
  <2>1. CreateJob(kind)
        BY <1>2 DEF Succession, CreateJob
  <2> QED BY <2>1, CreateJobSpares
<1> QED BY <1>1, <1>2

LEMMA EnsureSpares ==
    ASSUME TypeOK, Latest, EnsureInitJob
    PROVE  Spares({})
<1>1. CASE CreateJob("init")
      BY <1>1, CreateJobSpares DEF Kind
<1>2. CASE ~CreateJob("init")
  <2>1. /\ latest # 0 /\ UNCHANGED latest
        /\ jobs' = [jobs EXCEPT ![latest].status = "pending", ![latest].lease = None]
        BY <1>2 DEF EnsureInitJob
  <2>2. jobs \in [Jobs -> Row] /\ latest \in Jobs
        BY <2>1 DEF TypeOK, Jobs
  <2>3. PICK j \in Jobs : j = latest
        BY <2>2
  <2> DEFINE r == [jobs[j] EXCEPT !.status = "pending", !.lease = None]
  <2>4. jobs' = [jobs EXCEPT ![j] = r]
        BY <2>1, <2>2, <2>3
  <2>5. r \in Row
        BY <2>2, RowTyped
  <2>6. r.status = "pending" /\ r.kind = jobs[j].kind /\ r.kind = "init"
        BY <2>1, <2>2, <2>3 DEF Row, Latest
  <2> HIDE DEF r
  <2> QED BY <2>1, <2>4, <2>5, <2>6, RowWritten
<1> QED BY <1>1, <1>2

LEMMA StepsKnown ==
    /\ StepsOf("init") = InitSteps \cup {"init", "resume"}
    /\ StepsOf("start") = {"start", "scale1", "started"}
    /\ StepsOf("stop") = {"stop", "scale0", "stopped"}
    /\ StepsOf("delete") = {"delete", "archive"}
    /\ InitSteps = {"pulling", "preparing", "creating", "starting", "ensure", "wait",
                    "binding_waiting", "stamp", "promote"}
<1> QED BY DEF StepsOf, InitSteps, InitStatus

LEMMA DueKept ==
    ASSUME NEW done, Spares(done)
    PROVE  /\ Latest'
           /\ "init" \notin done => (Due("init") => Due("init")')
           /\ "start" \notin done => (Due("start") => Due("start")')
           /\ "stop" \notin done => (Due("stop") => Due("stop")')
           /\ "delete" \notin done => (Due("delete") => Due("delete")')
<1> QED BY DEF Spares, Ops

------------------------------------------------------------------------------
(* The Deployment of a deleted app is gone or its deletion is due.  While   *)
(* no two handlers have overlapped, at most one worker is busy; the job of  *)
(* a deletion ends only after the cluster has been cleared, and when no     *)
(* deletion is due any more no initialization is under way.                 *)

OneHandler == \A v, w \in Workers : v # w => At(v, "idle") \/ At(w, "idle")
Undone == Due("delete") \/ abandoned
Cleared(w) == /\ At(w, "archive") => k8s.replicas = -1
              /\ app.deleted /\ ~Undone => k8s.replicas = -1 /\ work[w].pc \notin InitSteps

\* A worker that owns the job of an operation is in a step of that operation.
Mine(w) ==
    \A kind \in Ops : ~At(w, "idle") /\ Owns(w) /\ jobs[work[w].job].kind = kind =>
                          work[w].pc \in StepsOf(kind)
Down == /\ Latest /\ \A w \in Workers : Mine(w)
        /\ ~overlapped => /\ OneHandler
                          /\ app.deleted /\ ~Undone => k8s.replicas = -1
                          /\ \A w \in Workers : Cleared(w)

\* What a step of the worker w leaves alone.
Turn(w) == /\ ~At(w, "idle") /\ UNCHANGED overlapped
           /\ \A v \in Workers \ {w} : work'[v] = work[v]

\* What a step does to the jobs: it starts none, the worker w stays in the operation of
\* its own or ends, and a deletion that is due stays due or is abandoned.
Rows == Latest' /\ \A j \in Jobs : jobs'[j].status = "running" => jobs'[j] = jobs[j]
Carries(w) == \/ work'[w].pc = "idle"
              \/ /\ work'[w].job = work[w].job
                 /\ \A kind \in Ops : work[w].pc \in StepsOf(kind) =>
                                          work'[w].pc \in StepsOf(kind)
Owed == app.deleted /\ Undone => Undone'
Acts(w) == Rows /\ Carries(w) /\ Owed

LEMMA SparesOwe ==
    ASSUME NEW done, Spares(done), "delete" \notin done, abandoned => abandoned'
    PROVE  Rows /\ Owed
<1> QED BY DueKept DEF Spares, Rows, Owed, Undone

\* The job of a deletion that is given up leaves its mark.
LEMMA RetryOwes ==
    ASSUME TypeOK, Latest, NEW j \in Jobs, jobs' = [jobs EXCEPT ![j] = Retried(j)],
           UNCHANGED latest, abandoned' = (abandoned \/ LastDelete(j))
    PROVE  Rows /\ Owed
<1>1. CASE ~Exhausted(j)
      BY <1>1, RetrySpares, SparesOwe DEF LastDelete
<1>2. CASE Exhausted(j)
  <2> DEFINE r == Ended(j)
             done == {jobs[j].kind}
  <2>1. /\ jobs' = [jobs EXCEPT ![j] = r] /\ r \in Row /\ r.status \in {"free", "ended"}
        /\ j = latest => r.kind = "init" /\ r.status # "free"
        BY <1>2, EndedRow, EndedTyped
  <2>2. \A kind \in Ops : jobs[j].kind = kind => kind \in done
        OBVIOUS
  <2> HIDE DEF r
  <2>3. Spares(done)
        BY <2>1, <2>2, RowWritten
  <2>4. CASE jobs[j].kind = "delete"
        BY <1>2, <2>3, <2>4 DEF Spares, Rows, Owed, Undone, LastDelete
  <2>5. CASE jobs[j].kind # "delete"
        BY <2>3, <2>5, SparesOwe DEF LastDelete
  <2> QED BY <2>4, <2>5
<1> QED BY <1>1, <1>2

LEMMA NothingOwes ==
    ASSUME TypeOK, Latest, UNCHANGED <<jobs, latest, abandoned>>
    PROVE  Rows /\ Owed
<1> QED BY NothingWritten, SparesOwe

LEMMA ErrorActs ==
    ASSUME TypeOK, Latest, NEW w \in Workers, HandlerError(w), UNCHANGED latest
    PROVE  Rows /\ Owed
<1>1. CASE Owns(w)
  <2> DEFINE j == work[w].job
  <2>1. work[w] \in Work
        BY DEF TypeOK
  <2>2. j \in Jobs
        BY <1>1, <2>1 DEF Owns, Work, Jobs
  <2>3. jobs' = [jobs EXCEPT ![j] = Retried(j)] /\ abandoned' = (abandoned \/ LastDelete(j))
        BY <1>1 DEF HandlerError
  <2> HIDE DEF j
  <2> QED BY <2>2, <2>3, RetryOwes
<1>2. CASE ~Owns(w)
  <2>1. UNCHANGED jobs /\ (abandoned => abandoned')
        BY <1>2 DEF HandlerError
  <2>2. Spares({})
        BY <2>1, NothingWritten
  <2> QED BY <2>1, <2>2, SparesOwe
<1> QED BY <1>1, <1>2

\* Ending a job, going to another step.
LEMMA Goes ==
    ASSUME TypeOK, NEW w \in Workers, ~At(w, "idle")
    PROVE  /\ HandlerError(w) => Turn(w) /\ work'[w].pc = "idle"
           /\ Succeed(w) /\ UNCHANGED history => Turn(w) /\ work'[w].pc = "idle"
           /\ Stop(w) /\ UNCHANGED overlapped => Turn(w) /\ work'[w].pc = "idle"
           /\ \A pc \in Step : Goto(w, pc) /\ UNCHANGED history =>
                                 Turn(w) /\ work'[w].pc = pc /\ work'[w].job = work[w].job
<1>1. work \in [Workers -> Work] /\ work[w] \in Work
      BY DEF TypeOK
<1>2. Stop(w) => work'[w].pc = "idle" /\ \A v \in Workers \ {w} : work'[v] = work[v]
      BY <1>1 DEF Stop, Idle
<1>3. \A pc \in Step : Goto(w, pc) => /\ work'[w].pc = pc /\ work'[w].job = work[w].job
                                      /\ \A v \in Workers \ {w} : work'[v] = work[v]
      BY <1>1 DEF Goto, Work
<1> QED BY <1>2, <1>3 DEF HandlerError, Succeed, Disturb, history, Turn

\* What the ways to end a step do to the jobs.
LEMMA Acting ==
    ASSUME TypeOK, Down, NEW w \in Workers, ~At(w, "idle"), UNCHANGED latest
    PROVE  /\ HandlerError(w) => Acts(w)
           /\ Stop(w) /\ UNCHANGED <<jobs, history>> => Acts(w)
           /\ Succeed(w) /\ UNCHANGED history /\ work[w].pc \notin {"delete", "archive"} =>
                  Acts(w)
           /\ \A pc \in Step : Goto(w, pc) /\ UNCHANGED <<jobs, history>>
                               /\ (\A kind \in Ops : work[w].pc \in StepsOf(kind) =>
                                                         pc \in StepsOf(kind)) => Acts(w)
<1>1. Latest /\ Mine(w)
      BY DEF Down
<1>2. HandlerError(w) => Acts(w)
      BY <1>1, ErrorActs, Goes DEF Acts, Carries
<1>3. Stop(w) /\ UNCHANGED <<jobs, history>> => Acts(w)
  <2> SUFFICES ASSUME Stop(w), UNCHANGED <<jobs, history>>
               PROVE  Acts(w)
      OBVIOUS
  <2>1. UNCHANGED <<overlapped, abandoned>>
        BY DEF history
  <2> QED BY <1>1, <2>1, NothingOwes, Goes DEF Acts, Carries
<1>4. ASSUME Succeed(w), UNCHANGED history, work[w].pc \notin {"delete", "archive"}
      PROVE  Acts(w)
  <2> DEFINE done == Ops \ {"delete"}
  <2>1. \A kind \in Ops : Owns(w) /\ jobs[work[w].job].kind = kind => kind \in done
        BY <1>1, <1>4, StepsKnown DEF Mine
  <2> HIDE DEF done
  <2>2. Spares(done)
        BY <1>1, <1>4, <2>1, SucceedSpares
  <2>3. "delete" \notin done
        BY DEF done
  <2>4. Rows /\ Owed
        BY <1>4, <2>2, <2>3, SparesOwe DEF history
  <2> QED BY <1>4, <2>4, Goes DEF Acts, Carries
<1>5. ASSUME NEW pc \in Step, Goto(w, pc), UNCHANGED <<jobs, history>>,
             \A kind \in Ops : work[w].pc \in StepsOf(kind) => pc \in StepsOf(kind)
      PROVE  Acts(w)
  <2>1. Rows /\ Owed
        BY <1>1, <1>5, NothingOwes DEF history
  <2>2. work'[w].pc = pc /\ work'[w].job = work[w].job
        BY <1>5, Goes
  <2> QED BY <1>5, <2>1, <2>2 DEF Acts, Carries
<1> QED BY <1>2, <1>3, <1>4, <1>5

\* A step that is in no operation passes its job on.
LEMMA SuccessionActs ==
    ASSUME TypeOK, Down, NEW w \in Workers, ~At(w, "idle"), NEW kind \in Kind,
           Succession(w, kind), UNCHANGED history,
           \A k \in Ops : work[w].pc \notin StepsOf(k)
    PROVE  Acts(w) /\ Turn(w) /\ work'[w].pc = "idle"
<1>1. Latest /\ (Owns(w) => jobs[work[w].job].kind \notin Ops)
      BY DEF Down, Mine
<1>2. Spares({})
      BY <1>1, SuccessionSpares
<1>3. Rows /\ Owed
      BY <1>2, SparesOwe DEF history
<1> QED BY <1>3, Goes DEF Succession, history, Acts, Carries

LEMMA TurnDown ==
    ASSUME TypeOK, Down, NEW w \in Workers, Turn(w), Rows, Carries(w),
           ~overlapped /\ Cleared(w) => Cleared(w)'
    PROVE  Down'
<1>1. ASSUME NEW v \in Workers, Owns(v)', work'[v].job = work[v].job
      PROVE  Owns(v) /\ jobs'[work[v].job] = jobs[work[v].job]
  <2>1. work[v] \in Work
        BY DEF TypeOK
  <2>2. work[v].job \in Jobs
        BY <1>1, <2>1 DEF Owns, Work, Jobs
  <2> QED BY <1>1, <2>2 DEF Owns, Rows
<1>2. ASSUME NEW v \in Workers
      PROVE  Mine(v)'
  <2>1. Mine(v)
        BY DEF Down
  <2>2. CASE v # w
        BY <1>1, <2>1, <2>2 DEF Turn, Mine, At
  <2>3. CASE v = w
        BY <1>1, <2>1, <2>3 DEF Turn, Carries, Mine, At
  <2> QED BY <2>2, <2>3
<1>3. ASSUME ~overlapped
      PROVE  /\ OneHandler' /\ (app.deleted /\ ~Undone => k8s.replicas = -1)'
             /\ \A v \in Workers : Cleared(v)'
  <2>1. \A v \in Workers \ {w} : At(v, "idle") /\ At(v, "idle")'
        BY <1>3 DEF Down, OneHandler, Turn, At
  <2>2. OneHandler'
        BY <2>1 DEF OneHandler
  <2>3. Cleared(w)'
        BY <1>3 DEF Down
  <2>4. ASSUME NEW v \in Workers
        PROVE  Cleared(v)'
    <3>1. CASE v # w
      <4>1. work'[v].pc = "idle"
            BY <2>1, <3>1 DEF At
      <4> QED BY <2>3, <4>1 DEF Cleared, At, InitSteps, InitStatus
    <3> QED BY <2>3, <3>1
  <2> QED BY <2>2, <2>3, <2>4 DEF Cleared
<1> QED BY <1>2, <1>3 DEF Down, Turn, Rows

\* A step that leaves the deletion alone and brings no Deployment into being.
LEMMA PlainDown ==
    ASSUME TypeOK, Down, NEW w \in Workers, Turn(w), Acts(w), app'.deleted = app.deleted,
           k8s.replicas = -1 => k8s'.replicas = -1,
           work'[w].pc \notin InitSteps \cup {"archive"}
    PROVE  Down'
<1>1. ~overlapped /\ Cleared(w) => Cleared(w)'
      BY DEF Acts, Owed, Cleared, At
<1> QED BY <1>1, TurnDown DEF Acts

\* A step of an initialization does not go on with an app whose deletion is over.
LEMMA GoesOnDown ==
    ASSUME TypeOK, Down, NEW w \in Workers, Turn(w), Acts(w), app'.deleted = app.deleted,
           work[w].pc \in InitSteps, work'[w].pc # "archive"
    PROVE  Down'
<1>1. ~overlapped /\ Cleared(w) => Cleared(w)'
      BY DEF Acts, Owed, Cleared, At
<1> QED BY <1>1, TurnDown DEF Acts

LEMMA MarkFailedDown ==
    ASSUME TypeOK, Down, NEW w \in Workers, ~At(w, "idle"), MarkFailed(w),
           UNCHANGED <<k8s, latest>>
    PROVE  Down'
<1>1. Turn(w) /\ work'[w].pc = "idle" /\ Acts(w)
      BY Goes, Acting DEF MarkFailed
<1>2. app'.deleted = app.deleted
      BY DEF MarkFailed, SetStatus, TypeOK, App
<1> QED BY <1>1, <1>2, PlainDown DEF InitSteps, InitStatus

LEMMA InitializeDown ==
    ASSUME TypeOK, Down, NEW w \in Workers, Initialize(w)
    PROVE  Down'
<1>1. work \in [Workers -> Work] /\ work[w] \in Work /\ app \in App /\ k8s \in Deployment
      BY DEF TypeOK
<1>2. ~At(w, "idle") /\ UNCHANGED latest
      BY DEF Initialize, LoadInit, TransitionTo, PhaseCreate, WaitReady, StampApplied,
             PromoteIfChannelBound, AfterPhase, At, quiet
<1>3. CASE LoadInit(w)
  <2>1. UNCHANGED <<app, k8s, history>> /\ work[w].pc = "init"
        BY <1>3 DEF LoadInit, At
  <2>2. CASE Succeed(w)
    <3>1. Turn(w) /\ work'[w].pc = "idle" /\ Acts(w)
          BY <1>2, <2>1, <2>2, Goes, Acting
    <3> QED BY <2>1, <3>1, PlainDown DEF InitSteps, InitStatus
  <2>3. CASE ~Succeed(w)
    <3>1. /\ work' = [work EXCEPT ![w].pc = IF app.status = "binding_waiting"
                                            THEN "resume" ELSE "pulling",
                                  ![w].at = app.status, ![w].ver = app.version]
          /\ ~app.deleted /\ UNCHANGED jobs
          BY <1>3, <2>3 DEF LoadInit
    <3>2. /\ work'[w].pc \in {"resume", "pulling"} /\ work'[w].job = work[w].job
          /\ \A v \in Workers \ {w} : work'[v] = work[v]
          BY <1>1, <3>1 DEF Work
    <3>3. Carries(w)
          BY <2>1, <3>2, StepsKnown DEF Carries, Ops
    <3>4. Turn(w)
          BY <1>2, <2>1, <3>2 DEF Turn, history
    <3>5. Rows
          BY <1>2, <2>1, <3>1, NothingOwes DEF Down, history
    <3>6. Cleared(w)'
          BY <2>1, <3>1, <3>2 DEF Cleared, At
    <3> QED BY <3>3, <3>4, <3>5, <3>6, TurnDown
  <2> QED BY <2>2, <2>3
<1>4. CASE TransitionTo(w)
  <2>1. UNCHANGED k8s /\ work[w].pc \in DOMAIN AfterPhase
        BY <1>4 DEF TransitionTo
  <2>2. CASE MarkFailed(w)
        BY <1>2, <2>1, <2>2, MarkFailedDown
  <2>3. CASE ~MarkFailed(w)
    <3>1. app'.deleted = app.deleted /\ UNCHANGED <<jobs, history>>
          BY <1>1, <1>4, <2>3 DEF TransitionTo, App
    <3>2. /\ work'[w].pc = AfterPhase[work[w].pc] /\ work'[w].job = work[w].job
          /\ \A v \in Workers \ {w} : work'[v] = work[v]
          BY <1>1, <1>4, <2>3 DEF TransitionTo, Work
    <3>3. work[w].pc \in InitSteps /\ work'[w].pc \in InitSteps
          BY <2>1, <3>2 DEF AfterPhase, InitSteps, InitStatus
    <3>4. Turn(w)
          BY <1>2, <3>1, <3>2 DEF Turn, history
    <3>5. Carries(w)
          BY <3>2, <3>3, StepsKnown DEF Carries, Ops
    <3>6. Acts(w)
          BY <1>2, <3>1, <3>5, NothingOwes DEF Down, Acts, history
    <3> QED BY <3>1, <3>3, <3>4, <3>6, GoesOnDown DEF InitSteps, InitStatus
  <2> QED BY <2>2, <2>3
<1>5. ASSUME NEW pc \in InitSteps, work[w].pc \in InitSteps, Goto(w, pc),
             UNCHANGED <<jobs, history>>, app'.deleted = app.deleted
      PROVE  Down'
  <2>1. pc \in Step /\ pc # "archive"
        BY DEF Step, InitSteps, InitStatus
  <2>2. \A kind \in Ops : work[w].pc \in StepsOf(kind) => pc \in StepsOf(kind)
        BY <1>5, StepsKnown DEF Ops
  <2>3. Turn(w) /\ work'[w].pc = pc /\ Acts(w)
        BY <1>2, <1>5, <2>1, <2>2, Goes, Acting
  <2> QED BY <1>5, <2>1, <2>3, GoesOnDown
<1>6. CASE PhaseCreate(w) \/ StampApplied(w)
  <2>1. app'.deleted = app.deleted
        BY <1>1, <1>6 DEF PhaseCreate, StampApplied, App
  <2> QED BY <1>5, <1>6, <2>1 DEF PhaseCreate, StampApplied, At, InitSteps, InitStatus
<1>7. CASE WaitReady(w)
  <2>1. CASE MarkFailed(w)
        BY <1>2, <1>7, <2>1, MarkFailedDown DEF WaitReady
  <2>2. CASE ~MarkFailed(w)
        BY <1>5, <1>7, <2>2 DEF WaitReady, At, InitSteps
  <2> QED BY <2>1, <2>2
<1>8. CASE PromoteIfChannelBound(w)
  <2>1. UNCHANGED <<k8s, history>> /\ app'.deleted = app.deleted
        BY <1>1, <1>8 DEF PromoteIfChannelBound, SetStatus, App
  <2>2. Turn(w) /\ work'[w].pc = "idle" /\ Acts(w)
        BY <1>2, <1>8, <2>1, Goes, Acting DEF PromoteIfChannelBound
  <2> QED BY <2>1, <2>2, PlainDown DEF InitSteps, InitStatus
<1> QED BY <1>3, <1>4, <1>6, <1>7, <1>8 DEF Initialize

LEMMA OperationsDown ==
    ASSUME TypeOK, Down, NEW w \in Workers, StartStop(w) \/ RestartApp(w)
    PROVE  Down'
<1>1. work \in [Workers -> Work] /\ work[w] \in Work /\ app \in App /\ k8s \in Deployment
      BY DEF TypeOK
<1>2. ~At(w, "idle")
      BY DEF StartStop, LoadStart, ScaleUp, LoadStop, ScaleDown, RecordStatus, RestartApp,
             LoadRestart, RestartImage, RestartRepull, RestartEnqueue, ShutGate,
             RestartRollout, RestartStatus, RestartApplied, At
<1>3. app'.deleted = app.deleted
      BY <1>1 DEF StartStop, LoadStart, ScaleUp, LoadStop, ScaleDown, RecordStatus, RestartApp,
             LoadRestart, RestartImage, RestartRepull, RestartEnqueue, ShutGate,
             RestartRollout, RestartStatus, RestartApplied, SetStatus, App
<1>4. k8s.replicas = -1 => k8s'.replicas = -1
      BY DEF StartStop, LoadStart, ScaleUp, LoadStop, ScaleDown, RecordStatus, RestartApp,
             LoadRestart, RestartImage, RestartRepull, RestartEnqueue, ShutGate,
             RestartRollout, RestartStatus, RestartApplied
<1>5. SUFFICES Turn(w) /\ Acts(w) /\ work'[w].pc \notin InitSteps \cup {"archive"}
      BY <1>3, <1>4, PlainDown
<1> DEFINE Restart == {"update", "repull", "enqueue", "shut", "rollout", "restarted", "applied"}
           Known == {"scale1", "started", "scale0", "stopped"} \cup Restart
<1>6. Known \subseteq Step /\ \A pc \in Known \cup {"idle"} : pc \notin InitSteps \cup {"archive"}
      BY DEF Step, InitSteps, InitStatus
<1>7. ASSUME HandlerError(w), UNCHANGED latest
      PROVE  Turn(w) /\ Acts(w) /\ work'[w].pc \notin InitSteps \cup {"archive"}
      BY <1>2, <1>6, <1>7, Goes, Acting
<1>8. ASSUME Succeed(w), UNCHANGED <<latest, history>>, work[w].pc \notin {"delete", "archive"}
      PROVE  Turn(w) /\ Acts(w) /\ work'[w].pc \notin InitSteps \cup {"archive"}
      BY <1>2, <1>6, <1>8, Goes, Acting
<1>9. ASSUME NEW pc \in Known, Goto(w, pc), UNCHANGED <<jobs, latest, history>>,
             \A kind \in Ops : work[w].pc \in StepsOf(kind) => pc \in StepsOf(kind)
      PROVE  Turn(w) /\ Acts(w) /\ work'[w].pc \notin InitSteps \cup {"archive"}
  <2>1. pc \in Step
        BY <1>6
  <2> HIDE DEF Known
  <2>2. Turn(w) /\ work'[w].pc = pc
        BY <1>2, <1>9, <2>1, Goes
  <2>3. Acts(w)
        BY <1>2, <1>9, <2>1, Acting
  <2> QED BY <1>6, <2>2, <2>3
<1> HIDE DEF Known, Restart
<1>10. CASE LoadStart(w) \/ ScaleUp(w) \/ LoadStop(w) \/ ScaleDown(w)
  <2>1. CASE HandlerError(w)
        BY <1>7, <1>10, <2>1 DEF LoadStart, ScaleUp, LoadStop, ScaleDown, quiet
  <2>2. CASE ~HandlerError(w)
    <3>1. /\ UNCHANGED <<jobs, latest, history>>
          /\ \/ work[w].pc = "start" /\ Goto(w, "scale1")
             \/ work[w].pc = "scale1" /\ Goto(w, "started")
             \/ work[w].pc = "stop" /\ Goto(w, "scale0")
             \/ work[w].pc = "scale0" /\ Goto(w, "stopped")
          BY <1>10, <2>2 DEF LoadStart, ScaleUp, LoadStop, ScaleDown, quiet, At
    <3> QED BY <1>9, <3>1, StepsKnown DEF Ops, Known
  <2> QED BY <2>1, <2>2
<1>11. CASE RecordStatus(w) \/ RestartApplied(w)
      BY <1>8, <1>11 DEF RecordStatus, RestartApplied, quiet, At
<1>12. CASE LoadRestart(w)
  <2>1. UNCHANGED latest /\ work[w].pc = "restart"
        BY <1>12 DEF LoadRestart, quiet, At
  <2>2. CASE HandlerError(w)
        BY <1>7, <2>1, <2>2
  <2>3. CASE ~HandlerError(w)
    <3>1. /\ work'[w].pc \in {"update", "shut"}
          /\ \A v \in Workers \ {w} : work'[v] = work[v]
          /\ UNCHANGED <<overlapped, abandoned, jobs>>
          BY <1>1, <1>12, <2>3 DEF LoadRestart, Disturb, Work
    <3>2. work'[w].job = work[w].job
          BY <1>1, <1>12, <2>3 DEF LoadRestart, Work
    <3>3. Turn(w) /\ Carries(w)
          BY <1>2, <2>1, <3>1, <3>2, StepsKnown DEF Turn, Carries, Ops
    <3>4. Rows /\ Owed
          BY <2>1, <3>1, NothingOwes DEF Down
    <3> QED BY <1>6, <3>1, <3>3, <3>4 DEF Acts, Known, Restart
  <2> QED BY <2>2, <2>3
<1>13. CASE RestartImage(w) \/ RestartRepull(w) \/ ShutGate(w) \/ RestartRollout(w)
            \/ RestartStatus(w)
  <2>1. CASE HandlerError(w)
        BY <1>7, <1>13, <2>1 DEF RestartImage, RestartRepull, ShutGate, RestartRollout,
                                 RestartStatus, quiet
  <2>2. CASE ~HandlerError(w)
    <3>1. /\ UNCHANGED <<jobs, latest, history>> /\ work[w].pc \in Restart
          /\ \E pc \in Restart : Goto(w, pc)
          BY <1>13, <2>2 DEF RestartImage, RestartRepull, ShutGate, RestartRollout,
                             RestartStatus, quiet, At, Restart
    <3> QED BY <1>9, <3>1, StepsKnown DEF Ops, Known, Restart
  <2> QED BY <2>1, <2>2
<1>14. CASE RestartEnqueue(w)
  <2>1. UNCHANGED history /\ Succession(w, "init") /\ work[w].pc = "enqueue"
        BY <1>14 DEF RestartEnqueue, At
  <2>2. "init" \in Kind /\ \A k \in Ops : work[w].pc \notin StepsOf(k)
        BY <2>1, StepsKnown DEF Kind, Ops
  <2> QED BY <1>2, <1>6, <2>1, <2>2, SuccessionActs
<1> QED BY <1>10, <1>11, <1>12, <1>13, <1>14 DEF StartStop, RestartApp

LEMMA LoginDown ==
    ASSUME TypeOK, Down, NEW w \in Workers, Login(w)
    PROVE  Down'
<1>1. work \in [Workers -> Work] /\ work[w] \in Work /\ app \in App /\ k8s \in Deployment
      BY DEF TypeOK
<1>2. ~At(w, "idle") /\ app'.deleted = app.deleted
      BY <1>1 DEF Login, LoadLogin, BeginLogin, LoadCheck, PollBinding, ReloadPod,
                  FinalizeBound, SetStatus, App, At
<1>3. k8s.replicas = -1 => k8s'.replicas = -1
      BY DEF Login, LoadLogin, BeginLogin, LoadCheck, PollBinding, ReloadPod, FinalizeBound,
             quiet
<1>4. work[w].pc \in {"login", "begin", "check", "poll", "reload", "bound"}
      BY DEF Login, LoadLogin, BeginLogin, LoadCheck, PollBinding, ReloadPod, FinalizeBound, At
<1>5. \A k \in Ops : work[w].pc \notin StepsOf(k)
      BY <1>4, StepsKnown DEF Ops
<1>6. SUFFICES Turn(w) /\ Acts(w) /\ work'[w].pc \in {"idle", "begin", "poll", "reload", "bound"}
      BY <1>2, <1>3, PlainDown DEF InitSteps, InitStatus
<1>7. ASSUME NEW kind \in Kind, Succession(w, kind), UNCHANGED history
      PROVE  Turn(w) /\ Acts(w) /\ work'[w].pc = "idle"
      BY <1>2, <1>5, <1>7, SuccessionActs
<1>8. ASSUME Succeed(w), UNCHANGED <<latest, history>>
      PROVE  Turn(w) /\ Acts(w) /\ work'[w].pc = "idle"
      BY <1>2, <1>4, <1>8, Goes, Acting
<1>9. ASSUME NEW pc \in {"begin", "reload", "bound"}, Goto(w, pc),
             UNCHANGED <<jobs, latest, history>>
      PROVE  Turn(w) /\ Acts(w) /\ work'[w].pc = pc
  <2>1. pc \in Step
        BY DEF Step
  <2> QED BY <1>2, <1>5, <1>9, <2>1, Goes, Acting
<1> USE DEF Kind
<1>10. CASE LoadLogin(w)
      BY <1>7, <1>8, <1>9, <1>10 DEF LoadLogin
<1>11. CASE BeginLogin(w)
  <2>1. CASE HandlerError(w) /\ UNCHANGED latest
        BY <1>2, <2>1, Goes, Acting
  <2>2. CASE ~(HandlerError(w) /\ UNCHANGED latest)
        BY <1>7, <1>11, <2>2 DEF BeginLogin
  <2> QED BY <2>1, <2>2
<1>12. CASE LoadCheck(w)
  <2>1. UNCHANGED <<latest, history>>
        BY <1>12 DEF LoadCheck, quiet
  <2>2. CASE Succeed(w)
        BY <1>8, <2>1, <2>2
  <2>3. CASE ~Succeed(w)
    <3>1. /\ work'[w].pc = "poll" /\ work'[w].job = work[w].job /\ UNCHANGED jobs
          /\ \A v \in Workers \ {w} : work'[v] = work[v]
          BY <1>1, <1>12, <2>3 DEF LoadCheck, Work
    <3>2. Turn(w) /\ Carries(w)
          BY <1>2, <1>5, <2>1, <3>1 DEF Turn, Carries, history
    <3>3. Rows /\ Owed
          BY <2>1, <3>1, NothingOwes DEF Down, history
    <3> QED BY <3>1, <3>2, <3>3 DEF Acts
  <2> QED BY <2>2, <2>3
<1>13. CASE PollBinding(w)
      BY <1>7, <1>8, <1>9, <1>13 DEF PollBinding
<1>14. CASE ReloadPod(w) \/ FinalizeBound(w)
      BY <1>8, <1>9, <1>14 DEF ReloadPod, FinalizeBound, quiet
<1> QED BY <1>10, <1>11, <1>12, <1>13, <1>14 DEF Login

\* The row is archived, and the job of the deletion ends, after the cluster is cleared.
LEMMA DeleteDown ==
    ASSUME TypeOK, Down, NEW w \in Workers, DeleteApp(w)
    PROVE  Down'
<1>1. CASE DeleteCluster(w)
  <2>1. k8s'.replicas = -1 /\ UNCHANGED <<app, jobs, latest, history>> /\ work[w].pc = "delete"
        BY <1>1, ClusterTyped DEF DeleteCluster, quiet, At
  <2>2. Turn(w) /\ work'[w].pc = "archive" /\ work'[w].job = work[w].job
        BY <1>1, <2>1, Goes DEF DeleteCluster, Step, At
  <2>3. Rows /\ Carries(w)
        BY <2>1, <2>2, NothingOwes, StepsKnown DEF Down, Carries, Ops, history
  <2>4. Cleared(w)'
        BY <2>1, <2>2 DEF Cleared, At, InitSteps, InitStatus
  <2> QED BY <2>2, <2>3, <2>4, TurnDown
<1>2. CASE SoftDelete(w)
  <2>1. UNCHANGED <<k8s, latest, history>> /\ At(w, "archive") /\ Succeed(w)
        BY <1>2 DEF SoftDelete, quiet
  <2>2. Turn(w) /\ work'[w].pc = "idle"
        BY <2>1, Goes DEF At
  <2>3. Spares(Ops)
        BY <2>1, SucceedSpares DEF Down
  <2>4. Rows /\ Carries(w)
        BY <2>2, <2>3 DEF Spares, Rows, Carries
  <2>5. Cleared(w) => Cleared(w)'
        BY <2>1, <2>2 DEF Cleared, At, InitSteps, InitStatus
  <2> QED BY <2>2, <2>4, <2>5, TurnDown
<1> QED BY <1>1, <1>2 DEF DeleteApp

LEMMA RuntimeDown ==
    ASSUME TypeOK, Down, NEW w \in Workers,
           LeaseLost(w) \/ Fault(w) \/ Crash(w) \/ \E j \in Jobs : Claim(w, j)
    PROVE  Down'
<1>1. work \in [Workers -> Work] /\ work[w] \in Work /\ app \in App /\ jobs \in [Jobs -> Row]
      BY DEF TypeOK
<1>2. CASE LeaseLost(w) \/ Fault(w) \/ Crash(w)
  <2>1. UNCHANGED <<k8s, latest>> /\ app'.deleted = app.deleted /\ ~At(w, "idle")
        BY <1>1, <1>2 DEF LeaseLost, Fault, Crash, SetStatus, App, At
  <2>2. Turn(w) /\ work'[w].pc = "idle"
        BY <1>2, <2>1, Goes DEF LeaseLost, Fault, Crash, Disturb
  <2>3. Rows /\ Owed
    <3>1. CASE Fault(w)
          BY <2>1, <3>1, ErrorActs DEF Down, Fault
    <3>2. CASE LeaseLost(w) \/ Crash(w)
          BY <2>1, <3>2, NothingOwes DEF Down, LeaseLost, Crash
    <3> QED BY <1>2, <3>1, <3>2
  <2>4. Acts(w)
        BY <2>2, <2>3 DEF Acts, Carries
  <2>5. work'[w].pc \notin InitSteps \cup {"archive"}
        BY <2>2 DEF InitSteps, InitStatus
  <2> QED BY <2>1, <2>2, <2>4, <2>5, PlainDown
<1>3. ASSUME NEW j \in Jobs, Claim(w, j)
      PROVE  Down'
  <2>1. UNCHANGED <<app, k8s, latest, abandoned>> /\ At(w, "idle")
        BY <1>3 DEF Claim
  <2>2. /\ work'[w].pc = jobs[j].kind /\ work'[w].job = j
        /\ \A v \in Workers \ {w} : work'[v] = work[v]
        BY <1>1, <1>3 DEF Claim, Work
  <2>3. /\ jobs[j].status = "pending" /\ jobs'[j].kind = jobs[j].kind
        /\ jobs'[j].status = "running" /\ jobs'[j].lease = w
        /\ \A i \in Jobs \ {j} : jobs'[i] = jobs[i]
    <3> DEFINE r == [jobs[j] EXCEPT !.status = "running", !.lease = w, !.attempts = @ + 1]
    <3>1. jobs' = [jobs EXCEPT ![j] = r] /\ jobs[j].status = "pending"
          BY <1>1, <1>3 DEF Claim
    <3>2. r.kind = jobs[j].kind /\ r.status = "running" /\ r.lease = w
      <4>1. jobs[j] \in Row
            BY <1>1
      <4> QED BY <4>1 DEF Row
    <3> HIDE DEF r
    <3> QED BY <1>1, <3>1, <3>2
  <2>4. work'[w].pc \notin InitSteps \cup {"archive"}
    <3>1. jobs[j].kind \in Kind
          BY <1>1 DEF Row
    <3> QED BY <2>2, <3>1 DEF Kind, InitSteps, InitStatus
  <2>5. Latest'
        BY <2>1, <2>3 DEF Down, Latest, Jobs, TypeOK
  <2>6. Undone => Undone'
        BY <2>1, <2>3 DEF Undone, Due, Open
  <2>7. ASSUME NEW v \in Workers
        PROVE  Mine(v)'
    <3>1. CASE v = w
      <4>1. \A kind \in Ops : kind \in StepsOf(kind)
            BY StepsKnown DEF Ops
      <4> QED BY <2>2, <2>3, <3>1, <4>1 DEF Mine
    <3>2. CASE v # w
      <4>1. work[v] \in Work /\ Mine(v)
            BY DEF TypeOK, Down
      <4>2. work[v].job # 0 => work[v].job \in Jobs
            BY <4>1 DEF Work, Jobs
      <4>3. Owns(v)' => Owns(v) /\ jobs'[work[v].job] = jobs[work[v].job]
            BY <2>2, <2>3, <3>2, <4>2 DEF Owns
      <4> QED BY <2>2, <3>2, <4>1, <4>3 DEF Mine, At
    <3> QED BY <3>1, <3>2
  <2>8. ~overlapped' => ~overlapped /\ \A v \in Workers \ {w} : At(v, "idle")
        BY <1>3 DEF Claim
  <2>9. ~overlapped' => OneHandler'
        BY <2>2, <2>8 DEF OneHandler, At
  <2>10. ~overlapped' => \A v \in Workers : Cleared(v)'
        BY <2>1, <2>2, <2>4, <2>6, <2>8 DEF Down, Cleared, At
  <2> QED BY <2>1, <2>5, <2>6, <2>7, <2>8, <2>9, <2>10 DEF Down
<1> QED BY <1>2, <1>3

\* Nothing else touches the workers or the number of replicas.
LEMMA OthersDown ==
    ASSUME TypeOK, Down,
           \/ Users \/ Pod \/ PodFails \/ \E j \in Jobs : Recover(j)
           \/ Reaper \/ SlowReaper \/ LateReaper
           \/ Reconciler \/ SlowReconciler \/ LateReconciler
    PROVE  Down'
<1>1. app \in App /\ k8s \in Deployment /\ Latest
      BY DEF TypeOK, Down
<1>2. UNCHANGED <<work, overlapped>>
      BY DEF Users, Trigger, RequestInitialize, SwitchAppVersion, DeleteMember, BeginAuth,
             Unbind, ScanQR, Pod, PodFails, Recover, Disturb, Reaper, SlowReaper, LateReaper,
             ReapApp, Reconciler, SlowReconciler, LateReconciler, Reconcile, history
<1>3. k8s'.replicas = k8s.replicas
      BY <1>1 DEF Users, Trigger, RequestInitialize, SwitchAppVersion, DeleteMember,
             BeginAuth, Unbind, ScanQR, Pod, PodEnds, PodBoots, PodFails, Recover, Reaper,
             SlowReaper, LateReaper, ReapApp, Reconciler, SlowReconciler, LateReconciler,
             Reconcile, Deployment
<1>4. Rows /\ (app'.deleted /\ ~Undone' => app.deleted /\ ~Undone)
  <2>1. CASE DeleteMember
    <3>1. CASE CreateJob("delete")
          BY <1>1, <3>1, CreateJobSpares DEF Kind, Spares, Rows, Undone
    <3>2. CASE ~CreateJob("delete")
      <4>1. UNCHANGED <<jobs, latest>> /\ abandoned'
            BY <2>1, <3>2 DEF DeleteMember
      <4>2. Spares({})
            BY <1>1, <4>1, NothingWritten
      <4> QED BY <4>1, <4>2 DEF Spares, Rows, Undone
    <3> QED BY <3>1, <3>2
  <2>2. CASE \E j \in Jobs : Recover(j)
    <3>1. Rows /\ Owed
          BY <1>1, <2>2, RetryOwes DEF Recover
    <3>2. UNCHANGED app
          BY <2>2 DEF Recover
    <3> QED BY <3>1, <3>2 DEF Owed
  <2>3. CASE ~DeleteMember /\ ~\E j \in Jobs : Recover(j)
    <3>1. app'.deleted = app.deleted /\ UNCHANGED abandoned
          BY <1>1, <2>3 DEF Users, Trigger, RequestInitialize, SwitchAppVersion, BeginAuth,
                 Unbind, ScanQR, Pod, PodFails, Reaper, SlowReaper, LateReaper, ReapApp,
                 Reconciler, SlowReconciler, LateReconciler, Reconcile, SetStatus, App, history
    <3>2. \/ UNCHANGED <<jobs, latest>> \/ EnsureInitJob
          \/ \E kind \in Kind : CreateJob(kind)
          BY <2>3 DEF Users, Trigger, RequestInitialize, SwitchAppVersion, BeginAuth,
                 Unbind, ScanQR, Pod, PodFails, Reaper, SlowReaper, LateReaper, ReapApp,
                 Reconciler, SlowReconciler, LateReconciler, Reconcile, Kind
    <3>3. Spares({})
          BY <1>1, <3>2, NothingWritten, EnsureSpares, CreateJobSpares
    <3> QED BY <3>1, <3>3, SparesOwe DEF Owed
  <2> QED BY <2>1, <2>2, <2>3
<1>5. ASSUME NEW v \in Workers
      PROVE  Mine(v)'
  <2>1. work[v] \in Work /\ Mine(v)
        BY DEF TypeOK, Down
  <2>2. work[v].job # 0 => work[v].job \in Jobs
        BY <2>1 DEF Work, Jobs
  <2>3. Owns(v)' => Owns(v) /\ jobs'[work[v].job] = jobs[work[v].job]
        BY <1>2, <1>4, <2>2 DEF Owns, Rows
  <2> QED BY <1>2, <2>1, <2>3 DEF Mine, At
<1> QED BY <1>2, <1>3, <1>4, <1>5 DEF Down, Rows, OneHandler, Cleared, At

LEMMA InitDown == Init => Down
<1> SUFFICES ASSUME Init
             PROVE  Down
    OBVIOUS
<1>1. \A w \in Workers : At(w, "idle")
      BY DEF Init, At, Idle
<1>2. Latest
      BY DEF Init, Latest, NewJob, FreeRow, Jobs
<1> QED BY <1>1, <1>2 DEF Init, Down, OneHandler, Cleared, Mine, At, InitSteps, InitStatus

LEMMA NextDown ==
    ASSUME TypeOK, Down, [Next]_vars
    PROVE  Down'
<1>1. CASE UNCHANGED vars
      BY <1>1 DEF vars, Down, OneHandler, Cleared, Mine, Latest, Undone, Due, Open, Owns, At
<1> QED BY <1>1, InitializeDown, OperationsDown, LoginDown, DeleteDown, RuntimeDown, OthersDown
        DEF Next, Handler

\* DeleteMember, AppDeleteHandler, AppInitializeHandler: while no two handlers of the app
\* overlap, a deleted app either has no Deployment, whatever was queued, retried,
\* recovered or reaped, or a job that deletes it is due, or that job was never queued or
\* failed for good.
THEOREM DeletedStaysDown == Spec => []DeletedIsDown
<1>1. Down => DeletedIsDown
      BY DEF Down, DeletedIsDown, DeletionDue, Undone, Due, Open
<1> QED BY <1>1, InitTyped, InitDown, NextTyped, NextDown, PTL DEF Spec

------------------------------------------------------------------------------
(* The status of the row says what the cluster does.  Until the app is      *)
(* deleted, two handlers overlap or one is disturbed, what the row and the  *)
(* cluster disagree                                                         *)
(* about is owed by a job that is not over: a stopped row may be above a    *)
(* pod that is to come only while a start is due, a serving row above none  *)
(* only while a stop or a deletion is due.                                  *)

Restarting == {"update", "repull", "enqueue", "shut", "rollout", "restarted", "applied"}
Checking   == {"poll", "reload", "bound"}

Serves == k8s.replicas = 1 \/ Due("stop") \/ Due("delete")

\* The row.
Fits ==
    /\ app.status \in Serving => Serves
    /\ app.status = "stopped" => k8s.replicas # 1 \/ Due("start")
Promoted ==
    binding = "bound" /\ app.status = "binding_waiting" =>
        Due("init") \/ \E w \in Workers : Cut(w)

\* A handler: its job is not over, and no other operation's is its own; what its copy
\* of the status says; what it has done to the scale.
OwnJob(w) ==
    \A kind \in Ops :
        /\ work[w].pc \in StepsOf(kind) => Due(kind)
        /\ ~At(w, "idle") /\ Owns(w) /\ jobs[work[w].job].kind = kind =>
              work[w].pc \in StepsOf(kind)
Copy(w) ==
    LET pc == work[w].pc
        at == work[w].at IN
    /\ pc \in Checking /\ app.status = "binding_waiting" => at = "binding_waiting"
    /\ pc \in {"stamp", "promote", "resume"} => at = "binding_waiting"
    /\ pc \in InitSteps /\ app.status = "stopped" => at = "stopped"
    /\ pc \in InitSteps \ {"pulling"} => at # "stopped"
Scaled(w) ==
    LET pc == work[w].pc
        at == work[w].at IN
    /\ pc \in {"starting", "wait", "binding_waiting", "stamp", "promote", "started",
               "restarted"} => k8s.replicas = 1
    /\ pc = "resume" \/ (pc \in Checking /\ at = "binding_waiting") => Serves
    /\ pc = "stopped" => k8s.replicas # 1
    /\ pc \in Restarting => k8s.replicas # 0
Here(w) == OwnJob(w) /\ Copy(w) /\ Scaled(w)

Calm == ~overlapped /\ ~disturbed /\ ~app.deleted
Held == Latest /\ Fits /\ Promoted /\ \A w \in Workers : Here(w)
Settled == Calm => Held

\* The jobs of the operations stay and the scale does: what is served stays served.
LEMMA ServesKept ==
    ASSUME NEW done, Spares(done), done \subseteq {"init", "start"},
           k8s'.replicas = k8s.replicas, Serves
    PROVE  Serves'
<1> QED BY DueKept DEF Serves

LEMMA FitsKept ==
    ASSUME Fits, NEW done, Spares(done), done \subseteq {"init"},
           app'.status = app.status, k8s'.replicas = k8s.replicas
    PROVE  Fits'
<1>1. Serves => Serves'
      BY ServesKept
<1>2. Due("start") => Due("start")'
      BY DueKept
<1> QED BY <1>1, <1>2 DEF Fits

LEMMA PromotedKept ==
    ASSUME Promoted, NEW done, Spares(done), "init" \notin done,
           app'.status = "binding_waiting" => app.status = "binding_waiting",
           binding' = "bound" => binding = "bound",
           \A w \in Workers : Cut(w) => Cut(w)'
    PROVE  Promoted'
<1>1. Due("init") => Due("init")'
      BY DueKept
<1> QED BY <1>1 DEF Promoted

\* The other workers are idle.
LEMMA TurnHeld ==
    ASSUME Down, Calm, Held, NEW w \in Workers, Turn(w),
           Latest', Fits', Promoted', Here(w)'
    PROVE  Held'
<1>1. ASSUME NEW v \in Workers \ {w}
      PROVE  Here(v)'
  <2>1. work'[v].pc = "idle"
        BY DEF Down, Calm, OneHandler, Turn, At
  <2>2. OwnJob(v)'
        BY <2>1, StepsKnown DEF OwnJob, At, Ops
  <2>3. Copy(v)' /\ Scaled(v)'
        BY <2>1, StepsKnown DEF Copy, Scaled, Checking, Restarting
  <2> QED BY <2>2, <2>3 DEF Here
<1> QED BY <1>1 DEF Held

LEMMA EndHeld ==
    ASSUME Down, Calm, Held, NEW w \in Workers, Turn(w), work'[w].pc = "idle",
           Latest', Fits', Promoted'
    PROVE  Held'
<1>1. OwnJob(w)'
      BY StepsKnown DEF OwnJob, At, Ops
<1>2. Copy(w)' /\ Scaled(w)'
      BY StepsKnown DEF Copy, Scaled, Checking, Restarting
<1> QED BY <1>1, <1>2, TurnHeld DEF Here

\* A handler goes on with its job.
LEMMA GoOnHeld ==
    ASSUME TypeOK, Down, Calm, Held, NEW w \in Workers, Turn(w), UNCHANGED <<jobs, latest>>,
           work'[w].job = work[w].job,
           \A kind \in Ops : work'[w].pc \in StepsOf(kind) <=> work[w].pc \in StepsOf(kind),
           Fits', Promoted', Copy(w)', Scaled(w)'
    PROVE  Held'
<1>1. Latest'
      BY DEF Held, Latest
<1>2. \A kind \in Ops : Due(kind) => Due(kind)'
      BY DEF Due, Open
<1>3. OwnJob(w)'
      BY <1>2 DEF Held, Here, OwnJob, Turn, Owns
<1> QED BY <1>1, <1>3, TurnHeld DEF Here

LEMMA Going ==
    ASSUME TypeOK, NEW w \in Workers, NEW pc \in Step, Goto(w, pc)
    PROVE  work'[w].pc = pc /\ work'[w].job = work[w].job /\ work'[w].at = work[w].at
<1>1. work \in [Workers -> Work] /\ work[w] \in Work
      BY DEF TypeOK
<1> QED BY <1>1 DEF Goto, Work

\* The row may fail, the job is tried again.
LEMMA FailedHeld ==
    ASSUME TypeOK, Down, Calm, ~disturbed', Held, NEW w \in Workers, ~At(w, "idle"),
           HandlerError(w), UNCHANGED latest,
           app'.status # app.status => app'.status = "error",
           k8s'.replicas = k8s.replicas,
           binding' = "bound" => binding = "bound"
    PROVE  Held'
<1>1. Spares({}) /\ Turn(w) /\ work'[w].pc = "idle"
      BY ErrorSpares, Goes DEF Held
<1>2. Latest'
      BY <1>1 DEF Spares
<1>3. Fits'
  <2>1. CASE app'.status = app.status
        BY <1>1, <2>1, FitsKept DEF Held
  <2>2. CASE app'.status # app.status
        BY <2>2 DEF Fits, Serving
  <2> QED BY <2>1, <2>2
<1>4. ~Cut(w) /\ \A v \in Workers \ {w} : Cut(v) => Cut(v)'
      BY <1>1 DEF HandlerError, Disturb, Turn, Cut
<1>5. Promoted'
      BY <1>1, <1>4, PromotedKept DEF Held
<1> QED BY <1>1, <1>2, <1>3, <1>5, EndHeld

LEMMA Finishes ==
    ASSUME TypeOK, Held, NEW w \in Workers, ~At(w, "idle"), Succeed(w),
           UNCHANGED <<latest, history>>, NEW done,
           \A kind \in Ops : work[w].pc \in StepsOf(kind) => kind \in done
    PROVE  /\ Spares(done) /\ Latest' /\ Turn(w) /\ work'[w].pc = "idle"
           /\ \A v \in Workers : Cut(v) /\ v # w => Cut(v)'
<1>1. \A kind \in Ops : Owns(w) /\ jobs[work[w].job].kind = kind => kind \in done
      BY DEF Held, Here, OwnJob
<1>2. Spares(done)
      BY <1>1, SucceedSpares DEF Held
<1>3. Turn(w) /\ work'[w].pc = "idle"
      BY Goes
<1> QED BY <1>2, <1>3 DEF Spares, Turn, Cut

LEMMA LoadInitHeld ==
    ASSUME TypeOK, Down, Calm, Held, NEW w \in Workers, LoadInit(w)
    PROVE  Held'
<1>1. work \in [Workers -> Work] /\ work[w] \in Work /\ ~At(w, "idle")
      BY DEF TypeOK, LoadInit, At
<1>2. UNCHANGED <<app, k8s, binding, latest, history>> /\ work[w].pc = "init"
      BY DEF LoadInit, quiet, channel, At
<1>3. CASE Succeed(w)
  <2>1. \A kind \in Ops : work[w].pc \in StepsOf(kind) => kind \in {"init"}
        BY <1>2, StepsKnown DEF Ops
  <2>2. Spares({"init"}) /\ Latest' /\ Turn(w) /\ work'[w].pc = "idle"
        BY <1>1, <1>2, <1>3, <2>1, Finishes
  <2>3. Fits'
        BY <1>2, <2>2, FitsKept DEF Held
  <2>4. CASE app.status = "running"
        BY <1>2, <2>2, <2>3, <2>4, EndHeld DEF Promoted
  <2>5. CASE app.status # "running"
        BY <1>1, <2>2, <2>5 DEF LoadInit, Work, Calm
  <2> QED BY <2>4, <2>5
<1>4. CASE ~Succeed(w)
  <2> DEFINE pc == IF app.status = "binding_waiting" THEN "resume" ELSE "pulling"
  <2>1. /\ ~app.deleted /\ app.status # "running" /\ UNCHANGED jobs
        /\ work' = [work EXCEPT ![w] = [work[w] EXCEPT !.pc = pc, !.at = app.status,
                                                       !.ver = app.version]]
        BY <1>1, <1>4 DEF LoadInit
  <2>2. /\ work'[w].pc = pc /\ work'[w].at = app.status /\ work'[w].job = work[w].job
        /\ \A v \in Workers \ {w} : work'[v] = work[v]
        BY <1>1, <2>1 DEF Work
  <2>3. Turn(w)
        BY <1>1, <1>2, <2>2 DEF Turn, history
  <2>4. pc \in {"resume", "pulling"} /\ (pc = "resume" => app.status = "binding_waiting")
        BY DEF InitStatus
  <2> HIDE DEF pc
  <2>5. Copy(w)'
        BY <1>2, <2>1, <2>2, <2>4, StepsKnown DEF Copy, Checking
  <2>6. Due("stop") => Due("stop")'
        BY <2>1 DEF Due, Open
  <2>7. Due("delete") => Due("delete")'
        BY <2>1 DEF Due, Open
  <2>8. Due("start") => Due("start")'
        BY <2>1 DEF Due, Open
  <2>9. Due("init")'
        BY <1>2, <2>1, StepsKnown DEF Held, Here, OwnJob, Ops, Due, Open
  <2>10. Scaled(w)'
        BY <1>2, <2>2, <2>4, <2>6, <2>7 DEF Scaled, Held, Fits, Serves, Serving, Checking,
                                            Restarting
  <2>11. Fits'
        BY <1>2, <2>6, <2>7, <2>8 DEF Held, Fits, Serves
  <2>12. Promoted'
        BY <2>9 DEF Promoted
  <2>13. \A kind \in Ops : work'[w].pc \in StepsOf(kind) <=> work[w].pc \in StepsOf(kind)
        BY <1>2, <2>2, <2>4, StepsKnown DEF Ops
  <2> QED BY <1>2, <2>1, <2>2, <2>3, <2>5, <2>10, <2>11, <2>12, <2>13, GoOnHeld
<1> QED BY <1>3, <1>4

\* A write of the status, or a step of an initialization, above jobs that stay.
LEMMA JobsStay ==
    ASSUME UNCHANGED jobs
    PROVE  \A kind \in Ops : Due(kind)' <=> Due(kind)
<1> QED BY DEF Due, Open

LEMMA TransitionHeld ==
    ASSUME TypeOK, Down, Calm, ~disturbed', Held, NEW w \in Workers, TransitionTo(w)
    PROVE  Held'
<1> DEFINE at == work[w].at
           to == work[w].pc
<1>1. /\ work \in [Workers -> Work] /\ work[w] \in Work /\ app \in App
      /\ to \in InitStatus \cup {"binding_waiting"}
      BY DEF TypeOK, TransitionTo, AfterPhase, InitStatus
<1>2. UNCHANGED <<k8s, binding, latest>> /\ ~At(w, "idle") /\ to \in InitSteps
      BY <1>1 DEF TransitionTo, quiet, channel, At, InitSteps, InitStatus
<1>4. CASE MarkFailed(w)
  <2>1. app'.status # app.status => app'.status = "error"
        BY <1>1, <1>4 DEF MarkFailed, SetStatus, App
  <2> QED BY <1>2, <1>4, <2>1, FailedHeld DEF MarkFailed
<1>5. CASE ~MarkFailed(w)
  <2> DEFINE now == IF at = to THEN at ELSE to
  <2>1. /\ at = to \/ <<at, to>> \in AppTransitions
        /\ app' = [app EXCEPT !.status = IF at = to THEN @ ELSE to,
                              !.phase = IF to = "starting" THEN "down" ELSE @]
        /\ work' = [work EXCEPT ![w] = [work[w] EXCEPT !.pc = AfterPhase[to], !.at = now]]
        /\ UNCHANGED <<jobs, history>>
        BY <1>1, <1>5 DEF TransitionTo
  <2>2. /\ work'[w].pc = AfterPhase[to] /\ work'[w].at = to /\ work'[w].job = work[w].job
        /\ \A v \in Workers \ {w} : work'[v] = work[v]
        BY <1>1, <2>1 DEF Work
  <2>3. app'.status = IF at = to THEN app.status ELSE to
        BY <1>1, <2>1 DEF App
  <2>4. Turn(w)
        BY <1>2, <2>1, <2>2 DEF Turn, history
  <2>5. at # "stopped" /\ app'.status # "stopped"
    <3>1. at # "stopped"
          BY <1>1, <2>1 DEF AppTransitions, InitStatus
    <3>2. app.status # "stopped"
          BY <1>2, <3>1 DEF Held, Here, Copy
    <3> QED BY <1>1, <2>3, <3>1, <3>2 DEF InitStatus
  <2>6. AfterPhase[to] \in {"preparing", "creating", "ensure", "wait", "stamp"}
        BY <1>1 DEF AfterPhase, InitStatus
  <2>7. AfterPhase[to] = "stamp" => to = "binding_waiting"
        BY <1>1 DEF AfterPhase, InitStatus
  <2>8. AfterPhase[to] \in {"wait", "stamp"} => to \in {"starting", "binding_waiting"}
        BY <1>1 DEF AfterPhase, InitStatus
  <2>9. to \in {"starting", "binding_waiting"} => k8s.replicas = 1
        BY DEF Held, Here, Scaled
  <2>10. Copy(w)'
        BY <1>1, <2>2, <2>3, <2>5, <2>6, <2>7, StepsKnown DEF Copy, Checking, InitStatus
  <2>11. Scaled(w)'
        BY <1>2, <2>2, <2>6, <2>8, <2>9 DEF Scaled, Checking, Restarting
  <2>12. Serves => Serves'
        BY <1>2, <2>1, JobsStay DEF Serves, Ops
  <2>13. Fits'
    <3>1. app'.status \in Serving => Serves'
      <4>1. CASE at = to
            BY <2>3, <2>12, <4>1 DEF Held, Fits
      <4>2. CASE at # to
            BY <1>1, <1>2, <2>3, <2>9, <4>2 DEF Serving, InitStatus, Serves
      <4> QED BY <4>1, <4>2
    <3> QED BY <2>5, <3>1 DEF Fits
  <2>14. Promoted'
        BY <1>2, <2>1, JobsStay, StepsKnown DEF Promoted, Held, Here, OwnJob, Ops
  <2>15. \A kind \in Ops : work'[w].pc \in StepsOf(kind) <=> work[w].pc \in StepsOf(kind)
        BY <1>2, <2>2, <2>6, StepsKnown DEF Ops
  <2> QED BY <1>2, <2>1, <2>2, <2>4, <2>10, <2>11, <2>13, <2>14, <2>15, GoOnHeld
<1> QED BY <1>4, <1>5

LEMMA StepHeld ==
    ASSUME TypeOK, Down, Calm, Held, NEW w \in Workers, ~At(w, "idle"), NEW pc \in Step,
           Goto(w, pc), UNCHANGED <<jobs, latest, history>>,
           \A kind \in Ops : pc \in StepsOf(kind) <=> work[w].pc \in StepsOf(kind),
           Fits', Promoted', Copy(w)', Scaled(w)'
    PROVE  Held'
<1>1. work'[w].pc = pc /\ work'[w].job = work[w].job /\ Turn(w)
      BY Going, Goes
<1> QED BY <1>1, GoOnHeld

\* A step that writes neither the status nor the scale.
LEMMA PlainHeld ==
    ASSUME TypeOK, Down, Calm, Held, NEW w \in Workers, ~At(w, "idle"), NEW pc \in Step,
           Goto(w, pc), UNCHANGED <<jobs, latest, history>>,
           \A kind \in Ops : pc \in StepsOf(kind) <=> work[w].pc \in StepsOf(kind),
           app'.status = app.status, k8s'.replicas = k8s.replicas, binding' = binding,
           Cut(w) => pc \in {"reload", "bound"},
           Copy(w)', Scaled(w)'
    PROVE  Held'
<1>1. Spares({})
      BY NothingWritten DEF Held
<1>2. Fits'
      BY <1>1, FitsKept DEF Held
<1>3. \A v \in Workers : Cut(v) => Cut(v)'
      BY Going, Goes DEF Cut, Turn
<1>4. Promoted'
      BY <1>1, <1>3, PromotedKept DEF Held
<1> QED BY <1>2, <1>4, StepHeld

LEMMA InitializeHeld ==
    ASSUME TypeOK, Down, Calm, ~disturbed', Held, NEW w \in Workers, Initialize(w)
    PROVE  Held'
<1>1. app \in App /\ k8s \in Deployment /\ Here(w)
      BY DEF TypeOK, Held
<1> USE DEF quiet, channel
<1>2. CASE PhaseCreate(w)
  <2>1. /\ At(w, "ensure") /\ Goto(w, "starting") /\ UNCHANGED <<app, binding, latest>>
        /\ UNCHANGED <<jobs, history>>
        BY <1>2 DEF PhaseCreate
  <2>2. k8s'.replicas = 1
    <3> DEFINE v == work[w].ver
               applied == IF k8s.replicas = -1 THEN [k8s EXCEPT !.image = Image[v], !.mark = FALSE]
                          ELSE Rolled(Image[v], FALSE)
    <3>1. applied \in Deployment
      <4>1. v \in 1..MaxVersion
            BY DEF TypeOK, Work
      <4>2. Image[v] \in Nat
            BY <4>1
      <4>3. Rolled(Image[v], FALSE) \in Deployment
            BY <4>2, RolledTyped
      <4> QED BY <1>1, <4>2, <4>3 DEF Deployment
    <3>2. k8s' = [applied EXCEPT !.replicas = 1]
          BY <1>2 DEF PhaseCreate, EnsureApp
    <3> HIDE DEF applied
    <3> QED BY <3>1, <3>2 DEF Deployment
  <2>3. "starting" \in Step /\ "ensure" \in InitSteps \ {"pulling"} /\ "starting" \in InitSteps
        BY DEF Step, InitStatus, InitSteps
  <2>4. work'[w].pc = "starting" /\ work'[w].at = work[w].at
        BY <2>1, <2>3, Going
  <2>5. app.status # "stopped"
        BY <1>1, <2>1, <2>3 DEF At, Here, Copy
  <2>6. Fits'
        BY <2>1, <2>2, <2>5 DEF Fits, Serves
  <2>7. Promoted'
        BY <1>1, <2>1, <2>3, JobsStay, StepsKnown DEF Promoted, Here, OwnJob, Ops, At
  <2>8. Copy(w)' /\ Scaled(w)'
        BY <1>1, <2>1, <2>2, <2>4, <2>5, <2>3 DEF Copy, Scaled, Here, Checking, Restarting, At
  <2> QED BY <2>1, <2>3, <2>6, <2>7, <2>8, StepHeld, StepsKnown DEF Ops, At
<1>3. CASE WaitReady(w)
  <2>1. At(w, "wait") /\ UNCHANGED <<k8s, binding, latest>>
        BY <1>3 DEF WaitReady
  <2>3. CASE MarkFailed(w)
    <3>1. app'.status # app.status => app'.status = "error"
          BY <1>1, <2>3 DEF MarkFailed, SetStatus, App
    <3> QED BY <2>1, <2>3, <3>1, FailedHeld DEF MarkFailed, At
  <2>4. CASE ~MarkFailed(w)
    <3>1. Goto(w, "binding_waiting") /\ UNCHANGED <<app, jobs, history>>
          BY <1>3, <2>4 DEF WaitReady
    <3>2. "binding_waiting" \in Step
          BY DEF Step
    <3>3. work'[w].pc = "binding_waiting" /\ work'[w].at = work[w].at
          BY <3>1, <3>2, Going
    <3>4. Copy(w)' /\ Scaled(w)'
          BY <1>1, <2>1, <3>1, <3>3, StepsKnown
             DEF Copy, Scaled, Here, Checking, Restarting, At
    <3> QED BY <2>1, <3>1, <3>2, <3>4, PlainHeld, StepsKnown DEF Ops, At, Cut
  <2> QED BY <2>3, <2>4
<1>4. CASE StampApplied(w)
  <2>1. /\ At(w, "stamp") /\ Goto(w, "promote") /\ UNCHANGED <<k8s, binding, latest>>
        /\ UNCHANGED <<jobs, history>>
        BY <1>4 DEF StampApplied
  <2>2. app'.status = app.status
        BY <1>1, <1>4 DEF StampApplied, App
  <2>3. "promote" \in Step
        BY DEF Step
  <2>4. work'[w].pc = "promote" /\ work'[w].at = work[w].at
        BY <2>1, <2>3, Going
  <2>6. Copy(w)' /\ Scaled(w)'
        BY <1>1, <2>1, <2>2, <2>4, StepsKnown
           DEF Copy, Scaled, Here, Checking, Restarting, At
  <2> QED BY <2>1, <2>2, <2>3, <2>6, PlainHeld, StepsKnown DEF Ops, At, Cut
<1>5. CASE PromoteIfChannelBound(w)
  <2>1. /\ work[w].pc \in {"promote", "resume"} /\ ~At(w, "idle") /\ Succeed(w)
        /\ UNCHANGED <<k8s, binding, latest, history>>
        BY <1>5 DEF PromoteIfChannelBound, At
  <2>2. \A kind \in Ops : work[w].pc \in StepsOf(kind) => kind \in {"init"}
        BY <2>1, StepsKnown DEF Ops
  <2>3. Spares({"init"}) /\ Latest' /\ Turn(w) /\ work'[w].pc = "idle"
        BY <2>1, <2>2, Finishes
  <2>4. work[w].at = "binding_waiting" /\ Serves
        BY <1>1, <2>1 DEF Here, Copy, Scaled, Serves
  <2>5. Serves'
        BY <2>1, <2>3, <2>4, ServesKept
  <2>7. app'.status = IF binding = "bound" THEN "running" ELSE app.status
        BY <1>1, <1>5, <2>4 DEF PromoteIfChannelBound, SetStatus, App
  <2>8. Due("start") => Due("start")'
        BY <2>3, DueKept
  <2>9. Fits'
        BY <2>1, <2>5, <2>7, <2>8 DEF Fits, Held, Serving
  <2>10. Promoted'
        BY <2>1, <2>7 DEF Promoted
  <2> QED BY <2>3, <2>9, <2>10, EndHeld
<1> QED BY <1>2, <1>3, <1>4, <1>5, LoadInitHeld, TransitionHeld DEF Initialize

LEMMA StartStopHeld ==
    ASSUME TypeOK, Down, Calm, ~disturbed', Held, NEW w \in Workers, StartStop(w)
    PROVE  Held'
<1>1. app \in App /\ k8s \in Deployment /\ Here(w)
      BY DEF TypeOK, Held
<1> USE DEF quiet, channel
<1>2. CASE LoadStart(w) \/ LoadStop(w)
  <2>1. ~At(w, "idle") /\ UNCHANGED <<app, k8s, binding, latest>>
        BY <1>2 DEF LoadStart, LoadStop, At
  <2>2. CASE HandlerError(w)
        BY <2>1, <2>2, FailedHeld
  <2>3. CASE ~HandlerError(w)
    <3>1. PICK pc \in {"scale1", "scale0"} :
            /\ Goto(w, pc) /\ UNCHANGED <<jobs, history>>
            /\ work[w].pc = IF pc = "scale1" THEN "start" ELSE "stop"
          BY <1>2, <2>3 DEF LoadStart, LoadStop, At
    <3>2. pc \in Step
          BY DEF Step
    <3>3. work'[w].pc = pc
          BY <3>1, <3>2, Going
    <3>4. Copy(w)' /\ Scaled(w)'
          BY <2>1, <3>1, <3>3, StepsKnown DEF Copy, Scaled, Checking, Restarting
    <3>5. \A kind \in Ops : pc \in StepsOf(kind) <=> work[w].pc \in StepsOf(kind)
          BY <3>1, StepsKnown DEF Ops
    <3> QED BY <2>1, <3>1, <3>2, <3>4, <3>5, PlainHeld DEF Cut
  <2> QED BY <2>2, <2>3
<1>3. CASE ScaleUp(w)
  <2>1. At(w, "scale1") /\ ~At(w, "idle") /\ UNCHANGED <<binding, latest>>
        BY <1>3 DEF ScaleUp, At
  <2>2. app'.status = app.status
        BY <1>1, <1>3 DEF ScaleUp, App
  <2>3. CASE HandlerError(w) /\ UNCHANGED k8s
        BY <2>1, <2>2, <2>3, FailedHeld
  <2>4. CASE ~(HandlerError(w) /\ UNCHANGED k8s)
    <3>1. Scale(1) /\ Goto(w, "started") /\ UNCHANGED <<jobs, history>>
          BY <1>3, <2>4 DEF ScaleUp
    <3>2. k8s'.replicas = 1
          BY <1>1, <3>1 DEF Scale, Deployment
    <3>3. "started" \in Step
          BY DEF Step
    <3>4. work'[w].pc = "started"
          BY <3>1, <3>3, Going
    <3>6. Due("start")'
          BY <1>1, <2>1, <3>1, JobsStay, StepsKnown DEF Here, OwnJob, Ops, At
    <3>7. Fits'
          BY <2>2, <3>2, <3>6 DEF Fits, Serves
    <3>8. Promoted'
      <4>1. \A v \in Workers : Cut(v) => Cut(v)'
            BY <2>1, <3>1, <3>3, Goes DEF Cut, Turn, At
      <4>2. Due("init") => Due("init")'
            BY <3>1, JobsStay DEF Ops
      <4> QED BY <2>1, <2>2, <4>1, <4>2 DEF Promoted, Held
    <3>9. Copy(w)' /\ Scaled(w)'
          BY <2>2, <3>2, <3>4, StepsKnown DEF Copy, Scaled, Checking, Restarting
    <3>10. \A kind \in Ops : "started" \in StepsOf(kind) <=> work[w].pc \in StepsOf(kind)
          BY <2>1, StepsKnown DEF Ops, At
    <3> QED BY <2>1, <3>1, <3>3, <3>7, <3>8, <3>9, <3>10, StepHeld
  <2> QED BY <2>3, <2>4
<1>4. CASE ScaleDown(w)
  <2>1. /\ At(w, "scale0") /\ ~At(w, "idle") /\ Goto(w, "stopped")
        /\ UNCHANGED <<app, binding, jobs, latest, history>>
        BY <1>4 DEF ScaleDown, At
  <2>2. k8s'.replicas # 1
    <3>1. CASE k8s.replicas = -1
          BY <1>4, <3>1 DEF ScaleDown
    <3>2. CASE k8s.replicas # -1
      <4>1. Scale(0)
            BY <1>4, <3>2 DEF ScaleDown
      <4>2. k8s'.replicas = 0
            BY <1>1, <4>1 DEF Scale, Deployment
      <4> QED BY <4>2
    <3> QED BY <3>1, <3>2
  <2>3. "stopped" \in Step
        BY DEF Step
  <2>4. work'[w].pc = "stopped"
        BY <2>1, <2>3, Going
  <2>6. Due("stop")'
        BY <1>1, <2>1, JobsStay, StepsKnown DEF Here, OwnJob, Ops, At
  <2>7. Fits'
        BY <2>1, <2>2, <2>6 DEF Fits, Serves
  <2>8. Promoted'
        BY <2>1, <2>3, <2>4, Goes, JobsStay DEF Promoted, Held, Ops, Cut, Turn, At
  <2>9. Copy(w)' /\ Scaled(w)'
        BY <2>1, <2>2, <2>4, StepsKnown DEF Copy, Scaled, Checking, Restarting
  <2>10. \A kind \in Ops : "stopped" \in StepsOf(kind) <=> work[w].pc \in StepsOf(kind)
        BY <2>1, StepsKnown DEF Ops, At
  <2> QED BY <2>1, <2>3, <2>7, <2>8, <2>9, <2>10, StepHeld
<1>5. CASE RecordStatus(w)
  <2>1. /\ work[w].pc \in {"started", "stopped"} /\ ~At(w, "idle") /\ Succeed(w)
        /\ UNCHANGED <<k8s, binding, latest, history>>
        BY <1>5 DEF RecordStatus, At
  <2>2. app'.status = IF At(w, "started") THEN "running" ELSE "stopped"
        BY <1>1, <1>5 DEF RecordStatus, SetStatus, App
  <2>3. \A kind \in Ops : work[w].pc \in StepsOf(kind) => kind \in {"start", "stop"}
        BY <2>1, StepsKnown DEF Ops
  <2>4. Latest' /\ Turn(w) /\ work'[w].pc = "idle"
        BY <2>1, <2>3, Finishes
  <2>5. IF At(w, "started") THEN k8s.replicas = 1 ELSE k8s.replicas # 1
        BY <1>1, <2>1 DEF Here, Scaled, At
  <2>7. Fits' /\ Promoted'
        BY <2>1, <2>2, <2>5 DEF Fits, Promoted, Serving, Serves
  <2> QED BY <2>4, <2>7, EndHeld
<1> QED BY <1>2, <1>3, <1>4, <1>5 DEF StartStop

LEMMA DeleteHeld ==
    ASSUME TypeOK, Down, Calm, Held, NEW w \in Workers, DeleteApp(w)
    PROVE  Held'
<1>1. app \in App /\ Here(w)
      BY DEF TypeOK, Held
<1> USE DEF quiet, channel
<1>2. CASE DeleteCluster(w)
  <2>1. /\ At(w, "delete") /\ ~At(w, "idle") /\ Goto(w, "archive")
        /\ UNCHANGED <<app, binding, jobs, latest, history>>
        BY <1>2 DEF DeleteCluster, At
  <2>2. k8s'.replicas = -1
        BY <1>2, ClusterTyped DEF DeleteCluster
  <2>3. "archive" \in Step
        BY DEF Step
  <2>4. work'[w].pc = "archive"
        BY <2>1, <2>3, Going
  <2>5. Due("delete")'
        BY <1>1, <2>1, JobsStay, StepsKnown DEF Here, OwnJob, Ops, At
  <2>6. Fits'
        BY <2>1, <2>2, <2>5 DEF Fits, Held, Serves
  <2>7. Promoted'
        BY <2>1, <2>3, <2>4, Goes, JobsStay DEF Promoted, Held, Ops, Cut, Turn, At
  <2>8. Copy(w)' /\ Scaled(w)'
        BY <2>4, StepsKnown DEF Copy, Scaled, Checking, Restarting
  <2>9. \A kind \in Ops : "archive" \in StepsOf(kind) <=> work[w].pc \in StepsOf(kind)
        BY <2>1, StepsKnown DEF Ops, At
  <2> QED BY <2>1, <2>3, <2>6, <2>7, <2>8, <2>9, StepHeld
<1>3. CASE SoftDelete(w)
  <2>1. /\ At(w, "archive") /\ ~At(w, "idle") /\ Succeed(w)
        /\ UNCHANGED <<k8s, binding, latest, history>>
        BY <1>3 DEF SoftDelete, At
  <2>2. app'.status = "deleted"
        BY <1>1, <1>3 DEF SoftDelete, App, Calm
  <2>3. \A kind \in Ops : work[w].pc \in StepsOf(kind) => kind \in {"delete"}
        BY <2>1, StepsKnown DEF Ops, At
  <2>4. Latest' /\ Turn(w) /\ work'[w].pc = "idle"
        BY <2>1, <2>3, Finishes
  <2>5. Fits' /\ Promoted'
        BY <2>2 DEF Fits, Promoted, Serving
  <2> QED BY <2>4, <2>5, EndHeld
<1> QED BY <1>2, <1>3 DEF DeleteApp

LEMMA RestartHeld ==
    ASSUME TypeOK, Down, Calm, ~disturbed', Held, NEW w \in Workers, RestartApp(w)
    PROVE  Held'
<1>1. app \in App /\ k8s \in Deployment /\ Here(w) /\ work \in [Workers -> Work]
      BY DEF TypeOK, Held
<1> USE DEF quiet, channel
<1>2. CASE LoadRestart(w)
  <2>1. At(w, "restart") /\ ~At(w, "idle") /\ UNCHANGED <<app, k8s, binding, latest>>
        BY <1>2 DEF LoadRestart, At
  <2>2. CASE HandlerError(w)
        BY <2>1, <2>2, FailedHeld
  <2>3. CASE ~HandlerError(w)
    <3>1. PICK pc \in {"update", "shut"} :
            work' = [work EXCEPT ![w].pc = pc, ![w].ver = app.version]
          BY <1>2, <2>3 DEF LoadRestart
    <3>2. k8s.replicas # 0 /\ UNCHANGED <<jobs, overlapped>>
          BY <1>2, <2>3 DEF LoadRestart, Disturb
    <3>3. /\ work'[w].pc = pc /\ work'[w].job = work[w].job
          /\ \A v \in Workers \ {w} : work'[v] = work[v]
          BY <1>1, <3>1 DEF Work
    <3>4. Turn(w)
          BY <2>1, <3>2, <3>3 DEF Turn
    <3>5. Spares({})
          BY <2>1, <3>2, NothingWritten DEF Held
    <3>6. Fits'
          BY <2>1, <3>5, FitsKept DEF Held
    <3>7. Promoted'
          BY <2>1, <3>3, <3>5, PromotedKept DEF Held, Cut, At
    <3>8. Copy(w)' /\ Scaled(w)'
          BY <2>1, <3>2, <3>3, StepsKnown DEF Copy, Scaled, Checking, Restarting
    <3>9. \A kind \in Ops : work'[w].pc \in StepsOf(kind) <=> work[w].pc \in StepsOf(kind)
          BY <2>1, <3>3, StepsKnown DEF Ops, At
    <3> QED BY <2>1, <3>2, <3>3, <3>4, <3>6, <3>7, <3>8, <3>9, GoOnHeld
  <2> QED BY <2>2, <2>3
<1>3. CASE RestartImage(w) \/ RestartRollout(w)
  <2>1. /\ work[w].pc \in {"update", "rollout"} /\ ~At(w, "idle")
        /\ UNCHANGED <<app, binding, latest>>
        BY <1>3 DEF RestartImage, RestartRollout, At
  <2>2. k8s.replicas # 0
        BY <1>1, <2>1 DEF Here, Scaled, Restarting
  <2>3. CASE HandlerError(w) /\ UNCHANGED k8s
        BY <2>1, <2>3, FailedHeld
  <2>4. CASE ~(HandlerError(w) /\ UNCHANGED k8s)
    <3>1. PICK pc \in {"repull", "restarted"} : Goto(w, pc)
          BY <1>3, <2>4 DEF RestartImage, RestartRollout
    <3>2. /\ k8s.replicas # -1 /\ UNCHANGED <<jobs, history>>
          /\ UpdateImage(work[w].ver) \/ RolloutRestart
          BY <1>3, <2>4 DEF RestartImage, RestartRollout
    <3>3. work[w].ver \in 1..MaxVersion
          BY <1>1 DEF Work
    <3>4. k8s'.replicas = k8s.replicas
          BY <3>2, <3>3, ClusterTyped
    <3>5. k8s'.replicas = 1
          BY <1>1, <2>2, <3>2, <3>4 DEF Deployment
    <3>6. pc \in Step
          BY DEF Step
    <3>7. work'[w].pc = pc
          BY <3>1, <3>6, Going
    <3>8. Copy(w)' /\ Scaled(w)'
          BY <2>1, <2>2, <3>5, <3>7, StepsKnown DEF Copy, Scaled, Checking, Restarting
    <3>9. \A kind \in Ops : pc \in StepsOf(kind) <=> work[w].pc \in StepsOf(kind)
          BY <2>1, StepsKnown DEF Ops
    <3> QED BY <2>1, <3>1, <3>2, <3>4, <3>6, <3>8, <3>9, PlainHeld DEF Cut
  <2> QED BY <2>3, <2>4
<1>4. CASE RestartRepull(w) \/ RestartStatus(w)
  <2>1. /\ work[w].pc \in {"repull", "restarted"} /\ ~At(w, "idle")
        /\ UNCHANGED <<k8s, jobs, binding, latest, history>>
        BY <1>4 DEF RestartRepull, RestartStatus, At
  <2>2. PICK pc \in {"enqueue", "applied"} : Goto(w, pc)
        BY <1>4 DEF RestartRepull, RestartStatus
  <2>3. /\ app'.status \in {"pulling", "running"}
        /\ app'.status = "running" => At(w, "restarted")
        BY <1>1, <1>4 DEF RestartRepull, RestartStatus, SetStatus, App
  <2>4. /\ k8s.replicas # 0
        /\ app'.status = "running" => k8s.replicas = 1
        BY <1>1, <2>1, <2>3 DEF Here, Scaled, Restarting, At
  <2>5. pc \in Step
        BY DEF Step
  <2>6. work'[w].pc = pc
        BY <2>2, <2>5, Going
  <2>7. Fits' /\ Promoted'
        BY <2>1, <2>3, <2>4 DEF Fits, Promoted, Serving, Serves
  <2>8. Copy(w)' /\ Scaled(w)'
        BY <2>1, <2>3, <2>4, <2>6, StepsKnown DEF Copy, Scaled, Checking, Restarting
  <2>9. \A kind \in Ops : pc \in StepsOf(kind) <=> work[w].pc \in StepsOf(kind)
        BY <2>1, StepsKnown DEF Ops
  <2> QED BY <2>1, <2>2, <2>5, <2>7, <2>8, <2>9, StepHeld
<1>5. CASE RestartEnqueue(w)
  <2>1. /\ At(w, "enqueue") /\ ~At(w, "idle") /\ Succession(w, "init")
        /\ UNCHANGED <<app, k8s, binding, history>>
        BY <1>5 DEF RestartEnqueue, At
  <2>2. Owns(w) => jobs[work[w].job].kind \notin Ops
        BY <1>1, <2>1, StepsKnown DEF Here, OwnJob, Ops, At
  <2>3. Spares({}) /\ Latest'
        BY <2>1, <2>2, SuccessionSpares DEF Held, Kind, Spares
  <2>4. Turn(w) /\ work'[w].pc = "idle"
        BY <2>1, Goes DEF Succession, history
  <2>5. Fits'
        BY <2>1, <2>3, FitsKept DEF Held
  <2>6. Promoted'
        BY <2>1, <2>3, <2>4, PromotedKept DEF Held, Cut, At, Turn
  <2> QED BY <2>3, <2>4, <2>5, <2>6, EndHeld
<1>6. CASE ShutGate(w)
  <2>1. /\ At(w, "shut") /\ ~At(w, "idle") /\ Goto(w, "rollout")
        /\ UNCHANGED <<k8s, jobs, binding, latest, history>>
        BY <1>6 DEF ShutGate, At
  <2>2. app'.status = app.status
        BY <1>1, <1>6 DEF ShutGate, App
  <2>3. k8s.replicas # 0
        BY <1>1, <2>1 DEF Here, Scaled, Restarting, At
  <2>4. "rollout" \in Step
        BY DEF Step
  <2>5. work'[w].pc = "rollout"
        BY <2>1, <2>4, Going
  <2>6. Copy(w)' /\ Scaled(w)'
        BY <2>1, <2>2, <2>3, <2>5, StepsKnown DEF Copy, Scaled, Checking, Restarting
  <2>7. \A kind \in Ops : "rollout" \in StepsOf(kind) <=> work[w].pc \in StepsOf(kind)
        BY <2>1, StepsKnown DEF Ops, At
  <2> QED BY <2>1, <2>2, <2>4, <2>6, <2>7, PlainHeld DEF Cut, At
<1>7. CASE RestartApplied(w)
  <2>1. /\ At(w, "applied") /\ ~At(w, "idle") /\ Succeed(w)
        /\ UNCHANGED <<k8s, binding, latest, history>>
        BY <1>7 DEF RestartApplied, At
  <2>2. app'.status = app.status
        BY <1>1, <1>7 DEF RestartApplied, App
  <2>3. \A kind \in Ops : work[w].pc \in StepsOf(kind) => kind \in {}
        BY <2>1, StepsKnown DEF Ops, At
  <2>4. /\ Spares({}) /\ Latest' /\ Turn(w) /\ work'[w].pc = "idle"
        /\ \A v \in Workers : Cut(v) /\ v # w => Cut(v)'
        BY <2>1, <2>3, Finishes
  <2>5. Fits'
        BY <2>1, <2>2, <2>4, FitsKept DEF Held
  <2>6. Promoted'
        BY <2>1, <2>2, <2>4, PromotedKept DEF Held, Cut, At
  <2> QED BY <2>4, <2>5, <2>6, EndHeld
<1> QED BY <1>2, <1>3, <1>4, <1>5, <1>6, <1>7 DEF RestartApp

\* A handler that is no operation ends, well or by a job that goes on.
LEMMA OtherEnds ==
    ASSUME TypeOK, Down, Calm, Held, NEW w \in Workers, ~At(w, "idle"), UNCHANGED history,
           \A kind \in Ops : work[w].pc \notin StepsOf(kind), ~Cut(w),
           \/ Succeed(w) /\ UNCHANGED latest
           \/ \E kind \in Kind : Succession(w, kind),
           app'.status = app.status, k8s'.replicas = k8s.replicas,
           binding' = "bound" => binding = "bound"
    PROVE  Held'
<1>1. Spares({}) /\ Turn(w) /\ work'[w].pc = "idle"
  <2>1. CASE Succeed(w) /\ UNCHANGED latest
        BY <2>1, Finishes
  <2>2. CASE ~(Succeed(w) /\ UNCHANGED latest)
    <3>1. PICK kind \in Kind : Succession(w, kind)
          BY <2>2
    <3>2. Owns(w) => jobs[work[w].job].kind \notin Ops
          BY DEF Held, Here, OwnJob
    <3>3. Spares({})
          BY <3>1, <3>2, SuccessionSpares DEF Held
    <3>4. Turn(w) /\ work'[w].pc = "idle"
          BY <3>1, Goes DEF Succession, history
    <3> QED BY <3>3, <3>4
  <2> QED BY <2>1, <2>2
<1>2. Latest' /\ Fits'
      BY <1>1, FitsKept DEF Held, Spares
<1>3. \A v \in Workers : Cut(v) => Cut(v)'
      BY <1>1 DEF Cut, Turn
<1>4. Promoted'
      BY <1>1, <1>3, PromotedKept DEF Held
<1> QED BY <1>1, <1>2, <1>4, EndHeld

LEMMA LoginHeld ==
    ASSUME TypeOK, Down, Calm, ~disturbed', Held, NEW w \in Workers,
           LoadLogin(w) \/ BeginLogin(w) \/ LoadCheck(w)
    PROVE  Held'
<1>1. app \in App /\ k8s \in Deployment /\ Here(w) /\ work \in [Workers -> Work]
      BY DEF TypeOK, Held
<1> USE DEF quiet, channel
<1>2. /\ work[w].pc \in {"login", "begin", "check"} /\ ~At(w, "idle")
      /\ UNCHANGED <<app, k8s>>
      BY DEF LoadLogin, BeginLogin, LoadCheck, At
<1>3. (\A kind \in Ops : work[w].pc \notin StepsOf(kind)) /\ ~Cut(w)
      BY <1>2, StepsKnown DEF Ops, Cut
<1>4. CASE LoadLogin(w)
  <2>1. UNCHANGED history /\ (binding' = "bound" => binding = "bound")
        BY <1>4 DEF LoadLogin
  <2>2. CASE Goto(w, "begin") /\ UNCHANGED <<jobs, binding, latest>>
    <3>1. "begin" \in Step
          BY DEF Step
    <3>2. work'[w].pc = "begin"
          BY <2>2, <3>1, Going
    <3>3. Copy(w)' /\ Scaled(w)'
          BY <3>2, StepsKnown DEF Copy, Scaled, Checking, Restarting
    <3>4. \A kind \in Ops : "begin" \notin StepsOf(kind)
          BY StepsKnown DEF Ops
    <3> QED BY <1>2, <1>3, <2>1, <2>2, <3>1, <3>3, <3>4, PlainHeld
  <2>3. CASE ~(Goto(w, "begin") /\ UNCHANGED <<jobs, binding, latest>>)
    <3>1. \/ Succeed(w) /\ UNCHANGED latest
          \/ \E kind \in Kind : Succession(w, kind)
          BY <1>4, <2>3 DEF LoadLogin, Kind
    <3> QED BY <1>2, <1>3, <2>1, <3>1, OtherEnds
  <2> QED BY <2>2, <2>3
<1>5. CASE BeginLogin(w)
  <2>1. binding' # "bound"
        BY <1>5 DEF BeginLogin
  <2>2. CASE HandlerError(w) /\ UNCHANGED latest
        BY <1>2, <2>1, <2>2, FailedHeld
  <2>3. CASE ~(HandlerError(w) /\ UNCHANGED latest)
    <3>1. UNCHANGED history /\ \E kind \in Kind : Succession(w, kind)
          BY <1>5, <2>3 DEF BeginLogin, Kind
    <3> QED BY <1>2, <1>3, <2>1, <3>1, OtherEnds
  <2> QED BY <2>2, <2>3
<1>6. CASE LoadCheck(w)
  <2>1. UNCHANGED <<binding, latest, history>>
        BY <1>6 DEF LoadCheck
  <2>2. CASE Succeed(w)
        BY <1>2, <1>3, <2>1, <2>2, OtherEnds
  <2>3. CASE ~Succeed(w)
    <3>1. /\ work' = [work EXCEPT ![w].pc = "poll", ![w].at = app.status]
          /\ UNCHANGED jobs
          BY <1>6, <2>3 DEF LoadCheck
    <3>2. /\ work'[w].pc = "poll" /\ work'[w].job = work[w].job /\ work'[w].at = app.status
          /\ \A v \in Workers \ {w} : work'[v] = work[v]
          BY <1>1, <3>1 DEF Work
    <3>3. Turn(w)
          BY <1>2, <2>1, <3>2 DEF Turn, history
    <3>4. Spares({})
          BY <2>1, <3>1, NothingWritten DEF Held
    <3>5. Fits'
          BY <1>2, <3>4, FitsKept DEF Held
    <3>6. Promoted'
          BY <1>2, <1>3, <2>1, <3>2, <3>4, PromotedKept DEF Held, Cut
    <3>8. Copy(w)'
          BY <1>2, <3>2, StepsKnown DEF Copy, Checking, Restarting
    <3>9. app.status = "binding_waiting" => Serves
          BY DEF Held, Fits, Serving
    <3>10. Serves => Serves'
          BY <1>2, <3>4, ServesKept
    <3>11. Scaled(w)'
          BY <3>2, <3>9, <3>10 DEF Scaled, Checking, Restarting
    <3>12. \A kind \in Ops : work'[w].pc \in StepsOf(kind) <=> work[w].pc \in StepsOf(kind)
          BY <1>3, <3>2, StepsKnown DEF Ops
    <3> QED BY <2>1, <3>1, <3>2, <3>3, <3>5, <3>6, <3>8, <3>11, <3>12, GoOnHeld
  <2> QED BY <2>2, <2>3
<1> QED BY <1>4, <1>5, <1>6

LEMMA CheckHeld ==
    ASSUME TypeOK, Down, Calm, ~disturbed', Held, NEW w \in Workers,
           PollBinding(w) \/ ReloadPod(w) \/ FinalizeBound(w)
    PROVE  Held'
<1>1. app \in App /\ k8s \in Deployment /\ Here(w)
      BY DEF TypeOK, Held
<1> USE DEF quiet, channel
<1>2. /\ work[w].pc \in Checking /\ ~At(w, "idle") /\ UNCHANGED history
      /\ \A kind \in Ops : work[w].pc \notin StepsOf(kind)
      BY StepsKnown DEF PollBinding, ReloadPod, FinalizeBound, At, Checking, Ops
<1>3. ASSUME NEW pc \in {"reload", "bound"}, Goto(w, pc), UNCHANGED <<app, jobs, latest>>,
             k8s'.replicas = k8s.replicas
      PROVE  Held'
  <2>1. pc \in Step
        BY DEF Step
  <2>2. work'[w].pc = pc /\ work'[w].at = work[w].at
        BY <1>3, <2>1, Going
  <2>3. Spares({})
        BY <1>3, NothingWritten DEF Held
  <2>4. Fits'
        BY <1>3, <2>3, FitsKept DEF Held
  <2>5. Promoted'
        BY <2>2 DEF Promoted, Cut
  <2>6. Copy(w)'
        BY <1>1, <1>2, <1>3, <2>2, StepsKnown DEF Here, Copy, Checking, Restarting
  <2>7. Serves => Serves'
        BY <1>3, <2>3, ServesKept
  <2>8. Scaled(w)'
        BY <1>1, <1>2, <2>2, <2>7 DEF Here, Scaled, Checking, Restarting
  <2>9. \A kind \in Ops : pc \notin StepsOf(kind)
        BY StepsKnown DEF Ops
  <2> QED BY <1>2, <1>3, <2>1, <2>4, <2>5, <2>6, <2>8, <2>9, StepHeld
<1>4. CASE PollBinding(w)
  <2>1. At(w, "poll") /\ UNCHANGED <<app, k8s>>
        BY <1>4 DEF PollBinding
  <2>2. CASE Goto(w, "reload") /\ UNCHANGED <<jobs, latest>>
        BY <1>3, <2>1, <2>2
  <2>3. CASE ~(Goto(w, "reload") /\ UNCHANGED <<jobs, latest>>)
    <3>1. /\ binding' # "bound"
          /\ \/ Succeed(w) /\ UNCHANGED latest
             \/ \E kind \in Kind : Succession(w, kind)
          BY <1>4, <2>3 DEF PollBinding, Kind
    <3> QED BY <1>2, <2>1, <3>1, OtherEnds DEF Cut, At
  <2> QED BY <2>2, <2>3
<1>5. CASE ReloadPod(w)
  <2>1. k8s'.replicas = k8s.replicas
        BY <1>5, ClusterTyped DEF ReloadPod
  <2> QED BY <1>3, <1>5, <2>1 DEF ReloadPod
<1>6. CASE FinalizeBound(w)
  <2>1. At(w, "bound") /\ Succeed(w) /\ UNCHANGED <<k8s, binding, latest>>
        BY <1>6 DEF FinalizeBound
  <2>2. app'.status = IF work[w].at = "binding_waiting" THEN "running" ELSE app.status
        BY <1>1, <1>6 DEF FinalizeBound, SetStatus, App
  <2>3. Spares({}) /\ Latest' /\ Turn(w) /\ work'[w].pc = "idle"
        BY <1>2, <2>1, Finishes
  <2>4. Serves => Serves'
        BY <2>1, <2>3, ServesKept
  <2>5. Due("start") => Due("start")'
        BY <2>3, DueKept
  <2>6. work[w].at = "binding_waiting" => Serves
        BY <1>1, <1>2 DEF Here, Scaled
  <2>7. Fits'
        BY <2>1, <2>2, <2>4, <2>5, <2>6 DEF Fits, Held, Serving
  <2>8. app'.status # "binding_waiting"
        BY <1>1, <1>2, <2>2 DEF Here, Copy
  <2> QED BY <2>3, <2>7, <2>8, EndHeld DEF Promoted
<1> QED BY <1>4, <1>5, <1>6

\* The worker is cut, the call fails, a job is taken up.
LEMMA RuntimeHeld ==
    ASSUME TypeOK, Down, Calm, ~disturbed', Held, NEW w \in Workers,
           LeaseLost(w) \/ Fault(w) \/ Crash(w)
    PROVE  Held'
<1>1. app \in App
      BY DEF TypeOK
<1>2. UNCHANGED <<k8s, binding, latest>> /\ ~At(w, "idle")
      BY DEF LeaseLost, Fault, Crash, channel, At
<1>3. CASE Fault(w)
  <2>1. app'.status # app.status => app'.status = "error"
        BY <1>1, <1>3 DEF Fault, SetStatus, App
  <2> QED BY <1>2, <1>3, <2>1, FailedHeld DEF Fault
<1>4. CASE LeaseLost(w) \/ Crash(w)
  <2>1. /\ UNCHANGED <<app, jobs, overlapped>> /\ Stop(w) /\ ~Cut(w)
        BY <1>4 DEF LeaseLost, Crash, Disturb
  <2>2. Turn(w) /\ work'[w].pc = "idle"
        BY <1>2, <2>1, Goes
  <2>3. Spares({}) /\ Latest'
        BY <1>2, <2>1, NothingWritten DEF Held, Spares
  <2>4. Fits'
        BY <1>2, <2>1, <2>3, FitsKept DEF Held
  <2>5. Promoted'
        BY <1>2, <2>1, <2>2, <2>3, PromotedKept DEF Held, Cut, Turn
  <2> QED BY <2>2, <2>3, <2>4, <2>5, EndHeld
<1> QED BY <1>3, <1>4

LEMMA ClaimHeld ==
    ASSUME TypeOK, Down, Calm, ~overlapped', Held, NEW w \in Workers, NEW j \in Jobs,
           Claim(w, j)
    PROVE  Held'
<1>1. /\ work \in [Workers -> Work] /\ jobs \in [Jobs -> Row] /\ jobs[j].kind \in Kind
      /\ latest \in 0..MaxJobs
      BY DEF TypeOK, Row
<1>2. /\ At(w, "idle") /\ UNCHANGED <<app, k8s, binding, latest>>
      /\ jobs[j].status = "pending" /\ \A v \in Workers \ {w} : At(v, "idle")
      BY DEF Claim, channel
<1>3. /\ work'[w].pc = jobs[j].kind /\ work'[w].job = j
      /\ \A v \in Workers \ {w} : work'[v].pc = "idle"
      BY <1>1, <1>2 DEF Claim, Work, At
<1>4. /\ jobs'[j].status = "running" /\ jobs'[j].kind = jobs[j].kind
      /\ \A i \in Jobs \ {j} : jobs'[i] = jobs[i]
      BY <1>1 DEF Claim, Row
<1>5. \A kind \in Ops : Due(kind) => Due(kind)'
      BY <1>2, <1>4 DEF Due, Open
<1>6. Due(jobs[j].kind)'
      BY <1>4 DEF Due, Open
<1>7. Latest'
      BY <1>1, <1>2, <1>4 DEF Held, Latest, Jobs
<1>8. Fits'
      BY <1>2, <1>5 DEF Held, Fits, Serves, Ops
<1>9. \A v \in Workers : ~Cut(v)
      BY <1>2 DEF Cut, At
<1>10. Promoted'
      BY <1>2, <1>5, <1>9 DEF Held, Promoted, Ops
<1>11. \A v \in Workers \ {w} : Here(v)'
  <2> TAKE v \in Workers \ {w}
  <2>1. OwnJob(v)'
        BY <1>3, StepsKnown DEF OwnJob, At, Ops
  <2>2. Copy(v)' /\ Scaled(v)'
        BY <1>3, StepsKnown DEF Copy, Scaled, Checking, Restarting
  <2> QED BY <2>1, <2>2 DEF Here
<1>12. OwnJob(w)'
  <2> SUFFICES ASSUME NEW kind \in Ops
               PROVE  /\ work'[w].pc \in StepsOf(kind) => Due(kind)'
                      /\ jobs'[j].kind = kind => work'[w].pc \in StepsOf(kind)
      BY <1>3 DEF OwnJob
  <2>1. work'[w].pc \in StepsOf(kind) => jobs[j].kind = kind
        BY <1>1, <1>3, StepsKnown DEF Kind, Ops
  <2>2. jobs[j].kind = kind => work'[w].pc \in StepsOf(kind)
        BY <1>3, StepsKnown DEF Ops
  <2> QED BY <1>4, <1>6, <2>1, <2>2
<1>13. Copy(w)' /\ Scaled(w)'
      BY <1>1, <1>3, StepsKnown DEF Kind, Copy, Scaled, Checking, Restarting
<1> QED BY <1>7, <1>8, <1>10, <1>11, <1>12, <1>13 DEF Held, Here

\* Users, caretakers and the cluster leave the workers and the scale alone.  They write a
\* status that no handler relies on, and they end no job.
LEMMA OutsideHeld ==
    ASSUME TypeOK, Down, Calm, Held, UNCHANGED work, Spares({}),
           k8s'.replicas = k8s.replicas,
           \/ app'.status = app.status
           \/ app'.status = "pulling"
           \/ app'.status = "error" /\ app.status = "running",
           binding' = "bound" => binding = "bound"
    PROVE  Held'
<1>1. \A kind \in Ops : Due(kind) => Due(kind)'
      BY DEF Spares
<1>2. Serves => Serves'
      BY ServesKept
<1>3. Fits'
  <2>2. app'.status \in Serving => app.status \in Serving
        BY DEF Serving
  <2>3. app'.status = "stopped" => app.status = "stopped"
        OBVIOUS
  <2> QED BY <1>1, <1>2, <2>2, <2>3 DEF Held, Fits, Ops
<1>4. Promoted'
      BY PromotedKept DEF Held, Cut
<1>5. ASSUME NEW w \in Workers
      PROVE  Here(w)'
  <2>1. Here(w) /\ work'[w] = work[w] /\ work[w] \in Work
        BY DEF Held, TypeOK
  <2>2. ~At(w, "idle") /\ Owns(w)' => Owns(w) /\ jobs'[work[w].job] = jobs[work[w].job]
    <3>1. work[w].job # 0 => work[w].job \in Jobs
          BY <2>1 DEF Work, Jobs
    <3> QED BY <2>1, <3>1 DEF Owns, Spares
  <2>3. OwnJob(w)'
        BY <1>1, <2>1, <2>2 DEF Here, OwnJob, At
  <2>4. Copy(w)'
        BY <2>1 DEF Here, Copy
  <2>5. Scaled(w)'
        BY <1>2, <2>1 DEF Here, Scaled
  <2> QED BY <2>3, <2>4, <2>5 DEF Here
<1> QED BY <1>3, <1>4, <1>5 DEF Held, Spares

LEMMA UsersHeld ==
    ASSUME TypeOK, Down, Calm, Held, Users, ~app'.deleted
    PROVE  Held'
<1>1. app \in App
      BY DEF TypeOK
<1>7. ~DeleteMember
      BY <1>1 DEF DeleteMember, App
<1>2. UNCHANGED <<work, k8s>>
      BY <1>7 DEF Users, Trigger, RequestInitialize, SwitchAppVersion, BeginAuth, Unbind, ScanQR
<1>3. binding' = "bound" => binding = "bound"
      BY <1>7 DEF Users, Trigger, RequestInitialize, SwitchAppVersion, BeginAuth, Unbind, ScanQR,
             channel
<1>4. app'.status = app.status \/ app'.status = "pulling"
      BY <1>1, <1>7 DEF Users, Trigger, RequestInitialize, SwitchAppVersion, BeginAuth, Unbind,
                  ScanQR, SetStatus, App
<1>5. UNCHANGED <<jobs, latest>> \/ \E kind \in Kind : CreateJob(kind)
      BY <1>7 DEF Users, Trigger, RequestInitialize, SwitchAppVersion, BeginAuth, Unbind, ScanQR,
             Kind
<1>6. Spares({})
      BY <1>5, NothingWritten, CreateJobSpares DEF Held
<1> QED BY <1>2, <1>3, <1>4, <1>6, OutsideHeld

LEMMA CaretakersHeld ==
    ASSUME TypeOK, Down, Calm, ~disturbed', Held,
           \/ Pod \/ PodFails \/ \E j \in Jobs : Recover(j)
           \/ Reaper \/ SlowReaper \/ LateReaper
           \/ Reconciler \/ SlowReconciler \/ LateReconciler
    PROVE  Held'
<1>1. app \in App /\ k8s \in Deployment
      BY DEF TypeOK
<1> USE DEF channel
<1>2. UNCHANGED <<work, binding>>
      BY DEF Pod, PodFails, Recover, Reaper, SlowReaper, LateReaper, ReapApp, Reconciler,
             SlowReconciler, LateReconciler, Reconcile
<1>3. k8s'.replicas = k8s.replicas
      BY <1>1 DEF Pod, PodEnds, PodBoots, PodFails, Recover, Reaper, SlowReaper, LateReaper,
                  ReapApp, Reconciler, SlowReconciler, LateReconciler, Reconcile, Deployment
<1>4. \/ app'.status = app.status
      \/ app'.status = "pulling"
      \/ app'.status = "error" /\ app.status = "running"
      BY <1>1 DEF Pod, PodFails, Recover, Reaper, SlowReaper, LateReaper, ReapApp, Reconciler,
                  SlowReconciler, LateReconciler, Reconcile, SetStatus, App
<1>5. \/ UNCHANGED <<jobs, latest>>
      \/ EnsureInitJob
      \/ \E j \in Jobs : Recover(j)
      BY DEF Pod, PodFails, Reaper, SlowReaper, LateReaper, ReapApp, Reconciler,
             SlowReconciler, LateReconciler, Reconcile
<1>6. Spares({})
      BY <1>5, NothingWritten, EnsureSpares, RecoverSpares DEF Held
<1> QED BY <1>2, <1>3, <1>4, <1>6, OutsideHeld

\* An archived row is never taken back.
LEMMA DeletedForGood ==
    ASSUME TypeOK, Next, app.deleted
    PROVE  app'.deleted
<1>1. app \in App
      BY DEF TypeOK
<1> USE <1>1 DEF App, SetStatus
<1>2. ASSUME NEW w \in Workers, Initialize(w) \/ StartStop(w) \/ RestartApp(w) \/ DeleteApp(w)
      PROVE  app'.deleted
  <2>1. CASE Initialize(w)
        BY <2>1 DEF Initialize, LoadInit, TransitionTo, PhaseCreate, WaitReady, StampApplied,
                    PromoteIfChannelBound, MarkFailed
  <2>2. CASE StartStop(w) \/ DeleteApp(w)
        BY <2>2 DEF StartStop, LoadStart, ScaleUp, LoadStop, ScaleDown, RecordStatus,
                    DeleteApp, DeleteCluster, SoftDelete
  <2>3. CASE RestartApp(w)
        BY <2>3 DEF RestartApp, LoadRestart, RestartImage, RestartRepull, RestartEnqueue,
                    ShutGate, RestartRollout, RestartStatus, RestartApplied
  <2> QED BY <1>2, <2>1, <2>2, <2>3
<1>3. ASSUME NEW w \in Workers, \/ Login(w) \/ LeaseLost(w) \/ Fault(w) \/ Crash(w)
                                \/ \E j \in Jobs : Claim(w, j)
      PROVE  app'.deleted
      BY <1>3 DEF Login, LoadLogin, BeginLogin, LoadCheck, PollBinding, ReloadPod,
                  FinalizeBound, LeaseLost, Fault, Crash, Claim
<1>4. ASSUME \/ Users \/ Pod \/ PodFails \/ \E j \in Jobs : Recover(j)
             \/ Reaper \/ SlowReaper \/ LateReaper
             \/ Reconciler \/ SlowReconciler \/ LateReconciler
      PROVE  app'.deleted
      BY <1>4 DEF Users, Trigger, RequestInitialize, SwitchAppVersion, DeleteMember, BeginAuth,
           Unbind, ScanQR, Pod, PodFails, Recover, Reaper, SlowReaper, LateReaper, ReapApp,
           Reconciler, SlowReconciler, LateReconciler, Reconcile
<1> QED BY <1>2, <1>3, <1>4 DEF Next, Handler

\* Once handlers have overlapped, or one was disturbed, the history keeps it.
LEMMA CalmBefore ==
    ASSUME TypeOK, Next, Calm'
    PROVE  Calm
<1>1. ASSUME UNCHANGED history
      PROVE  ~overlapped /\ ~disturbed
      BY <1>1 DEF history, Calm
<1>2. ASSUME NEW yes, Disturb(yes)
      PROVE  ~overlapped /\ ~disturbed
      BY <1>2, Zenon DEF Disturb, Calm
<1>3. ASSUME NEW w \in Workers, HandlerError(w)
      PROVE  ~overlapped /\ ~disturbed
      BY <1>2, <1>3 DEF HandlerError
<1>4. ASSUME NEW w \in Workers, Initialize(w)
      PROVE  ~overlapped /\ ~disturbed
      BY <1>1, <1>3, <1>4 DEF Initialize, LoadInit, TransitionTo, PhaseCreate, WaitReady,
                              StampApplied, PromoteIfChannelBound, MarkFailed, history
<1>5. ASSUME NEW w \in Workers, StartStop(w)
      PROVE  ~overlapped /\ ~disturbed
      BY <1>1, <1>3, <1>5 DEF StartStop, LoadStart, ScaleUp, LoadStop, ScaleDown,
                              RecordStatus, history
<1>6. ASSUME NEW w \in Workers, RestartApp(w)
      PROVE  ~overlapped /\ ~disturbed
  <2>1. CASE LoadRestart(w)
        BY <1>2, <1>3, <2>1 DEF LoadRestart
  <2>2. CASE ~LoadRestart(w)
        BY <1>1, <1>3, <1>6, <2>2 DEF RestartApp, RestartImage, RestartRepull, RestartEnqueue,
             ShutGate, RestartRollout, RestartStatus, RestartApplied, history
  <2> QED BY <2>1, <2>2
<1>7. ASSUME NEW w \in Workers, DeleteApp(w) \/ Login(w)
      PROVE  ~overlapped /\ ~disturbed
      BY <1>1, <1>3, <1>7 DEF DeleteApp, DeleteCluster, SoftDelete, Login, LoadLogin,
           BeginLogin, LoadCheck, PollBinding, ReloadPod, FinalizeBound, history
<1>8. ASSUME NEW w \in Workers, LeaseLost(w) \/ Fault(w) \/ Crash(w)
      PROVE  ~overlapped /\ ~disturbed
      BY <1>2, <1>3, <1>8 DEF LeaseLost, Fault, Crash
<1>9. ASSUME NEW w \in Workers, NEW j \in Jobs, Claim(w, j)
      PROVE  ~overlapped /\ ~disturbed
      BY <1>9, Zenon DEF Claim, Calm
<1>10. ASSUME NEW j \in Jobs, Recover(j)
       PROVE  ~overlapped /\ ~disturbed
      BY <1>2, <1>10 DEF Recover
<1>11. ASSUME \/ Users \/ Pod \/ PodFails
              \/ Reaper \/ SlowReaper \/ LateReaper
              \/ Reconciler \/ SlowReconciler \/ LateReconciler
       PROVE  ~overlapped /\ ~disturbed
  <2>1. CASE DeleteMember
        BY <2>1 DEF DeleteMember, Calm
  <2>2. CASE ~DeleteMember
        BY <1>1, <1>11, <2>2 DEF Users, Trigger, RequestInitialize, SwitchAppVersion, BeginAuth,
             Unbind, ScanQR, Pod, PodFails, Reaper, SlowReaper, LateReaper, ReapApp,
             Reconciler, SlowReconciler, LateReconciler, Reconcile, history
  <2> QED BY <2>1, <2>2
<1>12. ~overlapped /\ ~disturbed
       BY <1>4, <1>5, <1>6, <1>7, <1>8, <1>9, <1>10, <1>11 DEF Next, Handler
<1>13. ~app.deleted
       BY DeletedForGood DEF Calm
<1> QED BY <1>12, <1>13 DEF Calm

LEMMA InitSettled == Init => Settled
<1> SUFFICES ASSUME Init
             PROVE  Held
    BY DEF Settled
<1>1. 1 \in Jobs /\ jobs[1].kind = "init" /\ jobs[1].status = "pending" /\ latest = 1
      BY DEF Init, Jobs, NewJob, FreeRow
<1>2. Latest
      BY <1>1 DEF Latest
<1>3. Fits /\ Promoted
      BY DEF Init, Fits, Promoted, Serving
<1>4. \A w \in Workers : Here(w)
  <2> TAKE w \in Workers
  <2>1. work[w].pc = "idle"
        BY DEF Init, Idle
  <2>2. OwnJob(w)
        BY <2>1, StepsKnown DEF OwnJob, At, Ops
  <2>3. Copy(w) /\ Scaled(w)
        BY <2>1, StepsKnown DEF Copy, Scaled, Checking, Restarting
  <2> QED BY <2>2, <2>3 DEF Here
<1> QED BY <1>2, <1>3, <1>4 DEF Held

LEMMA NextSettled ==
    ASSUME TypeOK, Down, Settled, [Next]_vars
    PROVE  Settled'
<1> SUFFICES ASSUME Calm'
             PROVE  Held'
    BY DEF Settled
<1>1. CASE UNCHANGED vars
  <2>1. Held
        BY <1>1 DEF vars, Calm, Settled
  <2> QED BY <1>1, <2>1 DEF vars, Held, Latest, Fits, Promoted, Here, OwnJob, Copy, Scaled,
                            Serves, Due, Open, Cut, Owns, At
<1>2. CASE Next
  <2>1. Calm /\ Held /\ ~overlapped' /\ ~disturbed' /\ ~app'.deleted
        BY <1>2, CalmBefore DEF Settled, Calm
  <2> QED BY <1>2, <2>1, InitializeHeld, StartStopHeld, RestartHeld, DeleteHeld, LoginHeld,
             CheckHeld, RuntimeHeld, ClaimHeld, UsersHeld, CaretakersHeld
          DEF Next, Handler, Login
<1> QED BY <1>1, <1>2

LEMMA AlwaysSettled == Spec => [](TypeOK /\ Settled)
<1> QED BY InitTyped, InitDown, InitSettled, NextTyped, NextDown, NextSettled, PTL DEF Spec

\* RecordStatus, ScaleUp, ScaleDown, SetStatus: when nothing is being done to an app that
\* is not deleted, whose
\* handlers ran one at a time, and none of them failed for good, a stopped row is above a
\* Deployment that is scaled down, and a running one above one that is scaled up.
THEOREM ScaleFollowsStatus == Spec => []ScaleMatchesStatus
<1>1. TypeOK /\ Settled => ScaleMatchesStatus
  <2> SUFFICES ASSUME Settled, AtRest, Calm
               PROVE  /\ app.status = "stopped" => k8s.replicas # 1
                      /\ app.status = "running" => k8s.replicas = 1
      BY DEF ScaleMatchesStatus, Calm
  <2>1. \A kind \in Ops : ~Due(kind)
        BY DEF AtRest, Due, Open, Ops
  <2>2. Fits
        BY DEF Settled, Held
  <2> QED BY <2>1, <2>2 DEF Fits, Serves, Serving, Ops
<1> QED BY <1>1, AlwaysSettled, PTL

\* promoteIfChannelBound, finalizeChannelBound: whichever of the check and of the
\* initialization comes last promotes the app of a bound channel, if it is not deleted.
THEOREM BoundIsPromoted == Spec => []PromotedUnlessCut
<1>1. TypeOK /\ Settled => PromotedUnlessCut
  <2> SUFFICES ASSUME Settled, AtRest, Calm, binding = "bound"
               PROVE  app.status # "binding_waiting"
      BY DEF PromotedUnlessCut, Calm
  <2>1. ~Due("init") /\ \A w \in Workers : ~Cut(w)
        BY DEF AtRest, Due, Open, Cut, At
  <2> QED BY <2>1 DEF Settled, Held, Promoted
<1> QED BY <1>1, AlwaysSettled, PTL
=============================================================================
