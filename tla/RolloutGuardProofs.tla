------------------------ MODULE RolloutGuardProofs ------------------------
(***************************************************************************)
(* Proofs about the rollouts, for any number of apps, workers and jobs and *)
(* any bounds: an applied revision is never ahead of the pods, a model job *)
(* that succeeded left no app behind, and while no two workers run one job *)
(* its marker stands for an app that it owns and whose gate is shut.       *)
(***************************************************************************)
EXTENDS RolloutGuard, SequenceTheorems, TLAPS

\* What a step leaves of the jobs: rows stay, with their kind and target, and a
\* new one is a prompt job; markers stay; none becomes succeeded.
RowsKept ==
    /\ Len(jobs') >= Len(jobs)
    /\ \A j \in 1..Len(jobs) : /\ jobs'[j].kind = jobs[j].kind
                              /\ jobs'[j].target = jobs[j].target
    /\ \A j \in 1..Len(jobs') : j > Len(jobs) => /\ jobs'[j].kind = "prompt"
                                                 /\ jobs'[j].marker = NoMarker

MarkersKept == \A j \in 1..Len(jobs) : jobs'[j].marker = jobs[j].marker

NoSuccess ==
    \A j \in 1..Len(jobs) : jobs'[j].status = "succeeded" => jobs[j].status = "succeeded"

\* What most steps do.
RowsSafe == JobsType' /\ RowsKept /\ MarkersKept /\ NoSuccess

LEMMA Lengths ==
    ASSUME JobsType
    PROVE  /\ Len(jobs) \in Nat /\ Rows = 1..Len(jobs)
           /\ \A j \in 1..Len(jobs) : jobs[j] \in JobRow
BY DEF JobsType, Rows

LEMMA JobsStay ==
    ASSUME JobsType, UNCHANGED jobs
    PROVE  RowsSafe
<1>1. Len(jobs) \in Nat
      BY Lengths
<1> QED BY <1>1 DEF JobsType, RowsSafe, RowsKept, MarkersKept, NoSuccess

\* A row that is replaced by another one of its kind and target.
LEMMA EditRow ==
    ASSUME JobsType, NEW j \in 1..Len(jobs), NEW row \in JobRow,
           row.kind = jobs[j].kind, row.target = jobs[j].target,
           row.lease # None <=> row.status = "running",
           jobs' = [jobs EXCEPT ![j] = row]
    PROVE  /\ JobsType' /\ RowsKept
           /\ Len(jobs') = Len(jobs)
           /\ \A i \in 1..Len(jobs) : jobs'[i] = IF i = j THEN row ELSE jobs[i]
<1>1. /\ Len(jobs) \in Nat /\ DOMAIN jobs = 1..Len(jobs)
      BY DEF JobsType
<1>2. /\ jobs' \in Seq(JobRow) /\ Len(jobs') = Len(jobs)
      /\ \A i \in 1..Len(jobs) : jobs'[i] = IF i = j THEN row ELSE jobs[i]
      BY ExceptSeq DEF JobsType
<1>3. DOMAIN jobs' = 1..Len(jobs)
      BY <1>2
<1> QED BY <1>1, <1>2, <1>3 DEF JobsType, RowsKept

\* What an update of a row's state does.
LEMMA EditState ==
    ASSUME JobsType, NEW j \in 1..Len(jobs), NEW row \in JobRow,
           row.kind = jobs[j].kind, row.target = jobs[j].target,
           row.marker = jobs[j].marker, row.lease # None <=> row.status = "running",
           jobs' = [jobs EXCEPT ![j] = row]
    PROVE  /\ JobsType' /\ RowsKept /\ MarkersKept
           /\ row.status # "succeeded" => RowsSafe
<1>1. DOMAIN jobs = 1..Len(jobs)
      BY DEF JobsType
<1>2. /\ JobsType' /\ RowsKept
      /\ \A i \in 1..Len(jobs) : jobs'[i] = IF i = j THEN row ELSE jobs[i]
      BY EditRow
<1> QED BY <1>1, <1>2 DEF MarkersKept, NoSuccess, RowsSafe

\* What an update of a row's marker does.
LEMMA EditMarker ==
    ASSUME JobsType, NEW j \in 1..Len(jobs), NEW m \in Marker,
           jobs' = [jobs EXCEPT ![j].marker = m]
    PROVE  /\ JobsType' /\ RowsKept /\ NoSuccess
           /\ \A i \in 1..Len(jobs) : jobs'[i].marker = IF i = j THEN m ELSE jobs[i].marker
<1> DEFINE row == [jobs[j] EXCEPT !.marker = m]
<1>1. jobs[j] \in JobRow /\ DOMAIN jobs = 1..Len(jobs)
      BY DEF JobsType
<1>2. /\ row \in JobRow /\ row.kind = jobs[j].kind /\ row.target = jobs[j].target
      /\ row.marker = m /\ row.status = jobs[j].status /\ row.lease = jobs[j].lease
      BY <1>1 DEF JobRow
<1>3. jobs' = [jobs EXCEPT ![j] = row]
      BY <1>1 DEF JobRow
<1>a. row.lease # None <=> row.status = "running"
      BY <1>1, <1>2 DEF JobsType
<1> HIDE DEF row
<1>4. /\ JobsType' /\ RowsKept
      /\ \A i \in 1..Len(jobs) : jobs'[i] = IF i = j THEN row ELSE jobs[i]
      BY <1>2, <1>3, <1>a, EditRow
<1> QED BY <1>1, <1>2, <1>4 DEF NoSuccess

\* What w has in hand is as before, at step pc.
OnTo(w, pc) ==
    /\ work'[w].pc = pc /\ work'[w].job = work[w].job
    /\ work'[w].marker = work[w].marker
    /\ work'[w].pick = work[w].pick /\ work'[w].rev = work[w].rev

OthersKept(w) == \A v \in Workers \ {w} : work'[v] = work[v]

\* A worker that stops, and one that goes on to another step of its job.
LEMMA StopStep ==
    ASSUME WorkType, Len(jobs) \in Nat, Len(jobs') \in Nat, Len(jobs') >= Len(jobs),
           NEW w \in Workers, Stop(w)
    PROVE  WorkType' /\ OthersKept(w) /\ work'[w] = Idle
<1>1. Idle \in WorkRow /\ Idle.pc = "idle" /\ Idle.job = 0
      BY DEF Idle, WorkRow, Marker, NoMarker, Step
<1> QED BY <1>1 DEF WorkType, Stop, OthersKept

LEMMA GotoStep ==
    ASSUME WorkType, Len(jobs) \in Nat, Len(jobs') \in Nat, Len(jobs') >= Len(jobs),
           NEW w \in Workers, NEW row \in WorkRow,
           row.pc # "idle", work[w].pc # "idle", row.job = work[w].job,
           work' = [work EXCEPT ![w] = row]
    PROVE  WorkType' /\ OthersKept(w) /\ work'[w] = row
BY DEF WorkType, OthersKept

LEMMA GotoPc ==
    ASSUME WorkType, Len(jobs) \in Nat, Len(jobs') \in Nat, Len(jobs') >= Len(jobs),
           NEW w \in Workers, NEW pc \in Step \ {"idle"},
           work[w].pc # "idle", Goto(w, pc)
    PROVE  /\ WorkType' /\ OthersKept(w)
           /\ OnTo(w, pc)
<1>1. work[w] \in WorkRow
      BY DEF WorkType
<1>2. [work[w] EXCEPT !.pc = pc] \in WorkRow
      BY <1>1 DEF WorkRow
<1>3. work' = [work EXCEPT ![w] = [work[w] EXCEPT !.pc = pc]]
      BY DEF Goto
<1>4. WorkType' /\ OthersKept(w) /\ work'[w] = [work[w] EXCEPT !.pc = pc]
      BY <1>1, <1>2, <1>3, GotoStep DEF WorkRow
<1> QED BY <1>1, <1>4 DEF WorkRow, OnTo

\* What ends an attempt without success.
LEMMA DeferStep ==
    ASSUME JobsType, WorkType, NEW w \in Workers, DeferJob(w)
    PROVE  /\ RowsSafe
           /\ WorkType' /\ OthersKept(w) /\ work'[w] = Idle
<1> DEFINE j == work[w].job
<1>1. Len(jobs) \in Nat /\ DOMAIN jobs = 1..Len(jobs) /\ j \in 0..Len(jobs)
      BY DEF JobsType, WorkType
<1>2. RowsSafe
  <2>1. CASE Owns(w)
    <3> DEFINE n == IF jobs[j].attempts > 0 THEN jobs[j].attempts - 1 ELSE 0
    <3>1. j \in 1..Len(jobs)
          BY <1>1, <2>1 DEF Owns
    <3>2. jobs[j] \in JobRow
          BY <3>1, <1>1 DEF JobsType
    <3>3. n \in 0..MaxAttempts
          BY <3>2, ConstantsAssumption DEF JobRow
    <3> DEFINE row == [jobs[j] EXCEPT !.status = "pending", !.lease = None, !.attempts = n]
    <3>4. jobs' = [jobs EXCEPT ![j] = row]
          BY <2>1, <3>1, <3>2, <1>1 DEF DeferJob, JobRow
    <3>5. /\ row \in JobRow /\ row.kind = jobs[j].kind /\ row.target = jobs[j].target
          /\ row.marker = jobs[j].marker /\ row.status = "pending" /\ row.lease = None
          BY <3>2, <3>3 DEF JobRow, Status
    <3> HIDE DEF row, n, j
    <3> QED BY <3>1, <3>4, <3>5, EditState
  <2>2. CASE ~Owns(w)
        BY <2>2, JobsStay DEF DeferJob
  <2> QED BY <2>1, <2>2
<1>3. Stop(w)
      BY DEF DeferJob
<1>4. Len(jobs') \in Nat /\ Len(jobs') >= Len(jobs)
      BY <1>1, <1>2 DEF RowsSafe, RowsKept, JobsType
<1> QED BY <1>1, <1>2, <1>3, <1>4, StopStep

LEMMA ErrorStep ==
    ASSUME JobsType, WorkType, NEW w \in Workers, work[w].pc # "idle", HandlerError(w)
    PROVE  /\ RowsSafe
           /\ WorkType' /\ OthersKept(w)
           /\ work'[w] = Idle \/ OnTo(w, "after")
<1> DEFINE j == work[w].job
<1>1. Len(jobs) \in Nat /\ DOMAIN jobs = 1..Len(jobs) /\ j \in 0..Len(jobs)
      BY DEF JobsType, WorkType
<1>2. RowsSafe
  <2>1. CASE Owns(w)
    <3> DEFINE s == IF work[w].attempts >= MaxAttempts THEN "failed" ELSE "pending"
    <3>1. j \in 1..Len(jobs)
          BY <1>1, <2>1 DEF Owns
    <3>2. jobs[j] \in JobRow
          BY <3>1, <1>1 DEF JobsType
    <3> DEFINE row == [jobs[j] EXCEPT !.status = s, !.lease = None]
    <3>3. jobs' = [jobs EXCEPT ![j] = row]
          BY <2>1, <3>1, <3>2, <1>1 DEF HandlerError, JobRow
    <3>4. s \in Status \ {"running", "succeeded"}
          BY DEF Status
    <3>5. /\ row \in JobRow /\ row.kind = jobs[j].kind /\ row.target = jobs[j].target
          /\ row.marker = jobs[j].marker /\ row.status = s /\ row.lease = None
          BY <3>2, <3>4 DEF JobRow
    <3> HIDE DEF row, s, j
    <3> QED BY <3>1, <3>3, <3>4, <3>5, EditState
  <2>2. CASE ~Owns(w)
        BY <2>2, JobsStay DEF HandlerError
  <2> QED BY <2>1, <2>2
<1>3. Stop(w) \/ Goto(w, "after")
      BY DEF HandlerError
<1>4. Len(jobs') \in Nat /\ Len(jobs') >= Len(jobs)
      BY <1>1, <1>2 DEF RowsSafe, RowsKept, JobsType
<1>5. "after" \in Step \ {"idle"}
      BY DEF Step
<1> QED BY <1>1, <1>2, <1>3, <1>4, <1>5, StopStep, GotoPc

\* What the invariant says of one worker, when that worker moves and the cluster
\* stays as it is.
Frame == UNCHANGED <<revision, applied, spec, boot, pod>>

LEMMA WorkerMoves ==
    ASSUME IInv, TypeOK', Frame, RowsKept, NEW w \in Workers, OthersKept(w),
           \A j \in Rows' : RowSound(j)', StepSound(w)'
    PROVE  IInv'
<1>1. Generations' /\ AppliedNotAhead'
      BY DEF IInv, Frame, Generations, AppliedNotAhead
<1>2. ASSUME NEW v \in Workers, v # w
      PROVE  StepSound(v)'
  <2>1. work'[v] = work[v] /\ StepSound(v) /\ work[v].job \in 0..Len(jobs)
        BY <1>2 DEF OthersKept, IInv, TypeOK, WorkType
  <2>2. Sound(work[v].marker)' <=> Sound(work[v].marker)
        BY <2>1 DEF Sound, Frame
  <2>3. work[v].pc \in {"before", "finish"} => Reached(work[v].job)'
    <3>1. CASE work[v].pc \in {"before", "finish"}
      <4>1. work[v].pc # "idle" /\ Len(jobs) \in Nat
            BY <3>1 DEF IInv, TypeOK, JobsType
      <4>2. work[v].job # 0
            BY <4>1 DEF IInv, TypeOK, WorkType
      <4>3. work[v].job \in 1..Len(jobs)
            BY <2>1, <4>1, <4>2
      <4> QED BY <2>1, <3>1, <4>3 DEF StepSound, Needs, Reached, RowsKept, Frame
    <3> QED BY <3>1
  <2> QED BY <2>1, <2>2, <2>3 DEF StepSound, Needs, Frame, Target
<1> QED BY <1>1, <1>2 DEF IInv

\* The rows stay sound when their markers stay and none succeeds.
LEMMA RowsStaySound ==
    ASSUME IInv, Frame, RowsSafe, NEW j \in Rows'
    PROVE  RowSound(j)'
<1>1. Len(jobs) \in Nat /\ Rows = 1..Len(jobs)
      BY Lengths DEF IInv, TypeOK
<1>2. Len(jobs') \in Nat /\ Rows' = 1..Len(jobs') /\ jobs'[j] \in JobRow
      BY DEF RowsSafe, JobsType, Rows
<1>3. CASE j \in 1..Len(jobs)
  <2>1. RowSound(j) /\ jobs'[j].marker = jobs[j].marker
        /\ jobs'[j].kind = jobs[j].kind /\ jobs'[j].target = jobs[j].target
        BY <1>1, <1>3 DEF IInv, RowsSafe, MarkersKept, RowsKept
  <2> QED BY <1>1, <1>3, <2>1 DEF RowSound, Sound, Reached, RowsSafe, NoSuccess, Frame
<1>4. CASE j \notin 1..Len(jobs)
  <2>1. jobs'[j].kind = "prompt" /\ jobs'[j].marker = NoMarker
        BY <1>1, <1>2, <1>4 DEF RowsSafe, RowsKept
  <2>2. revision' \in Nat
        BY DEF IInv, TypeOK, EnvType, Frame
  <2> QED BY <2>1, <2>2 DEF RowSound, Sound, Reached, NoMarker
<1> QED BY <1>3, <1>4

\* A worker that stops, or goes on to a step whose needs are met.
LEMMA OnToStep ==
    ASSUME IInv, RowsSafe, Frame, NEW w \in Workers, work[w].pc # "idle",
           NEW pc \in Step, Needs(w, pc), OnTo(w, pc)
    PROVE  StepSound(w)'
<1>1. StepSound(w) /\ Len(jobs) \in Nat /\ work[w].job \in 1..Len(jobs)
      BY Lengths DEF IInv, TypeOK, WorkType
<1>2. Sound(work[w].marker)' /\ Target(w)' = Target(w)
      BY <1>1 DEF StepSound, Sound, Frame, OnTo, Target
<1>3. Reached(work[w].job) => Reached(work[w].job)'
  <2>1. /\ jobs'[work[w].job].kind = jobs[work[w].job].kind
        /\ jobs'[work[w].job].target = jobs[work[w].job].target
        BY <1>1 DEF RowsSafe, RowsKept
  <2> QED BY <2>1 DEF Reached, Frame, OnTo
<1>4. Needs(w, pc)'
      BY <1>2, <1>3 DEF Needs, Frame, OnTo
<1> QED BY <1>1, <1>2, <1>4 DEF StepSound, Frame, OnTo

LEMMA Move ==
    ASSUME IInv, RowsSafe, WorkType', EnvType', Frame, NEW w \in Workers, OthersKept(w),
           \/ work'[w] = Idle
           \/ work[w].pc # "idle" /\ \E pc \in Step : Needs(w, pc) /\ OnTo(w, pc)
    PROVE  IInv'
<1>1. TypeOK' /\ \A j \in Rows' : RowSound(j)'
      BY RowsStaySound DEF RowsSafe, TypeOK
<1>2. ASSUME work'[w] = Idle
      PROVE  StepSound(w)'
  <2>1. work'[w].pc = "idle" /\ work'[w].rev = 0 /\ work'[w].marker = NoMarker
        BY <1>2 DEF Idle
  <2>2. revision' \in Nat
        BY DEF IInv, TypeOK, EnvType, Frame
  <2>3. Sound(work[w].marker)'
        BY <2>1, <2>2 DEF NoMarker, Sound
  <2> QED BY <2>1, <2>2, <2>3 DEF StepSound, Needs
<1>3. StepSound(w)'
      BY <1>2, OnToStep
<1> QED BY <1>1, <1>3, WorkerMoves DEF RowsSafe

\* A step in which no worker moves.
LEMMA StaysPut ==
    ASSUME IInv, RowsSafe, EnvType', WorkType', Frame, UNCHANGED work
    PROVE  IInv'
<1>1. /\ TypeOK' /\ \A j \in Rows' : RowSound(j)'
      BY RowsStaySound DEF RowsSafe, TypeOK
<1>2. Generations' /\ AppliedNotAhead'
      BY DEF IInv, Frame, Generations, AppliedNotAhead
<1>3. ASSUME NEW w \in Workers
      PROVE  StepSound(w)'
  <2>1. StepSound(w) /\ work'[w] = work[w]
        BY DEF IInv
  <2>2. CASE work[w].pc = "idle"
        BY <2>1, <2>2 DEF StepSound, Needs, Sound, Frame
  <2>3. CASE work[w].pc # "idle"
    <3>1. /\ OnTo(w, work[w].pc) /\ Needs(w, work[w].pc) /\ work[w].pc \in Step
          BY <2>1 DEF OnTo, StepSound, IInv, TypeOK, WorkType, WorkRow
    <3> QED BY <2>3, <3>1, OnToStep
  <2> QED BY <2>2, <2>3
<1> QED BY <1>1, <1>2, <1>3 DEF IInv

\* The ways most actions end.
LEMMA Stops ==
    ASSUME IInv, RowsSafe, EnvType', Frame, NEW w \in Workers, Stop(w)
    PROVE  IInv'
<1>1. /\ WorkType /\ Len(jobs) \in Nat
      /\ Len(jobs') \in Nat /\ Len(jobs') >= Len(jobs)
      BY DEF IInv, TypeOK, JobsType, RowsSafe, RowsKept
<1>2. WorkType' /\ OthersKept(w) /\ work'[w] = Idle
      BY <1>1, StopStep
<1> QED BY <1>2, Move

LEMMA GoesOn ==
    ASSUME IInv, RowsSafe, EnvType', Frame, NEW w \in Workers, work[w].pc # "idle",
           NEW pc \in Step \ {"idle"}, Goto(w, pc), Needs(w, pc)
    PROVE  IInv'
<1>1. /\ WorkType /\ Len(jobs) \in Nat
      /\ Len(jobs') \in Nat /\ Len(jobs') >= Len(jobs)
      BY DEF IInv, TypeOK, JobsType, RowsSafe, RowsKept
<1>2. WorkType' /\ OthersKept(w) /\ OnTo(w, pc)
      BY <1>1, GotoPc
<1> QED BY <1>2, Move

LEMMA Defers ==
    ASSUME IInv, EnvType', Frame, NEW w \in Workers, DeferJob(w)
    PROVE  IInv'
<1>1. RowsSafe /\ WorkType' /\ OthersKept(w) /\ work'[w] = Idle
      BY DeferStep DEF IInv, TypeOK
<1> QED BY <1>1, Move

LEMMA Fails ==
    ASSUME IInv, EnvType', Frame, NEW w \in Workers, work[w].pc # "idle", HandlerError(w)
    PROVE  IInv'
<1>1. /\ RowsSafe /\ WorkType' /\ OthersKept(w)
      /\ work'[w] = Idle \/ OnTo(w, "after")
      BY ErrorStep DEF IInv, TypeOK
<1>2. "after" \in Step /\ Needs(w, "after")
      BY DEF Step, Needs
<1> QED BY <1>1, <1>2, Move

\* A worker at a step holds a job, and the payload it has is one of the rows'.
LEMMA Busy ==
    ASSUME IInv, NEW w \in Workers
    PROVE  /\ work[w] \in WorkRow /\ StepSound(w)
           /\ work[w].pc # "idle" => work[w].job \in 1..Len(jobs)
           /\ Target(w) \in Apps \cup {None}
           /\ work[w].marker # NoMarker => Target(w) \in Apps
<1>1. work[w] \in WorkRow /\ StepSound(w) /\ Len(jobs) \in Nat
      /\ work[w].job \in 0..Len(jobs) /\ (work[w].pc = "idle" <=> work[w].job = 0)
      BY Lengths DEF IInv, TypeOK, WorkType
<1>2. work[w].pick \in Apps \cup {None} /\ work[w].marker \in Marker
      BY <1>1 DEF WorkRow
<1>3. work[w].marker # NoMarker => work[w].marker.app \in Apps
      BY <1>1 DEF StepSound, Sound
<1> QED BY <1>1, <1>2, <1>3 DEF Target, Marker

LEMMA ReleasedType ==
    ASSUME owner \in [Apps -> Nat], NEW S,
           \/ UNCHANGED owner
           \/ owner' = [a \in Apps |-> IF a \in S THEN 0 ELSE owner[a]]
    PROVE  owner' \in [Apps -> Nat]
OBVIOUS

\* One lemma for each action, or for actions that change the same things.
LEMMA SafeSteps ==
    ASSUME IInv, NEW w \in Workers,
           \/ Elect(w) \/ ClaimOwnership(w) \/ GetOwnership(w) \/ ShutGate(w)
           \/ WaitRolloutReady(w) \/ VerifyPrompt(w) \/ OpenGate(w) \/ ReleaseByOwner(w)
    PROVE  IInv'
<1> DEFINE a == Target(w)
<1> USE Busy
<1>0. EnvType /\ JobsType
      BY DEF IInv, TypeOK
<1>s. UNCHANGED jobs => RowsSafe
      BY <1>0, JobsStay
<1>1. CASE Elect(w)
  <2>1. EnvType' /\ Frame /\ work[w].pc # "idle"
        BY <1>0, <1>1 DEF Elect, EnvType, Frame, At, config, cluster, bounds
  <2>2. CASE HandlerError(w)
        BY <2>1, <2>2, Fails
  <2>3. CASE DeferJob(w)
        BY <2>1, <2>3, Defers
  <2>4. CASE UNCHANGED jobs /\ Goto(w, "list")
    <3>1. "list" \in Step \ {"idle"} /\ Needs(w, "list")
          BY DEF Step, Needs
    <3> QED BY <2>1, <2>4, <1>s, <3>1, GoesOn
  <2>5. CASE UNCHANGED jobs /\ Goto(w, "own") /\ work[w].marker # NoMarker
    <3>1. "own" \in Step \ {"idle"} /\ Needs(w, "own")
          BY <2>5 DEF Step, Needs
    <3> QED BY <2>1, <2>5, <1>s, <3>1, GoesOn
  <2> QED BY <1>1, <2>2, <2>3, <2>4, <2>5 DEF Elect
<1>2. CASE ClaimOwnership(w)
  <2>1. a \in Apps /\ work[w].pc # "idle" /\ work[w].job \in Nat
        BY <1>2 DEF ClaimOwnership, At, StepSound, Needs, WorkRow
  <2>2. EnvType' /\ Frame
        BY <1>0, <1>2, <2>1 DEF ClaimOwnership, EnvType, Frame, config, cluster, bounds
  <2>3. "readOwner" \in Step \ {"idle"} /\ Needs(w, "readOwner")
        BY <2>1 DEF Step, Needs
  <2>4. RowsSafe /\ Goto(w, "readOwner")
        BY <1>2, <1>s DEF ClaimOwnership
  <2> QED BY <2>1, <2>2, <2>3, <2>4, GoesOn
<1>3. CASE GetOwnership(w)
  <2>1. EnvType' /\ Frame /\ work[w].pc # "idle" /\ a \in Apps
        BY <1>0, <1>3 DEF GetOwnership, EnvType, Frame, At, config, cluster, bounds,
           StepSound, Needs
  <2>2. CASE HandlerError(w)
        BY <2>1, <2>2, Fails
  <2>3. CASE DeferJob(w)
        BY <2>1, <2>3, Defers
  <2>4. CASE UNCHANGED jobs /\ Goto(w, "mark") /\ work[w].marker = NoMarker
    <3>1. "mark" \in Step \ {"idle"} /\ Needs(w, "mark")
          BY <2>1, <2>4 DEF Step, Needs, Target
    <3> QED BY <2>1, <2>4, <1>s, <3>1, GoesOn
  <2>5. CASE UNCHANGED jobs /\ Goto(w, "shut") /\ work[w].marker # NoMarker
    <3>1. "shut" \in Step \ {"idle"} /\ Needs(w, "shut")
          BY <2>1, <2>5 DEF Step, Needs, Target
    <3> QED BY <2>1, <2>5, <1>s, <3>1, GoesOn
  <2>6. CASE UNCHANGED jobs /\ Goto(w, "wait") /\ work[w].marker.gen # 0
    <3>1. "wait" \in Step \ {"idle"} /\ Needs(w, "wait")
          BY <2>1, <2>6 DEF Step, Needs
    <3> QED BY <2>1, <2>6, <1>s, <3>1, GoesOn
  <2> QED BY <1>3, <2>2, <2>3, <2>4, <2>5, <2>6 DEF GetOwnership
<1>4. CASE ShutGate(w)
  <2>1. work[w].pc # "idle" /\ work[w].marker.app \in Apps /\ RowsSafe
        /\ Goto(w, "restart")
        BY <1>4, <1>s DEF ShutGate, At, StepSound, Needs
  <2>2. EnvType' /\ Frame
        BY <1>0, <1>4, <2>1 DEF ShutGate, EnvType, Frame, config, cluster, bounds
  <2>3. "restart" \in Step \ {"idle"} /\ Needs(w, "restart")
        BY <2>1 DEF Step, Needs
  <2> QED BY <2>1, <2>2, <2>3, GoesOn
<1>5. CASE WaitRolloutReady(w)
  <2>1. /\ EnvType' /\ Frame /\ work[w].pc # "idle" /\ RowsSafe
        /\ work[w].marker.gen # 0 /\ RolledOut(work[w].marker.app, work[w].marker.gen)
        BY <1>0, <1>5, <1>s DEF WaitRolloutReady, EnvType, Frame, At, config, cluster,
           bounds, StepSound, Needs
  <2>2. pod[work[w].marker.app].gen >= work[w].marker.gen
        BY <2>1 DEF RolledOut
  <2>3. {"stamp", "verify"} \subseteq Step \ {"idle"}
        /\ Needs(w, "stamp") /\ Needs(w, "verify")
        BY <2>1, <2>2 DEF Step, Needs
  <2>4. Goto(w, "stamp") \/ Goto(w, "verify")
        BY <1>5 DEF WaitRolloutReady
  <2> QED BY <2>1, <2>3, <2>4, GoesOn
<1>6. CASE VerifyPrompt(w)
  <2>1. EnvType' /\ Frame /\ work[w].pc # "idle" /\ work[w].marker.gen # 0
        BY <1>0, <1>6 DEF VerifyPrompt, EnvType, Frame, At, config, cluster, bounds,
           StepSound, Needs
  <2>2. CASE HandlerError(w)
        BY <2>1, <2>2, Fails
  <2>3. CASE UNCHANGED jobs /\ Goto(w, "open")
    <3>1. "open" \in Step \ {"idle"} /\ Needs(w, "open")
          BY <2>1 DEF Step, Needs
    <3> QED BY <2>1, <2>3, <1>s, <3>1, GoesOn
  <2> QED BY <1>6, <2>2, <2>3 DEF VerifyPrompt
<1>7. CASE OpenGate(w)
  <2>1. EnvType' /\ Frame /\ work[w].pc # "idle" /\ work[w].marker.gen # 0
        BY <1>0, <1>7 DEF OpenGate, EnvType, Frame, At, config, cluster, bounds,
           StepSound, Needs
  <2>2. CASE HandlerError(w)
        BY <2>1, <2>2, Fails
  <2>3. CASE UNCHANGED jobs /\ Goto(w, "clear")
    <3>1. "clear" \in Step \ {"idle"} /\ Needs(w, "clear")
          BY <2>1 DEF Step, Needs
    <3> QED BY <2>1, <2>3, <1>s, <3>1, GoesOn
  <2> QED BY <1>7, <2>2, <2>3 DEF OpenGate
<1>8. CASE ReleaseByOwner(w)
  <2>0. owner' \in [Apps -> Nat]
        BY <1>0, <1>8, ReleasedType, Zenon DEF ReleaseByOwner, EnvType
  <2>1. EnvType' /\ Frame /\ work[w].pc # "idle"
    <3>1. At(w, "loop") /\ UNCHANGED <<config, phase, applied, cluster, seen, bounds>>
          BY <1>8, Zenon DEF ReleaseByOwner
    <3> QED BY <1>0, <2>0, <3>1 DEF EnvType, Frame, At, config, cluster, bounds
  <2>2. CASE HandlerError(w)
        BY <2>1, <2>2, Fails
  <2>3. CASE UNCHANGED jobs /\ Goto(w, "elect")
    <3>1. "elect" \in Step \ {"idle"} /\ Needs(w, "elect")
          BY DEF Step, Needs
    <3> QED BY <2>1, <2>3, <1>s, <3>1, GoesOn
  <2> QED BY <1>8, <2>2, <2>3 DEF ReleaseByOwner
<1> QED BY <1>1, <1>2, <1>3, <1>4, <1>5, <1>6, <1>7, <1>8

\* Writing a marker to the row and to the copy of the worker that holds it.
LEMMA Persists ==
    ASSUME IInv, EnvType', Frame, NEW w \in Workers, work[w].pc # "idle",
           NEW m \in Marker, Sound(m), NEW row \in WorkRow,
           row.pc \in {"shut", "wait", "free"}, row.marker = m,
           row.job = work[w].job, row.rev = work[w].rev,
           row.pc = "shut" => m.app \in Apps, row.pc = "wait" => m.gen # 0,
           jobs' = [jobs EXCEPT ![work[w].job].marker = m],
           work' = [work EXCEPT ![w] = row]
    PROVE  IInv'
<1>0. /\ JobsType /\ WorkType /\ Len(jobs) \in Nat /\ Rows = 1..Len(jobs)
      /\ work[w].job \in 1..Len(jobs) /\ StepSound(w) /\ work[w] \in WorkRow
      BY Busy, Lengths DEF IInv, TypeOK
<1>1. /\ JobsType' /\ RowsKept /\ NoSuccess
      /\ \A i \in 1..Len(jobs) :
           jobs'[i].marker = IF i = work[w].job THEN m ELSE jobs[i].marker
      BY <1>0, EditMarker
<1>2. Len(jobs') \in Nat /\ Len(jobs') >= Len(jobs) /\ Rows' = 1..Len(jobs')
      BY <1>1 DEF JobsType, RowsKept, Rows
<1>3. WorkType' /\ OthersKept(w) /\ work'[w] = row
      BY <1>0, <1>2, GotoStep
<1>4. Sound(m)'
      BY DEF Sound, Frame
<1>5. StepSound(w)'
      BY <1>0, <1>3, <1>4 DEF StepSound, Needs, Frame
<1>6. ASSUME NEW j \in Rows'
      PROVE  RowSound(j)'
  <2>1. CASE j \in 1..Len(jobs)
    <3>1. /\ RowSound(j) /\ jobs'[j].kind = jobs[j].kind
          /\ jobs'[j].target = jobs[j].target
          /\ jobs'[j].marker = IF j = work[w].job THEN m ELSE jobs[j].marker
          /\ jobs'[j].status = "succeeded" => jobs[j].status = "succeeded"
          BY <1>0, <1>1, <2>1 DEF IInv, RowsKept, NoSuccess
    <3>2. Sound(jobs[j].marker)'
          BY <3>1 DEF RowSound, Sound, Frame
    <3> QED BY <3>1, <3>2 DEF RowSound, Reached, Frame
  <2>2. CASE j \notin 1..Len(jobs)
    <3>1. jobs'[j].kind = "prompt" /\ jobs'[j].marker = NoMarker
          BY <1>0, <1>1, <1>2, <2>2 DEF RowsKept
    <3>2. revision' \in Nat
          BY DEF IInv, TypeOK, EnvType, Frame
    <3> QED BY <3>1, <3>2 DEF RowSound, Sound, Reached, NoMarker
  <2> QED BY <2>1, <2>2
<1> QED BY <1>1, <1>3, <1>5, <1>6, WorkerMoves DEF TypeOK

LEMMA PersistSteps ==
    ASSUME IInv, NEW w \in Workers,
           PersistMarker(w) \/ PersistGeneration(w) \/ ClearMarker(w)
    PROVE  IInv'
<1>0. /\ JobsType /\ EnvType /\ StepSound(w) /\ work[w] \in WorkRow
      /\ work[w].marker \in Marker /\ revision \in Nat
      BY Busy DEF IInv, TypeOK, WorkRow, EnvType
<1>1. /\ EnvType' /\ Frame /\ work[w].pc # "idle"
      BY <1>0 DEF PersistMarker, PersistGeneration, ClearMarker, EnvType, Frame, At,
         config, cluster, bounds
<1>2. CASE UNCHANGED jobs /\ Stop(w)
      BY <1>0, <1>1, <1>2, JobsStay, Stops
<1>3. CASE PersistMarker(w) /\ Owns(w)
  <2> DEFINE m == [app |-> work[w].pick, gen |-> 0, rev |-> work[w].rev]
             row == [work[w] EXCEPT !.pc = "shut", !.marker = m]
  <2>1. work[w].pick \in Apps /\ work[w].rev <= revision
        BY <1>0, <1>3 DEF PersistMarker, At, StepSound, Needs
  <2>2. m \in Marker /\ Sound(m) /\ m.app \in Apps
        BY <1>0, <2>1 DEF Marker, Sound, WorkRow
  <2>3. /\ row \in WorkRow /\ row.pc = "shut" /\ row.marker = m
        /\ row.job = work[w].job /\ row.rev = work[w].rev
        BY <1>0, <2>2 DEF WorkRow, Step
  <2>4. /\ jobs' = [jobs EXCEPT ![work[w].job].marker = m]
        /\ work' = [work EXCEPT ![w] = row]
        BY <1>0, <1>3 DEF PersistMarker, PersistPayload, WorkRow
  <2> HIDE DEF m, row
  <2> QED BY <1>1, <2>2, <2>3, <2>4, Persists
<1>4. CASE PersistGeneration(w) /\ Owns(w)
  <2> DEFINE m == work[w].marker
             row == [work[w] EXCEPT !.pc = "wait", !.marker = m]
  <2>1. m \in Marker /\ Sound(m) /\ m.gen # 0
        BY <1>0, <1>4 DEF PersistGeneration, At, StepSound, Needs
  <2>2. /\ row \in WorkRow /\ row.pc = "wait" /\ row.marker = m
        /\ row.job = work[w].job /\ row.rev = work[w].rev
        BY <1>0 DEF WorkRow, Step
  <2>3. /\ jobs' = [jobs EXCEPT ![work[w].job].marker = m]
        /\ work' = [work EXCEPT ![w] = row]
        BY <1>0, <1>4 DEF PersistGeneration, PersistPayload, WorkRow
  <2> HIDE DEF m, row
  <2> QED BY <1>1, <2>1, <2>2, <2>3, Persists
<1>5. CASE ClearMarker(w) /\ Owns(w)
  <2> DEFINE row == [work[w] EXCEPT !.pc = "free", !.marker = NoMarker,
                                    !.pick = work[w].marker.app]
  <2>1. NoMarker \in Marker /\ Sound(NoMarker)
        BY <1>0 DEF NoMarker, Marker, Sound
  <2>2. /\ row \in WorkRow /\ row.pc = "free" /\ row.marker = NoMarker
        /\ row.job = work[w].job /\ row.rev = work[w].rev
        BY <1>0, <2>1 DEF WorkRow, Step, Marker
  <2>3. /\ jobs' = [jobs EXCEPT ![work[w].job].marker = NoMarker]
        /\ work' = [work EXCEPT ![w] = row]
        BY <1>0, <1>5 DEF ClearMarker, WorkRow
  <2> HIDE DEF row
  <2> QED BY <1>1, <2>1, <2>2, <2>3, Persists
<1> QED BY <1>2, <1>3, <1>4, <1>5
    DEF PersistMarker, PersistGeneration, ClearMarker, PersistPayload

\* The coordinator adds at most a prompt job.
LEMMA AppendRow ==
    ASSUME JobsType, NEW row \in JobRow, row.status = "pending", row.lease = None,
           row.marker = NoMarker, jobs' = Append(jobs, row)
    PROVE  /\ JobsType' /\ MarkersKept /\ NoSuccess
           /\ Len(jobs') = Len(jobs) + 1 /\ Len(jobs) \in Nat
           /\ \A i \in 1..Len(jobs) : jobs'[i] = jobs[i]
           /\ jobs'[Len(jobs) + 1] = row
<1>1. /\ jobs' \in Seq(JobRow) /\ Len(jobs') = Len(jobs) + 1 /\ Len(jobs) \in Nat
      /\ \A i \in 1..Len(jobs) : jobs'[i] = jobs[i]
      /\ jobs'[Len(jobs) + 1] = row
      BY AppendProperties DEF JobsType
<1>2. /\ DOMAIN jobs = 1..Len(jobs) /\ DOMAIN jobs' = 1..(Len(jobs) + 1)
      BY <1>1 DEF JobsType
<1>3. ASSUME NEW i \in 1..(Len(jobs) + 1)
      PROVE  jobs'[i].lease # None <=> jobs'[i].status = "running"
  <2>1. CASE i \in 1..Len(jobs)
        BY <1>1, <1>2, <2>1 DEF JobsType
  <2>2. CASE i = Len(jobs) + 1
        BY <1>1, <2>2
  <2> QED BY <1>1, <2>1, <2>2
<1> QED BY <1>1, <1>2, <1>3 DEF JobsType, MarkersKept, NoSuccess

LEMMA NewJobType ==
    ASSUME NEW kind \in Kind, NEW target \in Nat
    PROVE  /\ NewJob(kind, target) \in JobRow /\ NewJob(kind, target).status = "pending"
           /\ NewJob(kind, target).lease = None
           /\ NewJob(kind, target).marker = NoMarker
           /\ NewJob(kind, target).kind = kind /\ NewJob(kind, target).target = target
BY ConstantsAssumption DEF NewJob, JobRow, Status, Marker, NoMarker

LEMMA EnqueueSafe ==
    ASSUME IInv, NEW w \in Workers, NEW exclude, EnqueueIfNeeded(w, exclude)
    PROVE  RowsSafe
<1>0. JobsType /\ build[w] \in Nat
      BY DEF IInv, TypeOK, EnvType
<1>1. CASE UNCHANGED jobs
      BY <1>0, <1>1, JobsStay
<1>2. CASE jobs' = Append(jobs, NewJob("prompt", build[w]))
  <2> DEFINE row == NewJob("prompt", build[w])
  <2>1. /\ row \in JobRow /\ row.status = "pending" /\ row.lease = None
        /\ row.marker = NoMarker /\ row.kind = "prompt"
        BY <1>0, NewJobType DEF Kind
  <2> HIDE DEF row
  <2>2. /\ JobsType' /\ MarkersKept /\ NoSuccess
        /\ Len(jobs') = Len(jobs) + 1 /\ Len(jobs) \in Nat
        /\ \A i \in 1..Len(jobs) : jobs'[i] = jobs[i]
        /\ jobs'[Len(jobs) + 1] = row
        BY <1>0, <1>2, <2>1, AppendRow DEF row
  <2> QED BY <2>1, <2>2 DEF RowsSafe, RowsKept
<1> QED BY <1>1, <1>2 DEF EnqueueIfNeeded

LEMMA CoordinatorSteps ==
    ASSUME IInv, NEW w \in Workers, StartUp(w) \/ BeforeSuccess(w) \/ AfterFailure(w)
    PROVE  IInv'
<1>0. EnvType /\ JobsType /\ WorkType
      BY DEF IInv, TypeOK
<1>1. CASE StartUp(w)
  <2>1. EnvType' /\ Frame
        BY <1>0, <1>1 DEF StartUp, EnvType, Frame, config, cluster, bounds
  <2>2. RowsSafe
        BY <1>1, EnqueueSafe DEF StartUp
  <2>3. UNCHANGED work
        BY <1>1 DEF StartUp
  <2>4. WorkType'
        BY <1>0, <2>2, <2>3 DEF WorkType, RowsSafe, RowsKept, JobsType
  <2> QED BY <2>1, <2>2, <2>3, <2>4, StaysPut
<1>2. CASE BeforeSuccess(w)
  <2>1. EnvType' /\ Frame /\ At(w, "before") /\ Goto(w, "finish") /\ RowsSafe
        BY <1>0, <1>2, EnqueueSafe DEF BeforeSuccess, EnvType, Frame, config, cluster,
           bounds
  <2>2. work[w].pc # "idle" /\ "finish" \in Step \ {"idle"}
        BY <2>1 DEF At, Step
  <2>3. Needs(w, "finish")
        BY <2>1, Busy DEF At, StepSound, Needs
  <2> QED BY <2>1, <2>2, <2>3, GoesOn
<1>3. CASE AfterFailure(w)
  <2>1. RowsSafe
    <3>1. CASE EnqueueIfNeeded(w, 0)
          BY <3>1, EnqueueSafe
    <3>2. CASE UNCHANGED jobs
          BY <1>0, <3>2, JobsStay
    <3> QED BY <1>3, <3>1, <3>2 DEF AfterFailure
  <2>2. EnvType' /\ Frame /\ Stop(w)
    <3>1. faults' \in 0..MaxFaults
          BY <1>0, <1>3, ConstantsAssumption DEF AfterFailure, EnvType, Faulty
    <3> QED BY <1>0, <1>3, <3>1 DEF AfterFailure, EnvType, Frame, config, cluster
  <2> QED BY <2>1, <2>2, Stops
<1> QED BY <1>1, <1>2, <1>3

\* The steps of the runtime.
LEMMA ClaimSteps ==
    ASSUME IInv, NEW w \in Workers,
           MarkJobRunning(w) \/ \E j \in Rows : GetJob(w, j)
    PROVE  IInv'
<1>0. /\ EnvType /\ JobsType /\ WorkType /\ work[w] \in WorkRow /\ StepSound(w)
      /\ Len(jobs) \in Nat /\ Rows = 1..Len(jobs)
      /\ \A j \in Rows : jobs[j] \in JobRow /\ RowSound(j)
      /\ MaxAttempts \in Nat \ {0}
      BY Busy, Lengths, ConstantsAssumption DEF IInv, TypeOK
<1>1. CASE \E j \in Rows : GetJob(w, j)
  <2>1. PICK j \in Rows : GetJob(w, j)
        BY <1>1
  <2> DEFINE row == [pc |-> "claim", job |-> j, pick |-> None, rev |-> 0,
                     attempts |-> jobs[j].attempts, marker |-> jobs[j].marker]
  <2>2. /\ work' = [work EXCEPT ![w] = row] /\ work[w].pc = "idle"
        /\ EnvType' /\ Frame /\ UNCHANGED jobs
    <3>2. /\ work' = [work EXCEPT ![w] = row] /\ work[w].pc = "idle"
          /\ UNCHANGED <<config, jobs, owner, phase, applied, cluster, seen, bounds>>
          BY <2>1, Zenon DEF GetJob, At
    <3> HIDE DEF row
    <3> QED BY <1>0, <3>2 DEF EnvType, Frame, config, cluster, bounds
  <2>3. /\ row \in WorkRow /\ row.pc = "claim" /\ row.rev = 0 /\ row.job = j
        /\ row.marker = jobs[j].marker
        BY <1>0 DEF WorkRow, JobRow, Step
  <2> HIDE DEF row
  <2>4. WorkType' /\ OthersKept(w) /\ work'[w] = row
        BY <1>0, <2>2, <2>3 DEF WorkType, OthersKept
  <2>5. RowsSafe
        BY <1>0, <2>2, JobsStay
  <2>6. StepSound(w)'
    <3>1. Sound(work[w].marker)'
          BY <1>0, <2>2, <2>3, <2>4 DEF RowSound, Sound, Frame
    <3>2. revision' \in Nat
          BY <2>2 DEF EnvType
    <3> QED BY <2>3, <2>4, <3>1, <3>2 DEF StepSound, Needs
  <2> QED BY <2>2, <2>4, <2>5, <2>6, RowsStaySound, WorkerMoves DEF RowsSafe, TypeOK
<1>2. CASE MarkJobRunning(w)
  <2> DEFINE j == work[w].job
  <2>1. work[w].pc = "claim" /\ j \in 1..Len(jobs) /\ jobs[j] \in JobRow
        BY <1>0, <1>2, Busy DEF MarkJobRunning, At
  <2>2. EnvType' /\ Frame
    <3>1. faults' \in 0..MaxFaults /\ raced' \in BOOLEAN
      <4>1. UNCHANGED bounds \/ (Faulty /\ raced' = TRUE)
        <5>1. CASE jobs[j].marker = work[w].marker /\ jobs[j].attempts = work[w].attempts
              BY <1>2, <5>1 DEF MarkJobRunning
        <5>2. CASE ~(jobs[j].marker = work[w].marker /\ jobs[j].attempts = work[w].attempts)
              BY <1>2, <5>2 DEF MarkJobRunning
        <5> QED BY <5>1, <5>2
      <4>2. UNCHANGED faults \/ (faults < MaxFaults /\ faults' = faults + 1)
            BY <4>1 DEF Faulty, bounds
      <4>3. UNCHANGED raced \/ raced' = TRUE
            BY <4>1 DEF bounds
      <4>4. MaxFaults \in Nat /\ faults \in 0..MaxFaults /\ raced \in BOOLEAN
            BY <1>0, ConstantsAssumption DEF EnvType
      <4>5. faults' \in 0..MaxFaults
            BY <4>2, <4>4
      <4>6. raced' \in BOOLEAN
            BY <4>3, <4>4, Zenon
      <4> QED BY <4>5, <4>6
    <3> QED BY <1>0, <1>2, <3>1 DEF MarkJobRunning, EnvType, Frame, config, cluster
  <2>3. CASE UNCHANGED jobs /\ Stop(w)
        BY <1>0, <2>2, <2>3, JobsStay, Stops
  <2>4. CASE jobs[j].status = "pending" /\ jobs[j].attempts < MaxAttempts
    <3> DEFINE n == jobs[j].attempts + 1
               row == [jobs[j] EXCEPT !.status = "running", !.lease = w, !.attempts = n]
               mine == [work[w] EXCEPT !.pc = "loop", !.attempts = work[w].attempts + 1]
    <3>a. n \in 0..MaxAttempts /\ work[w].attempts + 1 \in Nat
          BY <1>0, <2>1, <2>4 DEF JobRow, WorkRow
    <3>1. /\ jobs' = [jobs EXCEPT ![j] = row]
          /\ work' = [work EXCEPT ![w] = mine]
      <4>1. /\ jobs' = [jobs EXCEPT ![j].status = "running", ![j].lease = w,
                                    ![j].attempts = @ + 1]
            /\ work' = [work EXCEPT ![w].pc = "loop", ![w].attempts = @ + 1]
            BY <1>2, <2>4, Zenon DEF MarkJobRunning
      <4>2. jobs[j].attempts + 1 = row.attempts /\ jobs[j] \in JobRow /\ work[w] \in WorkRow
            BY <1>0, <2>1 DEF JobRow
      <4>3. jobs' = [jobs EXCEPT ![j] = row]
            BY <4>1, <4>2 DEF JobRow
      <4>4. work' = [work EXCEPT ![w] = mine]
            BY <4>1, <4>2 DEF WorkRow
      <4> QED BY <4>3, <4>4
    <3>2. /\ row \in JobRow /\ row.kind = jobs[j].kind /\ row.target = jobs[j].target
          /\ row.marker = jobs[j].marker /\ row.status = "running" /\ row.lease = w
          BY <2>1, <3>a DEF JobRow, Status
    <3>3. /\ mine \in WorkRow /\ mine.pc = "loop" /\ mine.job = work[w].job
          /\ mine.marker = work[w].marker /\ mine.pick = work[w].pick
          /\ mine.rev = work[w].rev
          BY <1>0, <3>a DEF WorkRow, Step
    <3>4. w # None
          BY ConstantsAssumption
    <3> HIDE DEF row, mine, j
    <3>5. RowsSafe
          BY <1>0, <2>1, <3>1, <3>2, <3>4, EditState
    <3>6. Len(jobs') \in Nat /\ Len(jobs') >= Len(jobs)
          BY <3>5 DEF RowsSafe, JobsType, RowsKept
    <3>7. WorkType' /\ OthersKept(w) /\ work'[w] = mine
          BY <1>0, <2>1, <3>1, <3>3, <3>6, GotoStep
    <3>8. OnTo(w, "loop") /\ Needs(w, "loop") /\ "loop" \in Step
          BY <3>3, <3>7 DEF OnTo, Needs, Step
    <3> QED BY <2>1, <2>2, <3>5, <3>7, <3>8, Move
  <2> QED BY <1>2, <2>3, <2>4 DEF MarkJobRunning
<1> QED BY <1>1, <1>2

LEMMA FaultType ==
    ASSUME EnvType, Faulty
    PROVE  faults' \in 0..MaxFaults
BY ConstantsAssumption DEF EnvType, Faulty

LEMMA EndSteps ==
    ASSUME IInv, NEW w \in Workers,
           Fault(w) \/ Crash(w) \/ Upgrade(w) \/ LeaseLost(w)
    PROVE  IInv'
<1>0. EnvType /\ JobsType /\ WorkType
      BY DEF IInv, TypeOK
<1>s. UNCHANGED jobs => RowsSafe
      BY <1>0, JobsStay
<1>1. CASE Fault(w)
  <2>1. faults' \in 0..MaxFaults /\ work[w].pc # "idle"
        /\ UNCHANGED <<config, owner, phase, applied, cluster, seen, raced>>
        BY <1>0, <1>1, FaultType DEF Fault
  <2>2. EnvType' /\ Frame
        BY <1>0, <2>1 DEF EnvType, Frame, config, cluster
  <2>3. HandlerError(w) \/ (UNCHANGED jobs /\ Stop(w))
        BY <1>1 DEF Fault
  <2> QED BY <1>s, <2>1, <2>2, <2>3, Fails, Stops
<1>2. CASE Crash(w)
  <2>1. faults' \in 0..MaxFaults
        BY <1>0, <1>2, FaultType DEF Crash
  <2>2. EnvType' /\ Frame /\ UNCHANGED jobs /\ Stop(w)
        BY <1>0, <1>2, <2>1 DEF Crash, Restart, EnvType, Frame, config, cluster
  <2> QED BY <1>s, <2>2, Stops
<1>3. CASE Upgrade(w)
  <2>1. EnvType' /\ Frame /\ UNCHANGED jobs /\ Stop(w)
        BY <1>0, <1>3 DEF Upgrade, Restart, EnvType, Frame, config, cluster
  <2> QED BY <1>s, <2>1, Stops
<1>4. CASE LeaseLost(w)
  <2>1. EnvType' /\ Frame /\ UNCHANGED jobs /\ Stop(w)
        BY <1>0, <1>4 DEF LeaseLost, EnvType, Frame, config, cluster, bounds
  <2> QED BY <1>s, <2>1, Stops
<1> QED BY <1>1, <1>2, <1>3, <1>4

\* The recovery moves no worker.
LEMMA RecoverStep ==
    ASSUME IInv, NEW j \in Rows, Recover(j)
    PROVE  IInv'
<1>0. /\ EnvType /\ JobsType /\ WorkType /\ Len(jobs) \in Nat /\ Rows = 1..Len(jobs)
      /\ jobs[j] \in JobRow
      BY Lengths DEF IInv, TypeOK
<1> DEFINE s == IF jobs[j].attempts >= MaxAttempts THEN "failed" ELSE "pending"
           row == [jobs[j] EXCEPT !.lease = None, !.status = s]
<1>1. jobs' = [jobs EXCEPT ![j] = row]
      BY <1>0 DEF Recover, JobRow
<1>2. /\ row \in JobRow /\ row.kind = jobs[j].kind /\ row.target = jobs[j].target
      /\ row.marker = jobs[j].marker /\ row.status \in {"failed", "pending"}
      /\ row.lease = None
      BY <1>0 DEF JobRow, Status
<1> HIDE DEF row
<1>3. RowsSafe
      BY <1>0, <1>1, <1>2, EditState
<1>4. EnvType' /\ Frame /\ UNCHANGED work
  <2>1. UNCHANGED bounds \/ (Faulty /\ raced' = TRUE)
        BY Zenon DEF Recover
  <2>2. faults' \in 0..MaxFaults
        BY <1>0, <2>1, FaultType DEF EnvType, bounds
  <2>3. raced' \in BOOLEAN
    <3>1. UNCHANGED raced \/ raced' = TRUE
          BY <2>1 DEF bounds
    <3> QED BY <1>0, <3>1, Zenon DEF EnvType
  <2> QED BY <1>0, <2>2, <2>3 DEF Recover, EnvType, Frame, config, cluster
<1>5. WorkType'
      BY <1>0, <1>3, <1>4 DEF WorkType, RowsSafe, RowsKept, JobsType
<1> QED BY <1>3, <1>4, <1>5, StaysPut

LEMMA ListStep ==
    ASSUME IInv, NEW w \in Workers, ListPending(w)
    PROVE  IInv'
<1>0. /\ EnvType /\ JobsType /\ WorkType /\ work[w] \in WorkRow /\ StepSound(w)
      /\ work[w].pc = "list" /\ work[w].job \in 1..Len(jobs)
      /\ Len(jobs) \in Nat /\ Rows = 1..Len(jobs) /\ RowSound(work[w].job)
      /\ jobs[work[w].job] \in JobRow
      BY Busy, Lengths DEF IInv, TypeOK, ListPending, At
<1>1. EnvType' /\ Frame /\ UNCHANGED jobs
      BY <1>0 DEF ListPending, EnvType, Frame, config, cluster, bounds
<1>2. RowsSafe
      BY <1>0, <1>1, JobsStay
<1> DEFINE behind == Behind(work[w].job)
<1>3. CASE behind = {}
  <2>1. Reached(work[w].job)
    <3>1. CASE jobs[work[w].job].kind = "model"
      <4>1. \A a \in Apps : ~(applied[a] < revision)
            BY <1>3, <3>1 DEF Behind
      <4>2. jobs[work[w].job].target <= revision /\ jobs[work[w].job].target \in Nat
            BY <1>0, <3>1 DEF RowSound, JobRow
      <4>3. revision \in Nat /\ \A a \in Apps : applied[a] \in Nat
            BY <1>0 DEF EnvType
      <4> QED BY <4>1, <4>2, <4>3 DEF Reached
    <3> QED BY <3>1 DEF Reached
  <2>2. /\ Needs(w, "before") /\ Needs(w, "finish")
        /\ {"before", "finish"} \subseteq Step \ {"idle"}
        BY <2>1 DEF Needs, Step
  <2>3. Goto(w, "before") \/ Goto(w, "finish")
        BY <1>3 DEF ListPending
  <2> QED BY <1>0, <1>1, <1>2, <2>2, <2>3, GoesOn
<1>4. CASE behind # {}
  <2>1. PICK a \in behind :
          work' = [work EXCEPT ![w].pc = "own", ![w].pick = a, ![w].rev = revision]
        BY <1>4 DEF ListPending
  <2> DEFINE row == [work[w] EXCEPT !.pc = "own", !.pick = a, !.rev = revision]
  <2>2. a \in Apps /\ revision \in Nat
        BY <1>0 DEF Behind, EnvType
  <2>3. work' = [work EXCEPT ![w] = row]
        BY <1>0, <2>1 DEF WorkRow
  <2>4. /\ row \in WorkRow /\ row.pc = "own" /\ row.pick = a /\ row.rev = revision
        /\ row.job = work[w].job /\ row.marker = work[w].marker
        BY <1>0, <2>2 DEF WorkRow, Step
  <2> HIDE DEF row, behind
  <2>5. WorkType' /\ OthersKept(w) /\ work'[w] = row
    <3>1. Len(jobs') \in Nat /\ Len(jobs') >= Len(jobs)
          BY <1>0, <1>1
    <3>2. row.pc # "idle" /\ work[w].pc # "idle"
          BY <1>0, <2>4
    <3> QED BY <1>0, <2>3, <2>4, <3>1, <3>2, GotoStep
  <2>6. StepSound(w)'
    <3>1. Sound(work[w].marker)'
          BY <1>0, <1>1, <2>4, <2>5 DEF StepSound, Sound, Frame
    <3>2. Target(w)' \in Apps
          BY <1>0, <2>2, <2>4, <2>5 DEF Target, StepSound, Sound
    <3> QED BY <1>1, <2>2, <2>4, <2>5, <3>1, <3>2 DEF StepSound, Needs, Frame
  <2> QED BY <1>1, <1>2, <2>5, <2>6, RowsStaySound, WorkerMoves DEF RowsSafe, TypeOK
<1> QED BY <1>3, <1>4

LEMMA ReleaseStep ==
    ASSUME IInv, NEW w \in Workers, ReleaseOwnership(w)
    PROVE  IInv'
<1>0. /\ EnvType /\ JobsType /\ WorkType /\ work[w] \in WorkRow /\ StepSound(w)
      /\ work[w].pc = "free" /\ work[w].job \in Nat /\ Len(jobs) \in Nat
      BY Busy, Lengths DEF IInv, TypeOK, ReleaseOwnership, At, WorkRow
<1> DEFINE row == [work[w] EXCEPT !.pc = "loop", !.pick = None, !.rev = 0]
<1>1. EnvType' /\ Frame /\ UNCHANGED jobs
      BY <1>0 DEF ReleaseOwnership, EnvType, Frame, config, cluster, bounds
<1>2. RowsSafe
      BY <1>0, <1>1, JobsStay
<1>3. work' = [work EXCEPT ![w] = row]
      BY <1>0 DEF ReleaseOwnership, WorkRow
<1>4. /\ row \in WorkRow /\ row.pc = "loop" /\ row.rev = 0
      /\ row.job = work[w].job /\ row.marker = work[w].marker
      BY <1>0 DEF WorkRow, Step
<1> HIDE DEF row
<1>5. WorkType' /\ OthersKept(w) /\ work'[w] = row
  <2>1. Len(jobs') \in Nat /\ Len(jobs') >= Len(jobs)
        BY <1>0, <1>1
  <2>2. row.pc # "idle" /\ work[w].pc # "idle"
        BY <1>0, <1>4
  <2> QED BY <1>0, <1>3, <1>4, <2>1, <2>2, GotoStep
<1>6. StepSound(w)'
  <2>1. Sound(work[w].marker)'
        BY <1>0, <1>1, <1>4, <1>5 DEF StepSound, Sound, Frame
  <2>2. revision' \in Nat
        BY <1>1 DEF EnvType
  <2> QED BY <1>4, <1>5, <2>1, <2>2 DEF StepSound, Needs
<1> QED BY <1>1, <1>2, <1>5, <1>6, RowsStaySound, WorkerMoves DEF RowsSafe, TypeOK

\* The one step that makes a job succeed: its worker found no agent behind.
LEMMA SucceedStep ==
    ASSUME IInv, NEW w \in Workers, MarkJobSucceeded(w)
    PROVE  IInv'
<1> DEFINE j == work[w].job
<1>0. /\ EnvType /\ JobsType /\ WorkType /\ StepSound(w) /\ work[w].pc = "finish"
      /\ j \in 1..Len(jobs) /\ Len(jobs) \in Nat /\ Rows = 1..Len(jobs)
      /\ jobs[j] \in JobRow /\ Reached(j)
      BY Busy, Lengths DEF IInv, TypeOK, MarkJobSucceeded, At, StepSound, Needs
<1>1. EnvType' /\ Frame /\ Stop(w)
      BY <1>0 DEF MarkJobSucceeded, EnvType, Frame, config, cluster, bounds
<1>2. CASE ~Owns(w)
      BY <1>0, <1>1, <1>2, JobsStay, Stops DEF MarkJobSucceeded
<1>3. CASE Owns(w)
  <2> DEFINE row == [jobs[j] EXCEPT !.status = "succeeded", !.lease = None]
  <2>1. jobs' = [jobs EXCEPT ![j] = row]
        BY <1>0, <1>3 DEF MarkJobSucceeded, JobRow
  <2>2. /\ row \in JobRow /\ row.kind = jobs[j].kind /\ row.target = jobs[j].target
        /\ row.marker = jobs[j].marker /\ row.status = "succeeded" /\ row.lease = None
        BY <1>0 DEF JobRow, Status
  <2> HIDE DEF row, j
  <2>3. /\ JobsType' /\ RowsKept /\ Len(jobs') = Len(jobs)
        /\ \A i \in 1..Len(jobs) : jobs'[i] = IF i = j THEN row ELSE jobs[i]
        BY <1>0, <2>1, <2>2, EditRow
  <2>4. WorkType' /\ OthersKept(w) /\ work'[w] = Idle
        BY <1>0, <1>1, <2>3, StopStep
  <2>5. StepSound(w)'
    <3>1. work'[w].pc = "idle" /\ work'[w].rev = 0 /\ work'[w].marker = NoMarker
          BY <2>4 DEF Idle
    <3>2. revision' \in Nat
          BY <1>1 DEF EnvType
    <3>3. Sound(work[w].marker)'
          BY <3>1, <3>2 DEF NoMarker, Sound
    <3> QED BY <3>1, <3>2, <3>3 DEF StepSound, Needs
  <2>6. ASSUME NEW i \in Rows'
        PROVE  RowSound(i)'
    <3>1. i \in 1..Len(jobs) /\ RowSound(i)
          BY <1>0, <2>3 DEF JobsType, Rows, IInv
    <3>2. /\ jobs'[i].marker = jobs[i].marker /\ jobs'[i].kind = jobs[i].kind
          /\ jobs'[i].target = jobs[i].target
          /\ jobs'[i].status = "succeeded" => Reached(i)
          BY <1>0, <2>2, <2>3, <3>1 DEF RowSound
    <3>3. Sound(jobs[i].marker)'
          BY <1>1, <3>1, <3>2 DEF RowSound, Sound, Frame
    <3> QED BY <1>1, <3>1, <3>2, <3>3 DEF RowSound, Reached, Frame
  <2> QED BY <1>1, <2>3, <2>4, <2>5, <2>6, WorkerMoves DEF TypeOK
<1> QED BY <1>2, <1>3

\* The world only grows: what a marker promises stays true, pods are replaced by
\* newer ones, and applied revisions rise.
Grows ==
    /\ revision <= revision'
    /\ \A a \in Apps : applied[a] <= applied'[a] /\ pod[a].gen <= pod'[a].gen
    /\ \A m \in Marker : Sound(m) => Sound(m)'

LEMMA RowGrows ==
    ASSUME IInv, EnvType', Grows, NEW j \in 1..Len(jobs), jobs'[j] = jobs[j]
    PROVE  RowSound(j)'
<1>1. /\ RowSound(j) /\ jobs[j] \in JobRow /\ jobs[j].marker \in Marker
      /\ jobs[j].target \in Nat
      BY Lengths DEF IInv, TypeOK, JobRow
<1>2. Sound(jobs[j].marker)'
      BY <1>1 DEF RowSound, Grows
<1>3. /\ revision \in Nat /\ revision' \in Nat /\ revision <= revision'
      /\ \A a \in Apps : applied[a] \in Nat /\ applied'[a] \in Nat
                         /\ applied[a] <= applied'[a]
      BY DEF IInv, TypeOK, EnvType, Grows
<1>4. Reached(j) => Reached(j)'
      BY <1>1, <1>3 DEF Reached
<1> QED BY <1>1, <1>2, <1>3, <1>4 DEF RowSound

LEMMA StepGrows ==
    ASSUME IInv, EnvType', Grows, NEW w \in Workers, work'[w] = work[w],
           \A j \in 1..Len(jobs) : /\ jobs'[j].kind = jobs[j].kind
                                   /\ jobs'[j].target = jobs[j].target
    PROVE  StepSound(w)'
<1>1. /\ StepSound(w) /\ work[w] \in WorkRow /\ work[w].marker \in Marker
      /\ work[w].rev \in Nat
      /\ work[w].pc # "idle" => work[w].job \in 1..Len(jobs)
      BY Busy DEF WorkRow
<1>2. Sound(work[w].marker)' /\ Sound(work[w].marker)
      BY <1>1 DEF StepSound, Grows
<1>3. /\ revision \in Nat /\ revision' \in Nat /\ revision <= revision'
      /\ \A a \in Apps : applied[a] \in Nat /\ applied'[a] \in Nat
                         /\ applied[a] <= applied'[a]
      BY DEF IInv, TypeOK, EnvType, Grows
<1>4. \A a \in Apps : pod[a].gen \in Nat /\ pod'[a].gen \in Nat /\ pod[a].gen <= pod'[a].gen
      BY DEF IInv, TypeOK, EnvType, Grows
<1>5. work[w].pc \in {"before", "finish"} => Reached(work[w].job)'
  <2>1. CASE work[w].pc \in {"before", "finish"}
    <3>1. work[w].job \in 1..Len(jobs) /\ Reached(work[w].job)
          BY <1>1, <2>1 DEF StepSound, Needs
    <3>2. jobs[work[w].job] \in JobRow
          BY <3>1, Lengths DEF IInv, TypeOK
    <3>3. /\ jobs'[work[w].job].kind = jobs[work[w].job].kind
          /\ jobs'[work[w].job].target = jobs[work[w].job].target
          /\ jobs[work[w].job].target \in Nat
          BY <3>1, <3>2 DEF JobRow
    <3> QED BY <1>3, <3>1, <3>3 DEF Reached
  <2> QED BY <2>1
<1>6. work[w].pc = "stamp" => pod'[work[w].marker.app].gen >= work[w].marker.gen
  <2>1. CASE work[w].pc = "stamp"
    <3>1. /\ work[w].marker.gen # 0 /\ pod[work[w].marker.app].gen >= work[w].marker.gen
          BY <1>1, <2>1 DEF StepSound, Needs
    <3>2. work[w].marker.app \in Apps /\ work[w].marker.gen \in Nat
          BY <1>1, <1>2, <3>1 DEF Sound, NoMarker, Marker
    <3> QED BY <1>4, <3>1, <3>2
  <2> QED BY <2>1
<1>7. Needs(w, work[w].pc)'
      BY <1>1, <1>5, <1>6 DEF StepSound, Needs, Target
<1> QED BY <1>1, <1>2, <1>3, <1>7 DEF StepSound

LEMMA WorldStep ==
    ASSUME IInv, EnvType', Grows, Generations', AppliedNotAhead', UNCHANGED <<jobs, work>>
    PROVE  IInv'
<1>1. /\ JobsType /\ WorkType /\ Len(jobs) \in Nat /\ Rows = 1..Len(jobs)
      BY Lengths DEF IInv, TypeOK
<1>2. RowsSafe
      BY <1>1, JobsStay
<1>3. JobsType' /\ WorkType'
      BY <1>1, <1>2 DEF WorkType, RowsSafe
<1>4. \A j \in Rows' : RowSound(j)'
      BY <1>1, RowGrows DEF Rows
<1>5. \A w \in Workers : StepSound(w)'
      BY StepGrows
<1> QED BY <1>3, <1>4, <1>5 DEF IInv, TypeOK

LEMMA QuietStep ==
    ASSUME IInv, seen' \in [app : Apps \cup {None}, ready : BOOLEAN],
           phase' \in [Apps -> {"ready", "restarting"}],
           UNCHANGED <<config, jobs, owner, applied, cluster, work, bounds>>
    PROVE  IInv'
<1>1. EnvType' /\ Frame
      BY DEF IInv, TypeOK, EnvType, Frame, config, cluster, bounds
<1>2. RowsSafe /\ WorkType'
      BY JobsStay DEF IInv, TypeOK, WorkType
<1> QED BY <1>1, <1>2, StaysPut

\* The pods, the reconciler and the owner of the configuration.
LEMMA ClusterSteps ==
    ASSUME IInv, NEW a \in Apps, Bootstrap(a) \/ BecomeAvailable(a) \/ Observe(a)
    PROVE  IInv'
<1>0. /\ EnvType /\ Generations /\ AppliedNotAhead
      /\ revision \in Nat /\ \A b \in Apps : /\ spec[b] \in Nat /\ applied[b] \in Nat
                                            /\ boot[b] \in [gen : Nat, rev : Nat]
                                            /\ pod[b] \in [gen : Nat, rev : Nat]
      BY DEF IInv, TypeOK, EnvType
<1>1. CASE Bootstrap(a)
  <2> DEFINE new == [gen |-> spec[a], rev |-> revision]
  <2>1. /\ boot' = [boot EXCEPT ![a] = new] /\ new.gen = spec[a] /\ new.rev = revision
        /\ new \in [gen : Nat, rev : Nat] /\ boot[a].gen < spec[a]
        /\ UNCHANGED <<config, jobs, owner, phase, applied, spec, pod, work, seen, raced>>
        BY <1>0, <1>1 DEF Bootstrap
  <2>2. faults' \in 0..MaxFaults
        BY <1>0, <1>1, FaultType DEF Bootstrap, EnvType
  <2>3. prompt' \in [Apps -> Nat]
        BY <1>0, <1>1 DEF Bootstrap, EnvType
  <2> HIDE DEF new
  <2>4. boot' \in [Apps -> [gen : Nat, rev : Nat]]
        BY <1>0, <2>1 DEF EnvType
  <2>5. EnvType'
        BY <1>0, <2>1, <2>2, <2>3, <2>4 DEF EnvType, config
  <2>6. \A b \in Apps : boot'[b] = IF b = a THEN new ELSE boot[b]
        BY <1>0, <2>1 DEF EnvType
  <2>7. Generations' /\ AppliedNotAhead'
        BY <1>0, <2>1, <2>6 DEF Generations, AppliedNotAhead, config
  <2>8. ASSUME NEW m \in Marker, Sound(m)
        PROVE  Sound(m)'
    <3>1. /\ m.gen \in Nat /\ m.rev \in Nat /\ m.rev <= revision
          /\ m # NoMarker => m.app \in Apps
          /\ m.gen # 0 => m # NoMarker
          BY <2>8 DEF Marker, Sound, NoMarker
    <3> QED BY <1>0, <2>1, <2>6, <2>8, <3>1 DEF Sound, config
  <2>9. Grows
        BY <1>0, <2>1, <2>8 DEF Grows, config
  <2> QED BY <2>1, <2>5, <2>7, <2>9, WorldStep
<1>2. CASE BecomeAvailable(a)
  <2>1. /\ pod' = [pod EXCEPT ![a] = boot[a]] /\ pod[a].gen < boot[a].gen
        /\ UNCHANGED <<config, jobs, owner, phase, applied, spec, boot, prompt, work,
                      seen, bounds>>
        BY <1>2 DEF BecomeAvailable
  <2>2. EnvType'
        BY <1>0, <2>1 DEF EnvType, config, bounds
  <2>3. \A b \in Apps : pod'[b] = IF b = a THEN boot[a] ELSE pod[b]
        BY <1>0, <2>1 DEF EnvType
  <2>4. Generations' /\ AppliedNotAhead'
        BY <1>0, <2>1, <2>3 DEF Generations, AppliedNotAhead, config
  <2>5. ASSUME NEW m \in Marker, Sound(m)
        PROVE  Sound(m)'
        BY <2>1, <2>3, <2>5 DEF Sound, config
  <2>6. Grows
        BY <1>0, <2>1, <2>3, <2>5 DEF Grows, config
  <2> QED BY <2>1, <2>2, <2>4, <2>6, WorldStep
<1>3. CASE Observe(a)
  <2>1. UNCHANGED <<config, jobs, owner, phase, applied, cluster, work, bounds>>
        BY <1>3 DEF Observe
  <2>2. phase' \in [Apps -> {"ready", "restarting"}]
        BY <1>0, <2>1 DEF EnvType
  <2>3. seen' \in [app : Apps \cup {None}, ready : BOOLEAN]
    <3>1. PICK ready \in BOOLEAN : seen' = [app |-> a, ready |-> ready]
          BY <1>3, Zenon DEF Observe
    <3> QED BY <3>1
  <2> QED BY <2>1, <2>2, <2>3, QuietStep
<1> QED BY <1>1, <1>2, <1>3

LEMMA WritePhaseStep ==
    ASSUME IInv, WritePhase
    PROVE  IInv'
<1>1. EnvType
      BY DEF IInv, TypeOK
<1>2. seen' \in [app : Apps \cup {None}, ready : BOOLEAN]
      BY DEF WritePhase
<1>3. phase' \in [Apps -> {"ready", "restarting"}]
  <2>1. seen.app \in Apps
        BY <1>1 DEF WritePhase, EnvType
  <2> QED BY <1>1, <2>1 DEF WritePhase, EnvType
<1>4. UNCHANGED <<config, jobs, owner, applied, cluster, work, bounds>>
      BY DEF WritePhase
<1> QED BY <1>1, <1>2, <1>3, <1>4, QuietStep

\* A restart makes a new generation: no pod has it yet, so the marker promises
\* nothing that does not hold.
LEMMA RestartStep ==
    ASSUME IInv, NEW w \in Workers, RolloutRestart(w)
    PROVE  IInv'
<1> DEFINE a == work[w].marker.app
           m == [work[w].marker EXCEPT !.gen = spec[a] + 1]
           row == [work[w] EXCEPT !.pc = "record", !.marker = m]
<1>0. /\ EnvType /\ JobsType /\ WorkType /\ Generations /\ AppliedNotAhead
      /\ work[w] \in WorkRow /\ StepSound(w) /\ work[w].pc = "restart" /\ a \in Apps
      /\ work[w].job \in 1..Len(jobs) /\ Len(jobs) \in Nat /\ Rows = 1..Len(jobs)
      BY Busy, Lengths DEF IInv, TypeOK, RolloutRestart, At, StepSound, Needs
<1>1. /\ spec[a] \in Nat /\ boot[a].gen \in Nat /\ pod[a].gen \in Nat /\ None \notin Apps
      /\ pod[a].gen <= boot[a].gen /\ boot[a].gen <= spec[a]
      BY <1>0, ConstantsAssumption DEF EnvType, Generations
<1>2. /\ spec' = [spec EXCEPT ![a] = @ + 1]
      /\ UNCHANGED <<config, jobs, owner, phase, applied, boot, pod, prompt, seen, bounds>>
      BY DEF RolloutRestart
<1>3. work' = [work EXCEPT ![w] = row]
      BY <1>0 DEF RolloutRestart, WorkRow, Marker
<1>4. /\ m \in Marker /\ m.app = a /\ m.gen = spec[a] + 1 /\ m.rev = work[w].marker.rev
      BY <1>0, <1>1 DEF WorkRow, Marker
<1>5. /\ row \in WorkRow /\ row.pc = "record" /\ row.marker = m
      /\ row.job = work[w].job /\ row.rev = work[w].rev
      BY <1>0, <1>4 DEF WorkRow, Step
<1> HIDE DEF row, m
<1>6. EnvType'
  <2>1. spec' \in [Apps -> Nat]
    <3>1. spec \in [Apps -> Nat]
          BY <1>0 DEF EnvType
    <3>3. a \in Apps
          BY <1>0
    <3>4. spec[a] + 1 \in Nat
          BY <1>1
    <3>2. spec' = [spec EXCEPT ![a] = spec[a] + 1]
          BY <1>2
    <3> HIDE DEF a
    <3> QED BY <3>1, <3>2, <3>3, <3>4
  <2> QED BY <1>0, <1>2, <2>1 DEF EnvType, config, bounds
<1>7. Grows
  <2>1. \A n \in Marker : Sound(n) => Sound(n)'
        BY <1>2 DEF Sound, config
  <2>2. revision \in Nat /\ \A b \in Apps : applied[b] \in Nat /\ pod[b].gen \in Nat
        BY <1>0 DEF EnvType
  <2> QED BY <1>2, <2>1, <2>2 DEF Grows, config
<1>8. Generations' /\ AppliedNotAhead'
  <2>1. \A b \in Apps : /\ spec'[b] = IF b = a THEN spec[b] + 1 ELSE spec[b]
                        /\ spec[b] \in Nat /\ boot[b].gen \in Nat
        BY <1>0, <1>2 DEF EnvType
  <2> QED BY <1>0, <1>2, <2>1 DEF Generations, AppliedNotAhead, config
<1>9. WorkType' /\ OthersKept(w) /\ work'[w] = row
  <2>1. Len(jobs') \in Nat /\ Len(jobs') >= Len(jobs)
        BY <1>0, <1>2
  <2>2. row.pc # "idle" /\ work[w].pc # "idle"
        BY <1>0, <1>5
  <2> QED BY <1>0, <1>3, <1>5, <2>1, <2>2, GotoStep
<1>10. StepSound(w)'
  <2>1. m.rev <= revision /\ work[w].rev <= revision
        BY <1>0, <1>4 DEF StepSound, Sound
  <2>2. PICK n \in Marker : n = m
        BY <1>4
  <2>3. n.app = a /\ n.rev <= revision /\ boot[a].gen < n.gen /\ pod[a].gen < n.gen
        BY <1>1, <1>4, <2>1, <2>2
  <2>4. Sound(n)'
    <3>1. /\ revision' = revision /\ boot' = boot /\ pod' = pod
          /\ ~(boot[a].gen >= n.gen) /\ ~(pod[a].gen >= n.gen) /\ a \in Apps
      <4>1. n.gen \in Nat /\ boot[a].gen \in Nat /\ pod[a].gen \in Nat
            BY <1>1 DEF Marker
      <4> QED BY <1>0, <1>2, <2>3, <4>1 DEF config
    <3> HIDE DEF a
    <3> QED BY <2>3, <3>1 DEF Sound
  <2>5. work'[w].marker = n /\ work'[w].marker.gen # 0 /\ work'[w].pc = "record"
        /\ work'[w].rev <= revision'
        BY <1>1, <1>2, <1>4, <1>5, <1>9, <2>1, <2>2 DEF config
  <2> HIDE DEF a
  <2> QED BY <2>4, <2>5 DEF StepSound, Needs
<1>11. \A v \in Workers : StepSound(v)'
      BY <1>2, <1>6, <1>7, <1>9, <1>10, StepGrows DEF OthersKept
<1>12. JobsType' /\ \A j \in Rows' : RowSound(j)'
      BY <1>0, <1>2, <1>6, <1>7, RowGrows, JobsStay DEF Rows, RowsSafe
<1> QED BY <1>6, <1>8, <1>9, <1>11, <1>12 DEF IInv, TypeOK

\* The stamp: the pods of the marked generation, or of a later one, are there.
LEMMA StampStep ==
    ASSUME IInv, NEW w \in Workers, StampRevision(w)
    PROVE  IInv'
<1> DEFINE m == work[w].marker
           new == IF applied[m.app] < m.rev THEN m.rev ELSE applied[m.app]
<1>0. /\ EnvType /\ JobsType /\ WorkType /\ Generations /\ AppliedNotAhead
      /\ work[w] \in WorkRow /\ StepSound(w) /\ work[w].pc = "stamp"
      /\ work[w].job \in 1..Len(jobs) /\ Len(jobs) \in Nat /\ Rows = 1..Len(jobs)
      BY Busy, Lengths DEF IInv, TypeOK, StampRevision, At
<1>1. /\ m \in Marker /\ m.gen # 0 /\ pod[m.app].gen >= m.gen /\ Sound(m)
      BY <1>0 DEF StepSound, Needs, WorkRow
<1>2. m.app \in Apps /\ pod[m.app].rev >= m.rev
      BY <1>1 DEF Sound, NoMarker
<1>3. /\ applied' = [applied EXCEPT ![m.app] = new] /\ Goto(w, "open")
      /\ UNCHANGED <<config, jobs, owner, phase, cluster, seen, bounds>>
      BY DEF StampRevision
<1>4. /\ applied[m.app] \in Nat /\ m.rev \in Nat /\ applied[m.app] <= pod[m.app].rev
      BY <1>0, <1>1, <1>2 DEF EnvType, Marker, AppliedNotAhead
<1>5. new \in Nat /\ new <= pod[m.app].rev /\ applied[m.app] <= new
      BY <1>2, <1>4
<1> HIDE DEF new
<1>6. EnvType' /\ \A b \in Apps : applied'[b] = IF b = m.app THEN new ELSE applied[b]
      BY <1>0, <1>2, <1>3, <1>5 DEF EnvType, config, cluster, bounds
<1>7. Generations' /\ AppliedNotAhead'
      BY <1>0, <1>3, <1>5, <1>6 DEF Generations, AppliedNotAhead, config, cluster
<1>8. Grows
  <2>1. \A n \in Marker : Sound(n) => Sound(n)'
        BY <1>3 DEF Sound, config, cluster
  <2>2. \A b \in Apps : applied[b] \in Nat /\ pod[b].gen \in Nat
        BY <1>0 DEF EnvType
  <2>3. revision \in Nat
        BY <1>0 DEF EnvType
  <2> QED BY <1>3, <1>5, <1>6, <2>1, <2>2, <2>3 DEF Grows, config, cluster
<1>9. WorkType' /\ OthersKept(w) /\ OnTo(w, "open")
  <2>1. Len(jobs') \in Nat /\ Len(jobs') >= Len(jobs)
        BY <1>0, <1>3
  <2>2. "open" \in Step \ {"idle"} /\ work[w].pc # "idle"
        BY <1>0 DEF Step
  <2> QED BY <1>0, <1>3, <2>1, <2>2, GotoPc
<1>10. StepSound(w)'
  <2>1. PICK n \in Marker : n = m
        BY <1>1
  <2>2. Sound(n)'
        BY <1>1, <1>8, <2>1 DEF Grows
  <2>3. work[w].rev <= revision /\ n.gen # 0
        BY <1>0, <1>1, <2>1 DEF StepSound
  <2>4. /\ work'[w].marker = n /\ work'[w].pc = "open" /\ work'[w].rev <= revision'
        BY <1>3, <1>9, <2>1, <2>3 DEF OnTo, config
  <2> QED BY <2>2, <2>3, <2>4 DEF StepSound, Needs
<1>11. \A v \in Workers : StepSound(v)'
      BY <1>3, <1>6, <1>8, <1>9, <1>10, StepGrows DEF OthersKept
<1>12. JobsType' /\ \A j \in Rows' : RowSound(j)'
      BY <1>0, <1>3, <1>6, <1>8, RowGrows, JobsStay DEF Rows, RowsSafe
<1> QED BY <1>6, <1>7, <1>9, <1>11, <1>12 DEF IInv, TypeOK

LEMMA ConfigStep ==
    ASSUME IInv, UpdateAICCConfig
    PROVE  IInv'
<1> DEFINE row == NewJob("model", revision + 1)
<1>0. /\ EnvType /\ JobsType /\ WorkType /\ Generations /\ AppliedNotAhead
      /\ Len(jobs) \in Nat /\ Rows = 1..Len(jobs) /\ revision \in Nat
      BY Lengths DEF IInv, TypeOK, EnvType
<1>1. /\ revision' = revision + 1 /\ jobs' = Append(jobs, row)
      /\ UNCHANGED <<build, starting, owner, phase, applied, cluster, work, seen, bounds>>
      BY DEF UpdateAICCConfig
<1>2. /\ row \in JobRow /\ row.status = "pending" /\ row.lease = None
      /\ row.marker = NoMarker /\ row.target = revision + 1
      BY <1>0, NewJobType DEF Kind
<1> HIDE DEF row
<1>3. /\ JobsType' /\ Len(jobs') = Len(jobs) + 1
      /\ \A i \in 1..Len(jobs) : jobs'[i] = jobs[i]
      /\ jobs'[Len(jobs) + 1] = row
      BY <1>0, <1>1, <1>2, AppendRow
<1>4. EnvType'
      BY <1>0, <1>1 DEF EnvType, cluster, bounds
<1>5. WorkType'
      BY <1>0, <1>1, <1>3 DEF WorkType
<1>6. Generations' /\ AppliedNotAhead'
  <2>1. \A a \in Apps : boot[a].rev \in Nat
        BY <1>0 DEF EnvType
  <2> QED BY <1>0, <1>1, <2>1 DEF Generations, AppliedNotAhead, cluster
<1>7. Grows
  <2>1. ASSUME NEW m \in Marker, Sound(m)
        PROVE  Sound(m)'
    <3>1. m.rev \in Nat
          BY DEF Marker
    <3> QED BY <1>0, <1>1, <2>1, <3>1 DEF Sound, cluster
  <2>2. \A a \in Apps : applied[a] \in Nat /\ pod[a].gen \in Nat
        BY <1>0 DEF EnvType
  <2> QED BY <1>0, <1>1, <2>1, <2>2 DEF Grows, cluster
<1>8. ASSUME NEW w \in Workers
      PROVE  StepSound(w)'
      BY <1>1, <1>3, <1>4, <1>7, StepGrows
<1>9. ASSUME NEW j \in Rows'
      PROVE  RowSound(j)'
  <2>1. j \in 1..(Len(jobs) + 1)
        BY <1>3 DEF JobsType, Rows
  <2>2. CASE j \in 1..Len(jobs)
        BY <1>3, <1>4, <1>7, <2>2, RowGrows
  <2>3. CASE j = Len(jobs) + 1
        BY <1>0, <1>1, <1>2, <1>3, <2>3 DEF RowSound, Sound, NoMarker
  <2> QED BY <1>0, <2>1, <2>2, <2>3
<1> QED BY <1>3, <1>4, <1>5, <1>6, <1>8, <1>9 DEF IInv, TypeOK

\* Before the first job there is nothing to be wrong about.
LEMMA InitIInv ==
    ASSUME Init
    PROVE  IInv
<1>1. /\ jobs = << >> /\ Len(jobs) = 0 /\ Rows = {} /\ revision = 1
      /\ applied = [a \in Apps |-> 1] /\ spec = [a \in Apps |-> 1]
      /\ boot = [a \in Apps |-> [gen |-> 1, rev |-> 1]] /\ pod = boot
      /\ work = [w \in Workers |-> Idle]
      BY DEF Init, Rows
<1>2. /\ Idle \in WorkRow /\ Idle.pc = "idle" /\ Idle.job = 0
      /\ Idle.rev = 0 /\ Idle.marker = NoMarker
      BY DEF Idle, WorkRow, Marker, NoMarker, Step
<1>3. JobsType
      BY <1>1 DEF JobsType, Rows
<1>4. WorkType
      BY <1>1, <1>2 DEF WorkType
<1>5. EnvType
  <2>1. raced \in BOOLEAN
        BY Zenon DEF Init
  <2>2. faults \in 0..MaxFaults
        BY ConstantsAssumption DEF Init
  <2>3. seen \in [app : Apps \cup {None}, ready : BOOLEAN]
        BY DEF Init
  <2>4. /\ revision \in Nat /\ build \in [Workers -> Nat] /\ starting \subseteq Workers
        /\ prompt \in [Apps -> Nat] /\ owner \in [Apps -> Nat]
        /\ phase \in [Apps -> {"ready", "restarting"}]
        BY DEF Init
  <2>5. /\ applied \in [Apps -> Nat] /\ spec \in [Apps -> Nat]
        /\ boot \in [Apps -> [gen : Nat, rev : Nat]]
        /\ pod \in [Apps -> [gen : Nat, rev : Nat]]
        BY <1>1
  <2> QED BY <2>1, <2>2, <2>3, <2>4, <2>5 DEF EnvType
<1>6. Generations /\ AppliedNotAhead
      BY <1>1 DEF Generations, AppliedNotAhead
<1>7. ASSUME NEW w \in Workers
      PROVE  StepSound(w)
  <2>1. work[w].pc = "idle" /\ work[w].rev = 0 /\ work[w].marker = NoMarker
        BY <1>1, <1>2
  <2>2. Sound(work[w].marker)
        BY <1>1, <2>1 DEF NoMarker, Sound
  <2> QED BY <1>1, <2>1, <2>2 DEF StepSound, Needs
<1> QED BY <1>1, <1>3, <1>4, <1>5, <1>6, <1>7 DEF IInv, TypeOK

LEMMA NextIInv ==
    ASSUME IInv, [Next]_vars
    PROVE  IInv'
<1>1. CASE UNCHANGED vars
  <2>1. Frame /\ UNCHANGED <<jobs, work>> /\ EnvType' /\ WorkType'
        BY <1>1 DEF vars, config, cluster, bounds, Frame, IInv, TypeOK, EnvType, WorkType
  <2> QED BY <2>1, JobsStay, StaysPut DEF IInv, TypeOK
<1>2. CASE UpdateAICCConfig
      BY <1>2, ConfigStep
<1>3. CASE WritePhase
      BY <1>3, WritePhaseStep
<1>4. CASE \E w \in Workers, j \in Rows : GetJob(w, j)
      BY <1>4, ClaimSteps
<1>5. CASE \E j \in Rows : Recover(j)
      BY <1>5, RecoverStep
<1>6. CASE \E a \in Apps : Bootstrap(a) \/ BecomeAvailable(a) \/ Observe(a)
      BY <1>6, ClusterSteps
<1>7. ASSUME NEW w \in Workers,
             StartUp(w) \/ Fault(w) \/ Crash(w) \/ Upgrade(w) \/ LeaseLost(w)
      PROVE  IInv'
      BY <1>7, CoordinatorSteps, EndSteps
<1>8. ASSUME NEW w \in Workers, Handle(w)
      PROVE  IInv'
      BY <1>8, ClaimSteps, SafeSteps, PersistSteps, ListStep, ReleaseStep, RestartStep,
         StampStep, CoordinatorSteps, SucceedStep DEF Handle
<1> QED BY <1>1, <1>2, <1>3, <1>4, <1>5, <1>6, <1>7, <1>8 DEF Next

\* The inductive invariant holds in every behaviour.
THEOREM Inductive == Spec => []IInv
<1>1. Init => IInv
      BY InitIInv
<1>2. IInv /\ [Next]_vars => IInv'
      BY NextIInv
<1> QED BY <1>1, <1>2, PTL DEF Spec

\* Type correctness of the jobs, the workers' copies and the cluster.
THEOREM TypeCorrect == Spec => []TypeOK
<1>1. IInv => TypeOK
      BY DEF IInv
<1> QED BY <1>1, Inductive, PTL

\* An agent's applied revision is never ahead of what all of its pods booted with,
\* whatever fails, crashes or runs twice.
THEOREM AppliedBehindPods == Spec => []AppliedNotAhead
<1>1. IInv => AppliedNotAhead
      BY DEF IInv
<1> QED BY <1>1, Inductive, PTL

\* When a model job has succeeded, every app runs its revision or a later one.
THEOREM SuccessMeansComplete == Spec => []SuccessIsComplete
<1>1. ASSUME IInv
      PROVE  SuccessIsComplete
  <2>1. ASSUME NEW j \in Rows, jobs[j].kind = "model", jobs[j].status = "succeeded",
               NEW a \in Apps
        PROVE  pod[a].rev >= jobs[j].target
    <3>1. applied[a] >= jobs[j].target /\ applied[a] <= pod[a].rev
          BY <1>1, <2>1 DEF IInv, RowSound, Reached, AppliedNotAhead
    <3>2. applied[a] \in Nat /\ pod[a].rev \in Nat /\ jobs[j].target \in Nat
          BY <1>1, Lengths DEF IInv, TypeOK, EnvType, JobRow
    <3> QED BY <3>1, <3>2
  <2> QED BY <2>1 DEF SuccessIsComplete
<1> QED BY <1>1, Inductive, PTL

------------------------------------------------------------------------------
\* While one worker at a time runs a job, the job owns the app that its marker
\* names.

\* What a step made for job j0 (0: for none) leaves of the other jobs: their rows, the
\* apps they own and the gates of these; no pod of an older generation returns.
Spares(j0) ==
    /\ \A j \in Rows \ {j0} : j \in Rows' /\ jobs'[j] = jobs[j]
    /\ \A j \in Rows' \ Rows : jobs'[j].marker = NoMarker
    /\ \A a \in Apps : pod'[a].gen >= pod[a].gen
    /\ \A a \in Apps, j \in Rows \ {j0} : owner[a] = j /\ Active(j) =>
          /\ owner'[a] = j
          /\ phase[a] = "restarting" => phase'[a] = "restarting"

Still == UNCHANGED <<owner, phase, pod>>

\* What the types and IInv say of the marker in a row and in a worker's hands.
LEMMA Markers ==
    ASSUME IInv
    PROVE  /\ None \notin Apps /\ Len(jobs) \in Nat /\ Rows = 1..Len(jobs)
           /\ \A a \in Apps : pod[a].gen \in Nat
           /\ \A j \in Rows : /\ jobs[j] \in JobRow /\ jobs[j].marker.gen \in Nat
                              /\ jobs[j].marker # NoMarker => jobs[j].marker.app \in Apps
           /\ \A w \in Workers :
                 /\ work[w] \in WorkRow /\ work[w].marker.gen \in Nat
                 /\ work[w].pc # "idle" => work[w].job \in Rows
                 /\ work[w].marker # NoMarker => work[w].marker.app \in Apps
                 /\ work[w].pc \in {"shut", "restart", "record", "wait", "verify", "stamp",
                                    "open", "clear"}
                       => work[w].marker # NoMarker
<1>1. /\ Len(jobs) \in Nat /\ Rows = 1..Len(jobs)
      /\ \A j \in Rows : jobs[j] \in JobRow /\ RowSound(j)
      BY Lengths DEF IInv, TypeOK
<1>2. \A a \in Apps : pod[a].gen \in Nat
      BY DEF IInv, TypeOK, EnvType
<1>3. ASSUME NEW w \in Workers
      PROVE  /\ work[w] \in WorkRow /\ work[w].marker.gen \in Nat
             /\ work[w].pc # "idle" => work[w].job \in Rows
             /\ work[w].marker # NoMarker => work[w].marker.app \in Apps
             /\ work[w].pc \in {"shut", "restart", "record", "wait", "verify", "stamp",
                                "open", "clear"}
                   => work[w].marker # NoMarker
  <2>1. work[w] \in WorkRow /\ StepSound(w) /\ (work[w].pc # "idle" => work[w].job \in Rows)
        BY <1>1, Busy
  <2>2. work[w].marker.gen \in Nat
        BY <2>1 DEF WorkRow, Marker
  <2>3. NoMarker.app = None /\ NoMarker.gen = 0
        BY DEF NoMarker
  <2> QED BY <2>1, <2>2, <2>3, ConstantsAssumption DEF StepSound, Sound, Needs
<1>4. ASSUME NEW j \in Rows
      PROVE  /\ jobs[j].marker.gen \in Nat
             /\ jobs[j].marker # NoMarker => jobs[j].marker.app \in Apps
      BY <1>1 DEF JobRow, Marker, RowSound, Sound
<1> QED BY <1>1, <1>2, <1>3, <1>4, ConstantsAssumption

\* A worker whose job the step is not made for keeps what it holds.
LEMMA OtherStep ==
    ASSUME IInv, Owned, NEW j0, Spares(j0), NEW v \in Workers, work'[v] = work[v],
           Handling(v) => work[v].job # j0, \A a \in Apps : pod'[a].gen \in Nat
    PROVE  StepOwned(v)'
<1> DEFINE j == work[v].job
           m == work[v].marker
<1>1. CASE ~Handling(v)
      BY <1>1 DEF Handling, StepOwned
<1>2. CASE Handling(v)
  <2>1. /\ StepOwned(v) /\ j \in Rows \ {j0} /\ RowOwned(j)
        BY <1>2, Markers DEF Owned, Handling
  <2>2. /\ Owns(v) /\ CopyKept(v) /\ Active(j) /\ jobs'[j] = jobs[j]
        BY <1>2, <2>1 DEF StepOwned, Owns, Active, Spares
  <2>3. Owns(v)' /\ CopyKept(v)'
        BY <2>2 DEF Owns, CopyKept, At
  <2>4. At(v, "mark") => owner'[work[v].pick] = j
    <3>1. At(v, "mark") => work[v].pick \in Apps
          BY Busy DEF StepSound, Needs, At
    <3> QED BY <1>2, <2>1, <2>2, <3>1 DEF StepOwned, Spares
  <2>5. work[v].pc \in {"restart", "record"} => phase'[m.app] = "restarting"
    <3>1. CASE work[v].pc \in {"restart", "record"}
      <4>1. m.app \in Apps /\ owner[m.app] = j /\ phase[m.app] = "restarting"
            BY <1>2, <2>1, <2>2, <3>1, Markers DEF StepOwned, RowOwned, CopyKept
      <4> QED BY <2>1, <2>2, <4>1 DEF Spares
    <3> QED BY <3>1
  <2>6. work[v].pc \in {"verify", "stamp", "open", "clear"} => pod'[m.app].gen >= m.gen
    <3>1. CASE work[v].pc \in {"verify", "stamp", "open", "clear"}
      <4>1. m.app \in Apps /\ pod[m.app].gen >= m.gen /\ pod'[m.app].gen >= pod[m.app].gen
            BY <1>2, <2>1, <3>1, Markers DEF StepOwned, Spares
      <4>2. pod[m.app].gen \in Nat /\ m.gen \in Nat /\ pod'[m.app].gen \in Nat
            BY <4>1, Markers
      <4> QED BY <4>1, <4>2
    <3> QED BY <3>1
  <2> QED BY <1>2, <2>1, <2>3, <2>4, <2>5, <2>6 DEF StepOwned, At
<1> QED BY <1>1, <1>2

\* So does the row of such a job.
LEMMA OtherRow ==
    ASSUME IInv, Owned, NEW j0, Spares(j0), \A a \in Apps : pod'[a].gen \in Nat,
           NEW j \in Rows', j # j0
    PROVE  RowOwned(j)'
<1> DEFINE m == jobs[j].marker
<1>1. CASE j \in Rows /\ Active(j) /\ m # NoMarker
  <2>1. /\ jobs'[j] = jobs[j] /\ m.app \in Apps /\ owner[m.app] = j
        /\ pod'[m.app].gen >= pod[m.app].gen
        BY <1>1, Markers DEF Owned, RowOwned, Spares
  <2>2. /\ owner'[m.app] = j
        /\ phase[m.app] = "restarting" => phase'[m.app] = "restarting"
        BY <1>1, <2>1 DEF Spares
  <2>3. pod[m.app].gen \in Nat /\ pod'[m.app].gen \in Nat /\ m.gen \in Nat
        BY <1>1, <2>1, Markers
  <2>4. m.gen # 0 /\ pod'[m.app].gen < m.gen => phase'[m.app] = "restarting"
        BY <1>1, <2>1, <2>2, <2>3 DEF Owned, RowOwned
  <2> QED BY <2>1, <2>2, <2>4 DEF RowOwned
<1>2. CASE j \in Rows /\ ~(Active(j) /\ m # NoMarker)
      BY <1>2 DEF Spares, RowOwned, Active
<1>3. CASE j \notin Rows
      BY <1>3 DEF Spares, RowOwned
<1> QED BY <1>1, <1>2, <1>3

\* A step is checked at the workers that move and at the row it is made for.
LEMMA OwnedStep ==
    ASSUME IInv, IInv', Owned, NEW j0, Spares(j0), NEW Kept \in SUBSET Workers,
           \A v \in Kept : work'[v] = work[v] /\ (Handling(v) => work[v].job # j0),
           \A v \in Workers \ Kept : StepOwned(v)',
           j0 \in Rows' => RowOwned(j0)'
    PROVE  Owned'
<1>1. \A a \in Apps : pod'[a].gen \in Nat
      BY DEF IInv, TypeOK, EnvType
<1>2. \A v \in Workers : StepOwned(v)'
      BY <1>1, OtherStep
<1>3. \A j \in Rows' : RowOwned(j)'
      BY <1>1, OtherRow
<1> QED BY <1>2, <1>3 DEF Owned

\* Two workers in their handlers hold the leases of two jobs.
LEMMA Exclusive ==
    ASSUME Owned, NEW w \in Workers, NEW v \in Workers \ {w}, Handling(v), Handling(w)
    PROVE  work[v].job # work[w].job
BY DEF Owned, StepOwned, Owns

\* The step of a worker that is in its handler, with job j.
LEMMA HandlerStep ==
    ASSUME IInv, IInv', Owned, NEW w \in Workers, Handling(w), OthersKept(w),
           NEW j \in Nat, j = work[w].job, Spares(j), StepOwned(w)', RowOwned(j)'
    PROVE  Owned'
<1> DEFINE Kept == Workers \ {w}
<1>1. \A v \in Kept : work'[v] = work[v] /\ (Handling(v) => work[v].job # j)
      BY Exclusive DEF OthersKept
<1>2. Kept \in SUBSET Workers /\ \A v \in Workers \ Kept : StepOwned(v)'
      OBVIOUS
<1> HIDE DEF Kept
<1> QED BY <1>1, <1>2, OwnedStep

\* A step that leaves the jobs, or adds a row, and the world as they are.
LEMMA Untouched ==
    ASSUME IInv, Still, \A j \in Rows : j \in Rows' /\ jobs'[j] = jobs[j],
           \A j \in Rows' \ Rows : jobs'[j].marker = NoMarker
    PROVE  \A j0 : Spares(j0)
BY Markers DEF Spares, Still

\* A worker that goes on with the same job and marker.
LEMMA OwnedGoes ==
    ASSUME IInv, IInv', Owned, NEW w \in Workers, Handling(w), ~At(w, "record"), OthersKept(w),
           Still, \A j \in Rows : j \in Rows' /\ jobs'[j] = jobs[j],
           \A j \in Rows' \ Rows : jobs'[j].marker = NoMarker,
           work'[w].job = work[w].job, work'[w].marker = work[w].marker,
           work'[w].pc \notin {"record", "free", "restart"},
           At(w, "mark")' => owner[work'[w].pick] = work[w].job,
           work'[w].pc \in {"verify", "stamp", "open", "clear"} =>
               pod[work[w].marker.app].gen >= work[w].marker.gen
    PROVE  Owned'
<1>1. PICK j \in Nat : j = work[w].job
      BY Markers DEF Handling
<1>2. /\ StepOwned(w) /\ j \in Rows /\ RowOwned(j) /\ j \in Rows' /\ jobs'[j] = jobs[j]
      BY <1>1, Markers DEF Owned, Handling
<1>3. Owns(w)' /\ CopyKept(w)'
      BY <1>1, <1>2 DEF StepOwned, Owns, CopyKept, At
<1>4. StepOwned(w)'
      BY <1>1, <1>2, <1>3 DEF StepOwned, At, Still
<1>5. RowOwned(j)'
      BY <1>2 DEF RowOwned, Still, Active
<1> QED BY <1>1, <1>4, <1>5, Untouched, HandlerStep

\* The end of an attempt changes the state of one row and leaves its marker.
RowEnds(w) ==
    /\ Rows' = Rows
    /\ \A j \in Rows : /\ j # work[w].job => jobs'[j] = jobs[j]
                       /\ jobs'[j].marker = jobs[j].marker
                       /\ Active(j)' => Active(j)

LEMMA AttemptEnds ==
    ASSUME IInv, NEW w \in Workers, Handling(w),
           DeferJob(w) \/ HandlerError(w) \/ MarkJobSucceeded(w)
    PROVE  RowEnds(w) /\ OthersKept(w) /\ ~Handling(w)'
<1>1. /\ work \in [Workers -> WorkRow] /\ Rows = DOMAIN jobs
      /\ work[w].job \in Rows /\ jobs[work[w].job] \in JobRow
      BY Markers DEF IInv, TypeOK, WorkType, Rows, Handling
<1>2. OthersKept(w) /\ ~Handling(w)'
  <2>1. Stop(w) \/ Goto(w, "after")
        BY DEF DeferJob, HandlerError, MarkJobSucceeded
  <2> QED BY <1>1, <2>1 DEF Stop, Goto, OthersKept, Handling, Idle, WorkRow
<1>3. RowEnds(w)
  <2> DEFINE j == work[w].job
  <2>1. CASE UNCHANGED jobs
        BY <2>1 DEF RowEnds, Rows, Active
  <2>2. CASE Owns(w)
    <3>1. PICK s, n : jobs' = [jobs EXCEPT ![j].status = s, ![j].lease = None,
                                           ![j].attempts = n]
      <4>1. CASE DeferJob(w)
            BY <2>2, <4>1 DEF DeferJob
      <4>2. CASE HandlerError(w)
        <5> DEFINE s == IF work[w].attempts >= MaxAttempts THEN "failed" ELSE "pending"
        <5>1. jobs' = [jobs EXCEPT ![j].status = s, ![j].lease = None]
              BY <2>2, <4>2 DEF HandlerError
        <5>2. jobs' = [jobs EXCEPT ![j].status = s, ![j].lease = None,
                                   ![j].attempts = jobs[j].attempts]
              BY <1>1, <5>1 DEF JobRow
        <5> QED BY <5>2
      <4>3. CASE MarkJobSucceeded(w)
        <5>1. jobs' = [jobs EXCEPT ![j].status = "succeeded", ![j].lease = None]
              BY <2>2, <4>3 DEF MarkJobSucceeded
        <5>2. jobs' = [jobs EXCEPT ![j].status = "succeeded", ![j].lease = None,
                                   ![j].attempts = jobs[j].attempts]
              BY <1>1, <5>1 DEF JobRow
        <5> QED BY <5>2
      <4> QED BY <4>1, <4>2, <4>3
    <3>2. Rows' = Rows /\ Active(j)
          BY <1>1, <2>2, <3>1 DEF Rows, Owns, Active
    <3>3. \A i \in Rows : /\ i # j => jobs'[i] = jobs[i]
                          /\ jobs'[i].marker = jobs[i].marker
          BY <1>1, <3>1 DEF JobRow
    <3>4. ASSUME NEW i \in Rows, Active(i)'
          PROVE  Active(i)
          BY <3>2, <3>3, <3>4 DEF Active
    <3> QED BY <3>2, <3>3, <3>4 DEF RowEnds
  <2> QED BY <2>1, <2>2 DEF DeferJob, HandlerError, MarkJobSucceeded
<1> QED BY <1>2, <1>3

\* An attempt that ends, with or without the row's state, leaves the markers owned.
LEMMA OwnedEnds ==
    ASSUME IInv, IInv', Owned, NEW w \in Workers, Handling(w), OthersKept(w), RowEnds(w),
           ~Handling(w)', Still
    PROVE  Owned'
<1>1. PICK j \in Nat : j = work[w].job
      BY Markers DEF Handling
<1>2. j \in Rows /\ j \in Rows' /\ RowOwned(j)
      BY <1>1, Markers DEF Owned, Handling, RowEnds
<1>3. Spares(j)
      BY <1>1, Markers DEF Spares, RowEnds, Still
<1>4. StepOwned(w)'
      BY DEF StepOwned
<1>5. RowOwned(j)'
      BY <1>2 DEF RowOwned, RowEnds, Still
<1> QED BY <1>1, <1>3, <1>4, <1>5, HandlerStep

LEMMA OwnedFails ==
    ASSUME IInv, IInv', Owned, NEW w \in Workers, Handling(w), Still,
           DeferJob(w) \/ HandlerError(w) \/ MarkJobSucceeded(w)
    PROVE  Owned'
BY AttemptEnds, OwnedEnds

LEMMA OwnedStops ==
    ASSUME IInv, IInv', Owned, NEW w \in Workers, Handling(w), Still, UNCHANGED jobs, Stop(w)
    PROVE  Owned'
<1>1. OthersKept(w) /\ ~Handling(w)'
      BY DEF Stop, OthersKept, Handling, Idle, IInv, TypeOK, WorkType
<1>2. RowEnds(w)
      BY DEF RowEnds, Rows, Active
<1> QED BY <1>1, <1>2, OwnedEnds

\* A worker that only goes to its next step.
LEMMA GotoKeeps ==
    ASSUME IInv, NEW w \in Workers, NEW pc, Goto(w, pc)
    PROVE  /\ OthersKept(w) /\ work'[w].pc = pc /\ work'[w].job = work[w].job
           /\ work'[w].marker = work[w].marker /\ work'[w].pick = work[w].pick
<1>1. work \in [Workers -> WorkRow]
      BY DEF IInv, TypeOK, WorkType
<1> QED BY <1>1 DEF Goto, OthersKept, WorkRow

\* The steps that read what others share.
LEMMA OwnedReads ==
    ASSUME IInv, IInv', Owned, NEW w \in Workers,
           \/ Elect(w) \/ ListPending(w) \/ GetOwnership(w) \/ WaitRolloutReady(w)
           \/ StampRevision(w) \/ VerifyPrompt(w)
    PROVE  Owned'
<1>1. Handling(w) /\ ~At(w, "record") /\ Still
      BY DEF Elect, ListPending, GetOwnership, WaitRolloutReady, StampRevision, VerifyPrompt,
         At, Handling, Still, cluster
<1>2. CASE HandlerError(w) \/ DeferJob(w)
      BY <1>1, <1>2, OwnedFails
<1>3. ASSUME UNCHANGED jobs, NEW pc, Goto(w, pc), pc \notin {"record", "free", "restart"},
             pc = "mark" => owner[work[w].pick] = work[w].job,
             pc \in {"verify", "stamp", "open", "clear"} =>
                 pod[work[w].marker.app].gen >= work[w].marker.gen
      PROVE  Owned'
      BY <1>1, <1>3, GotoKeeps, OwnedGoes DEF Rows, At
<1>4. CASE Elect(w)
      BY <1>2, <1>3, <1>4 DEF Elect
<1>5. CASE ListPending(w)
  <2>1. CASE Goto(w, "before") \/ Goto(w, "finish")
        BY <1>3, <1>5, <2>1 DEF ListPending
  <2>2. CASE \E a \in Apps : work' = [work EXCEPT ![w].pc = "own", ![w].pick = a,
                                                   ![w].rev = revision]
    <3>1. work \in [Workers -> WorkRow]
          BY DEF IInv, TypeOK, WorkType
    <3>2. /\ OthersKept(w) /\ work'[w].pc = "own" /\ work'[w].job = work[w].job
          /\ work'[w].marker = work[w].marker
          BY <2>2, <3>1 DEF OthersKept, WorkRow
    <3>3. UNCHANGED jobs
          BY <1>5 DEF ListPending
    <3> QED BY <1>1, <3>2, <3>3, OwnedGoes DEF Rows, At
  <2>3. Behind(work[w].job) \subseteq Apps
        BY DEF Behind
  <2>4. CASE Behind(work[w].job) = {}
        BY <1>5, <2>1, <2>4 DEF ListPending
  <2>5. CASE Behind(work[w].job) # {}
    <3>1. \E a \in Behind(work[w].job) :
             work' = [work EXCEPT ![w].pc = "own", ![w].pick = a, ![w].rev = revision]
          BY <1>5, <2>5, Zenon DEF ListPending
    <3> QED BY <2>2, <2>3, <3>1, Zenon
  <2> QED BY <2>4, <2>5
<1>6. CASE GetOwnership(w)
  <2>1. CASE UNCHANGED jobs /\ owner[Target(w)] = work[w].job
             /\ Goto(w, IF work[w].marker = NoMarker THEN "mark"
                        ELSE IF work[w].marker.gen = 0 THEN "shut" ELSE "wait")
        BY <1>3, <2>1 DEF Target
  <2> QED BY <1>2, <1>6, <2>1 DEF GetOwnership
<1>7. CASE WaitRolloutReady(w)
  <2>1. /\ work[w].marker # NoMarker /\ work[w].marker.app \in Apps
        /\ work[w].marker.gen \in Nat
        BY <1>7, Markers DEF WaitRolloutReady, At
  <2>2. pod[work[w].marker.app].gen >= work[w].marker.gen
        BY <1>7, <2>1, Markers DEF WaitRolloutReady, RolledOut
  <2>3. UNCHANGED jobs /\ (Goto(w, "stamp") \/ Goto(w, "verify"))
        BY <1>7 DEF WaitRolloutReady
  <2> QED BY <1>3, <2>2, <2>3
<1>8. CASE StampRevision(w) \/ VerifyPrompt(w)
  <2>1. pod[work[w].marker.app].gen >= work[w].marker.gen
        BY <1>1, <1>8 DEF StampRevision, VerifyPrompt, Owned, StepOwned, At
  <2>2. HandlerError(w) \/ (UNCHANGED jobs /\ Goto(w, "open"))
        BY <1>8 DEF StampRevision, VerifyPrompt
  <2> QED BY <1>2, <1>3, <2>1, <2>2
<1> QED BY <1>4, <1>5, <1>6, <1>7, <1>8

\* The steps that write an owner row.
LEMMA OwnedOwners ==
    ASSUME IInv, IInv', Owned, NEW w \in Workers,
           ReleaseByOwner(w) \/ ClaimOwnership(w) \/ ReleaseOwnership(w)
    PROVE  Owned'
<1>1. PICK j \in Nat : j = work[w].job
      BY Markers DEF ReleaseByOwner, ClaimOwnership, ReleaseOwnership, At
<1>2. /\ Handling(w) /\ UNCHANGED <<phase, pod>> /\ j \in Rows /\ j # 0
      /\ StepOwned(w) /\ RowOwned(j) /\ owner \in [Apps -> Nat]
  <2>1. Handling(w) /\ UNCHANGED <<phase, pod>> /\ work[w].pc # "idle"
        BY DEF ReleaseByOwner, ClaimOwnership, ReleaseOwnership, At, Handling, cluster
  <2>2. j \in Rows /\ j # 0
        BY <1>1, <2>1, Markers
  <2>3. StepOwned(w) /\ RowOwned(j)
        BY <2>2 DEF Owned
  <2>4. owner \in [Apps -> Nat]
        BY DEF IInv, TypeOK, EnvType
  <2> QED BY <2>1, <2>2, <2>3, <2>4
<1>3. /\ Owns(w) /\ Active(j) /\ (~At(w, "record") => jobs[j].marker = work[w].marker)
      BY <1>1, <1>2 DEF StepOwned, CopyKept, Owns, Active
<1>4. CASE ReleaseByOwner(w)
  <2>1. CASE work[w].marker # NoMarker
    <3>1. Still /\ UNCHANGED jobs /\ Goto(w, "elect") /\ ~At(w, "record")
          BY <1>2, <1>4, <2>1 DEF ReleaseByOwner, Still, At
    <3> QED BY <1>2, <3>1, GotoKeeps, OwnedGoes DEF Rows, At
  <2>2. CASE work[w].marker = NoMarker
    <3> DEFINE mine == {a \in Apps : owner[a] = work[w].job}
    <3>1. /\ owner' = [a \in Apps |-> IF a \in mine THEN 0 ELSE owner[a]]
          /\ HandlerError(w) \/ (UNCHANGED jobs /\ Goto(w, "elect"))
          /\ At(w, "loop")
          BY <1>4, <2>2 DEF ReleaseByOwner
    <3>2. jobs[j].marker = NoMarker
          BY <1>3, <2>2, <3>1 DEF At
    <3>3. /\ \A i \in Rows : /\ i \in Rows' /\ (i # j => jobs'[i] = jobs[i])
                             /\ jobs'[i].marker = jobs[i].marker
          /\ Rows' = Rows /\ OthersKept(w) /\ StepOwned(w)'
      <4>1. CASE HandlerError(w)
            BY <1>1, <1>2, <4>1, AttemptEnds DEF RowEnds, StepOwned
      <4>2. CASE UNCHANGED jobs /\ Goto(w, "elect")
        <5>1. Owns(w)' /\ CopyKept(w)'
              BY <1>1, <1>3, <2>2, <3>1, <3>2, <4>2, GotoKeeps DEF Owns, CopyKept, At
        <5> QED BY <4>2, <5>1, GotoKeeps DEF Rows, StepOwned, At
      <4> QED BY <3>1, <4>1, <4>2
    <3>4. Spares(j)
          BY <1>1, <1>2, <3>1, <3>3, Markers DEF Spares
    <3>5. RowOwned(j)'
          BY <1>2, <3>2, <3>3 DEF RowOwned
    <3> QED BY <1>1, <1>2, <3>3, <3>4, <3>5, HandlerStep
  <2> QED BY <2>1, <2>2
<1>5. CASE ClaimOwnership(w)
  <2> DEFINE a == Target(w)
  <2>1. /\ owner' = [owner EXCEPT ![a] = IF owner[a] # 0 /\ Active(owner[a])
                                         THEN owner[a] ELSE work[w].job]
        /\ UNCHANGED jobs /\ Goto(w, "readOwner") /\ At(w, "own")
        BY <1>5 DEF ClaimOwnership
  <2>2. a \in Apps
        BY <2>1, Busy DEF At, StepSound, Needs
  <2>3. \A b \in Apps : owner'[b] = IF b # a \/ (owner[b] # 0 /\ Active(owner[b]))
                                    THEN owner[b] ELSE j
        BY <1>1, <1>2, <2>1, <2>2
  <2>4. Spares(j)
        BY <1>2, <2>1, <2>3, Markers DEF Spares, Rows
  <2>5. Owns(w)' /\ CopyKept(w)'
        BY <1>1, <1>3, <2>1, GotoKeeps DEF Owns, CopyKept, At
  <2>6. StepOwned(w)'
        BY <2>1, <2>5, GotoKeeps DEF StepOwned, At
  <2>7. RowOwned(j)'
        BY <1>2, <1>3, <2>1, <2>3, Markers DEF RowOwned, Active
  <2> QED BY <1>1, <1>2, <2>1, <2>4, <2>6, <2>7, GotoKeeps, HandlerStep
<1>6. CASE ReleaseOwnership(w)
  <2> DEFINE a == work[w].pick
  <2>1. /\ owner' = [owner EXCEPT ![a] = IF owner[a] = work[w].job THEN 0 ELSE owner[a]]
        /\ work' = [work EXCEPT ![w].pc = "loop", ![w].pick = None, ![w].rev = 0]
        /\ UNCHANGED jobs /\ At(w, "free")
        BY <1>6 DEF ReleaseOwnership
  <2>2. work[w].marker = NoMarker /\ jobs[j].marker = NoMarker
        BY <1>2, <1>3, <2>1 DEF StepOwned, At
  <2>3. /\ OthersKept(w) /\ work'[w].pc = "loop" /\ work'[w].job = work[w].job
        /\ work'[w].marker = work[w].marker
    <3>1. work \in [Workers -> WorkRow]
          BY DEF IInv, TypeOK, WorkType
    <3> QED BY <2>1, <3>1 DEF OthersKept, WorkRow
  <2>4. Spares(j)
        BY <1>1, <1>2, <2>1, Markers DEF Spares, Rows
  <2>5. Owns(w)' /\ CopyKept(w)'
        BY <1>1, <1>3, <2>1, <2>2, <2>3 DEF Owns, CopyKept, At
  <2>6. StepOwned(w)'
        BY <2>3, <2>5 DEF StepOwned, At
  <2>7. RowOwned(j)'
        BY <2>1, <2>2 DEF RowOwned
  <2> QED BY <1>1, <1>2, <2>3, <2>4, <2>6, <2>7, HandlerStep
<1> QED BY <1>4, <1>5, <1>6

\* What a write of the payload does to the row: w owns it.
LEMMA MarkerWritten ==
    ASSUME IInv, NEW w \in Workers, Handling(w), NEW j \in Nat, j = work[w].job, NEW m,
           jobs' = [jobs EXCEPT ![j].marker = m]
    PROVE  /\ Rows' = Rows /\ j \in Rows
           /\ \A i \in Rows \ {j} : jobs'[i] = jobs[i]
           /\ jobs'[j].marker = m /\ jobs'[j].status = jobs[j].status
           /\ jobs'[j].lease = jobs[j].lease
<1>1. Rows = DOMAIN jobs /\ j \in Rows /\ jobs[j] \in JobRow
      BY Markers DEF Rows, Handling
<1> QED BY <1>1 DEF Rows, JobRow

\* The steps that write the marker of w's row.
LEMMA OwnedMarkers ==
    ASSUME IInv, IInv', Owned, NEW w \in Workers,
           PersistMarker(w) \/ PersistGeneration(w) \/ ClearMarker(w)
    PROVE  Owned'
<1>1. Handling(w) /\ Still /\ work \in [Workers -> WorkRow]
  <2>1. Handling(w) /\ Still
        BY DEF PersistMarker, PersistGeneration, ClearMarker, At, Handling, Still, cluster
  <2> QED BY <2>1 DEF IInv, TypeOK, WorkType
<1>2. PICK j \in Nat : j = work[w].job
      BY <1>1, Markers DEF Handling
<1>3. j \in Rows /\ StepOwned(w) /\ RowOwned(j)
      BY <1>1, <1>2, Markers DEF Handling, Owned
<1>4. Owns(w) /\ Active(j) /\ CopyKept(w)
      BY <1>1, <1>2, <1>3 DEF StepOwned, Owns, Active
<1>5. ASSUME NEW m, jobs' = [jobs EXCEPT ![j].marker = m], OthersKept(w),
             work'[w].job = work[w].job, work'[w].marker = m,
             work'[w].pc \in {"shut", "wait", "free"}, work'[w].pc = "free" => m = NoMarker,
             m # NoMarker => /\ owner[m.app] = j
                             /\ m.gen # 0 => phase[m.app] = "restarting"
      PROVE  Owned'
  <2>1. /\ Rows' = Rows /\ \A i \in Rows \ {j} : jobs'[i] = jobs[i]
        /\ jobs'[j].marker = m /\ jobs'[j].status = jobs[j].status
        /\ jobs'[j].lease = jobs[j].lease
        BY <1>1, <1>2, <1>5, MarkerWritten
  <2>2. Spares(j)
        BY <1>1, <2>1, Markers DEF Spares, Still
  <2>3. Owns(w)' /\ CopyKept(w)'
        BY <1>2, <1>4, <1>5, <2>1 DEF Owns, CopyKept, At
  <2>4. StepOwned(w)'
        BY <1>5, <2>3 DEF StepOwned, At
  <2>5. RowOwned(j)'
        BY <1>1, <1>5, <2>1 DEF RowOwned, Still
  <2> QED BY <1>1, <1>2, <1>5, <2>2, <2>4, <2>5, HandlerStep
<1>6. CASE PersistMarker(w)
  <2> DEFINE m == [app |-> work[w].pick, gen |-> 0, rev |-> work[w].rev]
  <2>1. /\ jobs' = [jobs EXCEPT ![j].marker = m] /\ At(w, "mark")
        /\ work' = [work EXCEPT ![w].pc = "shut", ![w].marker = m]
        BY <1>2, <1>4, <1>6 DEF PersistMarker, PersistPayload
  <2>2. owner[m.app] = j /\ m.gen = 0
        BY <1>1, <1>2, <1>3, <2>1 DEF StepOwned
  <2> HIDE DEF m
  <2>3. /\ OthersKept(w) /\ work'[w].job = work[w].job /\ work'[w].marker = m
        /\ work'[w].pc = "shut"
        BY <1>1, <2>1 DEF OthersKept, WorkRow
  <2> QED BY <1>5, <2>1, <2>2, <2>3
<1>7. CASE PersistGeneration(w)
  <2> DEFINE m == work[w].marker
  <2>1. /\ jobs' = [jobs EXCEPT ![j].marker = m] /\ At(w, "record")
        /\ work' = [work EXCEPT ![w].pc = "wait", ![w].marker = m]
        BY <1>2, <1>4, <1>7 DEF PersistGeneration, PersistPayload
  <2>2. owner[m.app] = j /\ phase[m.app] = "restarting"
        BY <1>1, <1>2, <1>3, <1>4, <2>1 DEF StepOwned, CopyKept, RowOwned, At
  <2>3. /\ OthersKept(w) /\ work'[w].job = work[w].job /\ work'[w].marker = m
        /\ work'[w].pc = "wait"
        BY <1>1, <2>1 DEF OthersKept, WorkRow
  <2> QED BY <1>5, <2>1, <2>2, <2>3
<1>8. CASE ClearMarker(w)
  <2>1. /\ jobs' = [jobs EXCEPT ![j].marker = NoMarker]
        /\ work' = [work EXCEPT ![w].pc = "free", ![w].marker = NoMarker,
                                ![w].pick = work[w].marker.app]
        BY <1>2, <1>4, <1>8 DEF ClearMarker
  <2>2. /\ OthersKept(w) /\ work'[w].job = work[w].job /\ work'[w].marker = NoMarker
        /\ work'[w].pc = "free"
        BY <1>1, <2>1 DEF OthersKept, WorkRow
  <2> QED BY <1>5, <2>1, <2>2
<1> QED BY <1>6, <1>7, <1>8

\* The steps at the gate of the app in hand, and its restart.
LEMMA OwnedGates ==
    ASSUME IInv, IInv', Owned, NEW w \in Workers,
           ShutGate(w) \/ RolloutRestart(w) \/ OpenGate(w)
    PROVE  Owned'
<1> DEFINE a == work[w].marker.app
<1>1. /\ Handling(w) /\ work[w].pc \in {"shut", "restart", "open"} /\ ~At(w, "record")
      /\ work \in [Workers -> WorkRow] /\ phase \in [Apps -> {"ready", "restarting"}]
  <2>1. Handling(w) /\ work[w].pc \in {"shut", "restart", "open"} /\ ~At(w, "record")
        BY DEF ShutGate, RolloutRestart, OpenGate, At, Handling
  <2> QED BY <2>1 DEF IInv, TypeOK, WorkType, EnvType
<1>2. PICK j \in Nat : j = work[w].job
      BY <1>1, Markers
<1>3. /\ j \in Rows /\ StepOwned(w) /\ RowOwned(j) /\ work[w].marker # NoMarker
      /\ a \in Apps /\ pod[a].gen \in Nat /\ work[w].marker.gen \in Nat
      BY <1>1, <1>2, Markers DEF Owned
<1>4. /\ Owns(w) /\ Active(j) /\ jobs[j].marker = work[w].marker /\ owner[a] = j
      BY <1>1, <1>2, <1>3 DEF StepOwned, CopyKept, Owns, Active, RowOwned
<1>5. CASE ShutGate(w)
  <2>1. /\ phase' = [phase EXCEPT ![a] = "restarting"] /\ Goto(w, "restart")
        /\ UNCHANGED <<jobs, owner, pod>>
        BY <1>5 DEF ShutGate, cluster
  <2>2. \A b \in Apps : phase'[b] = IF b = a THEN "restarting" ELSE phase[b]
        BY <1>1, <2>1
  <2>3. Spares(j)
        BY <2>1, <2>2, Markers DEF Spares, Rows
  <2>4. Owns(w)' /\ CopyKept(w)'
        BY <1>2, <1>4, <2>1, GotoKeeps DEF Owns, CopyKept, At
  <2>5. StepOwned(w)'
        BY <1>3, <2>1, <2>2, <2>4, GotoKeeps DEF StepOwned, At
  <2>6. RowOwned(j)'
        BY <1>3, <1>4, <2>1, <2>2 DEF RowOwned, Active
  <2> QED BY <1>1, <1>2, <2>1, <2>3, <2>5, <2>6, GotoKeeps, HandlerStep
<1>6. CASE RolloutRestart(w)
  <2>1. /\ work' = [work EXCEPT ![w].pc = "record", ![w].marker.gen = spec[a] + 1]
        /\ UNCHANGED <<jobs, owner, phase, pod>> /\ At(w, "restart")
        BY <1>6 DEF RolloutRestart
  <2>2. /\ OthersKept(w) /\ work'[w].job = work[w].job /\ work'[w].pc = "record"
        /\ work'[w].marker.app = a
        BY <1>1, <2>1 DEF OthersKept, WorkRow, Marker
  <2>3. Spares(j)
        BY <2>1, Markers DEF Spares, Rows
  <2>4. Owns(w)' /\ CopyKept(w)'
        BY <1>2, <1>3, <1>4, <2>1, <2>2 DEF Owns, CopyKept, At
  <2>5. phase[a] = "restarting"
        BY <1>1, <1>3, <2>1 DEF StepOwned, At
  <2>6. StepOwned(w)'
        BY <2>1, <2>2, <2>4, <2>5 DEF StepOwned, At
  <2>7. RowOwned(j)'
        BY <1>3, <2>1 DEF RowOwned, Active
  <2> QED BY <1>1, <1>2, <2>2, <2>3, <2>6, <2>7, HandlerStep
<1>7. CASE OpenGate(w)
  <2>1. /\ phase' = [phase EXCEPT ![a] = "ready"] /\ Goto(w, "clear")
        /\ UNCHANGED <<jobs, owner, pod>> /\ At(w, "open")
        BY <1>2, <1>4, <1>7 DEF OpenGate, cluster
  <2>2. /\ \A b \in Apps : b # a => phase'[b] = phase[b]
        /\ pod[a].gen >= work[w].marker.gen
        BY <1>1, <1>3, <2>1 DEF StepOwned, At
  <2>3. Spares(j)
        BY <1>4, <2>1, <2>2, Markers DEF Spares, Rows
  <2>4. Owns(w)' /\ CopyKept(w)'
        BY <1>2, <1>4, <2>1, GotoKeeps DEF Owns, CopyKept, At
  <2>5. StepOwned(w)'
        BY <2>1, <2>2, <2>4, GotoKeeps DEF StepOwned, At
  <2>6. RowOwned(j)'
        BY <1>3, <1>4, <2>1, <2>2 DEF RowOwned, Active
  <2> QED BY <1>1, <1>2, <2>1, <2>3, <2>5, <2>6, GotoKeeps, HandlerStep
<1> QED BY <1>5, <1>6, <1>7

\* A row that is added has no marker and leaves the others.
LEMMA RowsAdded ==
    ASSUME IInv, NEW row \in JobRow, row.status = "pending", row.lease = None,
           row.marker = NoMarker, UNCHANGED jobs \/ jobs' = Append(jobs, row)
    PROVE  /\ \A j \in Rows : j \in Rows' /\ jobs'[j] = jobs[j]
           /\ \A j \in Rows' \ Rows : jobs'[j].marker = NoMarker
<1>1. CASE UNCHANGED jobs
      BY <1>1 DEF Rows
<1>2. CASE jobs' = Append(jobs, row)
  <2>1. /\ JobsType' /\ Len(jobs') = Len(jobs) + 1 /\ Len(jobs) \in Nat
        /\ \A i \in 1..Len(jobs) : jobs'[i] = jobs[i]
        /\ jobs'[Len(jobs) + 1] = row
        BY <1>2, AppendRow DEF IInv, TypeOK
  <2>2. Rows = 1..Len(jobs) /\ Rows' = 1..(Len(jobs) + 1)
        BY <2>1, Markers DEF JobsType, Rows
  <2> QED BY <2>1, <2>2
<1> QED BY <1>1, <1>2

LEMMA RowsEnqueued ==
    ASSUME IInv, NEW w \in Workers, NEW exclude, EnqueueIfNeeded(w, exclude)
    PROVE  /\ \A j \in Rows : j \in Rows' /\ jobs'[j] = jobs[j]
           /\ \A j \in Rows' \ Rows : jobs'[j].marker = NoMarker
<1>1. PICK row \in JobRow : row = NewJob("prompt", build[w])
      BY NewJobType DEF IInv, TypeOK, EnvType, Kind
<1>2. row.status = "pending" /\ row.lease = None /\ row.marker = NoMarker
      BY <1>1 DEF NewJob
<1> QED BY <1>1, <1>2, RowsAdded DEF EnqueueIfNeeded

\* Steps of workers that are not, or no longer, in a handler, and of nobody: the jobs
\* that others handle, their apps and their gates are left alone.
LEMMA OwnedAside ==
    ASSUME IInv, IInv', Owned, NEW Out \in SUBSET Workers,
           \A v \in Workers \ Out : work'[v] = work[v],
           \A v \in Out : ~Handling(v)',
           \A j0 \in {0} : Spares(j0)
    PROVE  Owned'
<1> DEFINE Kept == Workers \ Out
<1>1. \A v \in Kept : work'[v] = work[v] /\ (Handling(v) => work[v].job # 0)
      BY Markers DEF Handling
<1>2. Kept \in SUBSET Workers /\ \A v \in Workers \ Kept : StepOwned(v)'
      BY DEF StepOwned
<1>3. 0 \notin Rows' /\ Spares(0)
  <2>1. DOMAIN jobs' = 1..Len(jobs') /\ Len(jobs') \in Nat
        BY DEF IInv, TypeOK, JobsType
  <2> QED BY <2>1 DEF Rows
<1> HIDE DEF Kept
<1> QED BY <1>1, <1>2, <1>3, OwnedStep

\* A worker takes a row, stops, or its process starts.
LEMMA OwnedRuntime ==
    ASSUME IInv, IInv', Owned, NEW w \in Workers,
           \/ StartUp(w) \/ Crash(w) \/ Upgrade(w) \/ LeaseLost(w) \/ AfterFailure(w)
           \/ \E j \in Rows : GetJob(w, j)
    PROVE  Owned'
<1>1. Still
      BY DEF StartUp, Crash, Upgrade, Restart, LeaseLost, AfterFailure, GetJob, Still, cluster
<1>2. work \in [Workers -> WorkRow]
      BY DEF IInv, TypeOK, WorkType
<1>3. /\ \A j \in Rows : j \in Rows' /\ jobs'[j] = jobs[j]
      /\ \A j \in Rows' \ Rows : jobs'[j].marker = NoMarker
  <2>1. CASE UNCHANGED jobs
        BY <2>1 DEF Rows
  <2>2. CASE EnqueueIfNeeded(w, 0)
        BY <2>2, RowsEnqueued
  <2> QED BY <2>1, <2>2 DEF StartUp, Crash, Upgrade, Restart, LeaseLost, AfterFailure, GetJob
<1>4. /\ \A v \in Workers \ {w} : work'[v] = work[v]
      /\ ~Handling(w)' \/ work'[w] = work[w]
  <2>1. CASE UNCHANGED work
        BY <2>1
  <2>2. CASE Stop(w)
        BY <1>2, <2>2 DEF Stop, Handling, Idle
  <2>3. CASE \E j \in Rows : GetJob(w, j)
    <3>1. PICK j \in Rows : GetJob(w, j)
          BY <2>3
    <3>2. /\ work'[w].pc = "claim"
          /\ \A v \in Workers \ {w} : work'[v] = work[v]
          BY <1>2, <3>1 DEF GetJob
    <3> QED BY <3>2 DEF Handling
  <2> QED BY <2>1, <2>2, <2>3 DEF StartUp, Crash, Upgrade, Restart, LeaseLost, AfterFailure
<1>5. \A j0 : Spares(j0)
      BY <1>1, <1>3, Untouched
<1>6. CASE ~Handling(w)'
  <2>1. {w} \in SUBSET Workers
        OBVIOUS
  <2> QED BY <1>4, <1>5, <1>6, <2>1, OwnedAside
<1>7. CASE work'[w] = work[w]
  <2>1. {} \in SUBSET Workers /\ \A v \in Workers \ {} : work'[v] = work[v]
        BY <1>4, <1>7
  <2> QED BY <1>5, <2>1, OwnedAside
<1> QED BY <1>4, <1>6, <1>7

\* The claim: the row was pending, so nobody handles it, and the copy is the row's
\* unless the claim raced.
LEMMA OwnedClaims ==
    ASSUME IInv, IInv', Owned, ~raced', NEW w \in Workers, MarkJobRunning(w)
    PROVE  Owned'
<1>1. PICK j \in Nat : j = work[w].job
      BY Markers DEF MarkJobRunning, At
<1>2. /\ j \in Rows /\ Rows = DOMAIN jobs /\ jobs[j] \in JobRow /\ j # 0
      /\ work \in [Workers -> WorkRow] /\ Still
  <2>1. At(w, "claim") /\ Still
        BY DEF MarkJobRunning, Still, cluster
  <2>2. work \in [Workers -> WorkRow]
        BY DEF IInv, TypeOK, WorkType
  <2>3. j \in Rows /\ jobs[j] \in JobRow /\ Rows = 1..Len(jobs)
        BY <1>1, <2>1, Markers DEF At
  <2> QED BY <2>1, <2>2, <2>3 DEF Rows
<1>3. CASE jobs[j].status = "pending" /\ jobs[j].attempts < MaxAttempts
  <2>1. /\ jobs' = [jobs EXCEPT ![j].status = "running", ![j].lease = w,
                                ![j].attempts = jobs[j].attempts + 1]
        /\ work' = [work EXCEPT ![w].pc = "loop", ![w].attempts = work[w].attempts + 1]
        BY <1>1, <1>2, <1>3 DEF MarkJobRunning, JobRow
  <2>2. jobs[j].marker = work[w].marker
    <3>1. (jobs[j].marker = work[w].marker /\ jobs[j].attempts = work[w].attempts)
          \/ raced' = TRUE
          BY <1>1, <1>3 DEF MarkJobRunning
    <3> QED BY <3>1
  <2>3. /\ OthersKept(w) /\ work'[w].pc = "loop" /\ work'[w].job = j
        /\ work'[w].marker = work[w].marker
        BY <1>1, <1>2, <2>1 DEF OthersKept, WorkRow
  <2>4. /\ Rows' = Rows /\ \A i \in Rows \ {j} : jobs'[i] = jobs[i]
        /\ jobs'[j].status = "running" /\ jobs'[j].lease = w
        /\ jobs'[j].marker = jobs[j].marker
        BY <1>2, <2>1 DEF Rows, JobRow
  <2>5. Spares(j)
        BY <1>2, <2>4, Markers DEF Spares, Still
  <2>6. StepOwned(w)'
        BY <1>2, <2>2, <2>3, <2>4 DEF StepOwned, Owns, CopyKept, At
  <2>7. RowOwned(j)'
        BY <1>2, <1>3, <2>4 DEF Owned, RowOwned, Active, Still
  <2>8. \A v \in Workers \ {w} :
           work'[v] = work[v] /\ (Handling(v) => work[v].job # j)
        BY <1>3, <2>3 DEF OthersKept, Owned, StepOwned, Owns
  <2> DEFINE Kept == Workers \ {w}
  <2>9. Kept \in SUBSET Workers /\ \A v \in Workers \ Kept : StepOwned(v)'
        BY <2>6
  <2>10. \A v \in Kept : work'[v] = work[v] /\ (Handling(v) => work[v].job # j)
        BY <2>8
  <2> HIDE DEF Kept
  <2> QED BY <2>5, <2>7, <2>9, <2>10, OwnedStep
<1>4. CASE ~(jobs[j].status = "pending" /\ jobs[j].attempts < MaxAttempts)
  <2>1. UNCHANGED jobs /\ Stop(w)
        BY <1>1, <1>4 DEF MarkJobRunning
  <2>2. /\ \A v \in Workers \ {w} : work'[v] = work[v]
        /\ \A v \in {w} : ~Handling(v)'
        BY <1>2, <2>1 DEF Stop, Handling, Idle
  <2>3. \A j0 : Spares(j0)
        BY <1>2, <2>1, Untouched DEF Rows
  <2>4. {w} \in SUBSET Workers
        OBVIOUS
  <2> QED BY <2>2, <2>3, <2>4, OwnedAside
<1> QED BY <1>3, <1>4

\* The recovery takes back a row that nobody handles, or the two workers race.
LEMMA OwnedRecovers ==
    ASSUME IInv, IInv', Owned, ~raced', NEW j \in Rows, Recover(j)
    PROVE  Owned'
<1>1. /\ UNCHANGED <<work, owner, phase, pod>> /\ jobs[j].status = "running"
      /\ \A v \in Workers : Owns(v) /\ ~At(v, "claim") => work[v].job # j
      BY DEF Recover, cluster
<1>2. \A v \in Workers : work'[v] = work[v] /\ (Handling(v) => work[v].job # j)
      BY <1>1 DEF Owned, StepOwned, Handling, At
<1>3. Rows = DOMAIN jobs /\ jobs[j] \in JobRow /\ j \in Nat
      BY Markers DEF Rows
<1>4. PICK s : jobs' = [jobs EXCEPT ![j].lease = None, ![j].status = s]
      BY DEF Recover
<1>5. /\ Rows' = Rows /\ \A i \in Rows \ {j} : jobs'[i] = jobs[i]
      /\ jobs'[j].marker = jobs[j].marker
      BY <1>3, <1>4 DEF Rows, JobRow
<1>6. Spares(j)
      BY <1>1, <1>5, Markers DEF Spares
<1>7. RowOwned(j)'
      BY <1>1, <1>5 DEF Owned, RowOwned, Active
<1> QED BY <1>2, <1>6, <1>7, OwnedStep

\* The cluster, the reconciler and the configuration: pods only get newer, and the
\* reconciler opens no gate of an app that an active job owns.
LEMMA OwnedWorld ==
    ASSUME IInv, IInv', Owned,
           \/ UpdateAICCConfig \/ WritePhase
           \/ \E a \in Apps : Bootstrap(a) \/ BecomeAvailable(a) \/ Observe(a)
    PROVE  Owned'
<1>0. EnvType
      BY DEF IInv, TypeOK
<1>1. UNCHANGED work /\ UNCHANGED owner
      BY DEF UpdateAICCConfig, WritePhase, Bootstrap, BecomeAvailable, Observe
<1>2. {} \in SUBSET Workers /\ \A v \in Workers \ {} : work'[v] = work[v]
      BY <1>1
<1>3. ASSUME Spares(0)
      PROVE  Owned'
      BY <1>2, <1>3, OwnedAside
<1>4. CASE UpdateAICCConfig
  <2>1. PICK row \in JobRow : row = NewJob("model", revision + 1)
        BY <1>0, NewJobType DEF EnvType, Kind
  <2>2. row.status = "pending" /\ row.lease = None /\ row.marker = NoMarker
        BY <2>1 DEF NewJob
  <2>3. Still /\ jobs' = Append(jobs, row)
        BY <1>4, <2>1 DEF UpdateAICCConfig, Still, cluster
  <2> QED BY <1>3, <2>2, <2>3, RowsAdded, Untouched
<1>5. CASE WritePhase
  <2>1. UNCHANGED <<jobs, pod>> /\ seen.app \in Apps
        BY <1>0, <1>5 DEF WritePhase, EnvType, cluster
  <2>2. \A a \in Apps : owner[a] # 0 /\ Active(owner[a]) /\ phase[a] = "restarting"
                         => phase'[a] = "restarting"
        BY <1>0, <1>5, <2>1 DEF WritePhase, EnvType
  <2>3. Spares(0)
        BY <1>1, <2>1, <2>2, Markers DEF Spares, Rows
  <2> QED BY <1>3, <2>3
<1>6. CASE \E a \in Apps : BecomeAvailable(a)
  <2>1. PICK a \in Apps : BecomeAvailable(a)
        BY <1>6
  <2>2. /\ pod' = [pod EXCEPT ![a] = boot[a]] /\ pod[a].gen < boot[a].gen
        /\ UNCHANGED <<jobs, phase>>
        BY <2>1 DEF BecomeAvailable
  <2>3. \A b \in Apps : pod'[b].gen >= pod[b].gen
        BY <1>0, <2>2 DEF EnvType
  <2>4. Spares(0)
        BY <1>1, <2>2, <2>3 DEF Spares, Rows
  <2> QED BY <1>3, <2>4
<1>7. CASE \E a \in Apps : Bootstrap(a) \/ Observe(a)
  <2>1. Still /\ UNCHANGED jobs
        BY <1>7 DEF Bootstrap, Observe, Still, cluster
  <2> QED BY <1>3, <2>1, Untouched DEF Rows
<1> QED BY <1>4, <1>5, <1>6, <1>7

\* What has raced stays raced.
LEMMA RacedStays ==
    ASSUME raced, [Next]_vars
    PROVE  raced'
<1>1. ASSUME NEW w \in Workers, Handle(w)
      PROVE  raced'
  <2>1. CASE MarkJobRunning(w)
        BY <2>1 DEF MarkJobRunning, bounds
  <2>2. CASE AfterFailure(w)
        BY <2>2 DEF AfterFailure
  <2>3. CASE ~MarkJobRunning(w) /\ ~AfterFailure(w)
    <3>1. UNCHANGED bounds
          BY <1>1, <2>3 DEF Handle, ReleaseByOwner, Elect, ListPending, ClaimOwnership,
             GetOwnership, PersistMarker, ShutGate, RolloutRestart, PersistGeneration,
             WaitRolloutReady, StampRevision, VerifyPrompt, OpenGate, ClearMarker,
             ReleaseOwnership, BeforeSuccess, MarkJobSucceeded
    <3> QED BY <3>1 DEF bounds
  <2> QED BY <2>1, <2>2, <2>3
<1>2. ASSUME NEW w \in Workers,
             StartUp(w) \/ Fault(w) \/ Crash(w) \/ Upgrade(w) \/ LeaseLost(w)
      PROVE  raced'
      BY <1>2 DEF StartUp, Fault, Crash, Upgrade, Restart, LeaseLost, bounds
<1>3. ASSUME NEW j \in Rows, Recover(j)
      PROVE  raced'
      BY <1>3 DEF Recover, bounds
<1>4. CASE UpdateAICCConfig \/ WritePhase \/ UNCHANGED vars
      BY <1>4 DEF UpdateAICCConfig, WritePhase, vars, bounds
<1>5. ASSUME NEW a \in Apps, Bootstrap(a) \/ BecomeAvailable(a) \/ Observe(a)
      PROVE  raced'
      BY <1>5 DEF Bootstrap, BecomeAvailable, Observe, bounds
<1>6. ASSUME NEW w \in Workers, NEW j \in Rows, GetJob(w, j)
      PROVE  raced'
      BY <1>6 DEF GetJob, bounds
<1> QED BY <1>1, <1>2, <1>3, <1>4, <1>5, <1>6 DEF Next

LEMMA NextOwned ==
    ASSUME IInv, IInv', OwnInv, [Next]_vars
    PROVE  OwnInv'
<1>1. CASE raced
      BY <1>1, RacedStays DEF OwnInv
<1>2. CASE ~raced /\ raced'
      BY <1>2 DEF OwnInv
<1>3. CASE ~raced /\ ~raced'
  <2>0. Owned
        BY <1>3 DEF OwnInv
  <2> SUFFICES Owned'
        BY DEF OwnInv
  <2>1. CASE UNCHANGED vars
        BY <2>0, <2>1 DEF vars, Owned, StepOwned, RowOwned, Handling, Owns, CopyKept, At,
           Active, Rows, cluster
  <2>2. CASE \/ UpdateAICCConfig \/ WritePhase
             \/ \E a \in Apps : Bootstrap(a) \/ BecomeAvailable(a) \/ Observe(a)
        BY <2>0, <2>2, OwnedWorld
  <2>3. CASE \E j \in Rows : Recover(j)
        BY <1>3, <2>0, <2>3, OwnedRecovers
  <2>4. ASSUME NEW w \in Workers,
               \/ StartUp(w) \/ Crash(w) \/ Upgrade(w) \/ LeaseLost(w) \/ AfterFailure(w)
               \/ \E j \in Rows : GetJob(w, j)
        PROVE  Owned'
        BY <2>0, <2>4, OwnedRuntime
  <2>5. ASSUME NEW w \in Workers, Fault(w)
        PROVE  Owned'
    <3>1. /\ Handling(w) /\ Still
          /\ HandlerError(w) \/ (UNCHANGED jobs /\ Stop(w))
          BY <2>5 DEF Fault, Handling, Still, cluster
    <3> QED BY <2>0, <3>1, OwnedFails, OwnedStops
  <2>6. ASSUME NEW w \in Workers, MarkJobSucceeded(w)
        PROVE  Owned'
    <3>1. Handling(w) /\ Still
          BY <2>6 DEF MarkJobSucceeded, At, Handling, Still, cluster
    <3> QED BY <2>0, <2>6, <3>1, OwnedFails
  <2>7. ASSUME NEW w \in Workers, BeforeSuccess(w)
        PROVE  Owned'
    <3>1. /\ Handling(w) /\ Still /\ ~At(w, "record") /\ Goto(w, "finish")
          /\ EnqueueIfNeeded(w, work[w].job)
          BY <2>7 DEF BeforeSuccess, At, Handling, Still, cluster
    <3>2. /\ \A j \in Rows : j \in Rows' /\ jobs'[j] = jobs[j]
          /\ \A j \in Rows' \ Rows : jobs'[j].marker = NoMarker
          BY <3>1, RowsEnqueued
    <3> QED BY <2>0, <3>1, <3>2, GotoKeeps, OwnedGoes DEF At
  <2>8. ASSUME NEW w \in Workers, Handle(w)
        PROVE  Owned'
        BY <1>3, <2>0, <2>4, <2>6, <2>7, <2>8, OwnedClaims, OwnedReads, OwnedOwners,
           OwnedMarkers, OwnedGates DEF Handle
  <2> QED BY <2>1, <2>2, <2>3, <2>4, <2>5, <2>8 DEF Next
<1> QED BY <1>1, <1>2, <1>3

\* As long as no two workers may have run one job at once, each worker in its handler
\* has the lease and the marker of its row, and an active row's marker stands for an
\* app that the row owns and whose gate is shut while its pods restart.
THEOREM Ownership == Spec => []OwnInv
<1>1. Init => OwnInv
      BY DEF Init, OwnInv, Owned, StepOwned, Handling, Idle, Rows
<1>2. IInv /\ IInv' /\ OwnInv /\ [Next]_vars => OwnInv'
      BY NextOwned
<1> QED BY <1>1, <1>2, Inductive, PTL DEF Spec

\* The marker in an active job's payload stands for the app that the job holds in
\* aicc_rollout_app_owners.
THEOREM MarkersOwned == Spec => []MarkerOwned
<1>1. OwnInv => MarkerOwned
      BY DEF OwnInv, Owned, RowOwned, MarkerOwned
<1> QED BY <1>1, Ownership, PTL

\* Visitors are kept out from a recorded restart until its pods are available, across
\* crashes, retries and the reconciler's late writes.
THEOREM GatesShut == Spec => []GateShutUnlessRaced
<1>1. OwnInv => GateShutUnlessRaced
      BY DEF OwnInv, Owned, RowOwned, GateShutUnlessRaced, GateShut
<1> QED BY <1>1, Ownership, PTL
==============================================================================
