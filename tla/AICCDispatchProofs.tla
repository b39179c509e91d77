------------------------- MODULE AICCDispatchProofs -------------------------
(***************************************************************************)
(* Proofs about the dispatcher, for any number of workers, analyzers,      *)
(* sessions and messages, any number of lapsed leases and of retries.      *)
(***************************************************************************)
EXTENDS AICCDispatch, FiniteSetTheorems, TLAPS

USE ConstantsAssumption
    DEF vars, taskVars, intentVars, retryVars, workerVars, history

LEMMA InitType == Init => TypeOK
BY DEF Init, TypeOK, Status, Invite

\* A message in work is a message.
LEMMA CurIsMsg ==
    /\ TypeOK => \A w \in Worker : pc[w] # "idle" => cur[w] \in Msg
    /\ TypeOK => \A a \in Analyzer : apc[a] # "idle" => acur[a] \in Msg
BY DEF TypeOK

LEMMA RestType ==
    ASSUME TypeOK, NEW w \in Worker, Rest(w)
    PROVE  /\ pc' \in [Worker -> {"idle", "leased", "analyzed"}]
           /\ cur' \in [Worker -> Msg \cup {None}]
           /\ \A v \in Worker : pc'[v] = "idle" <=> cur'[v] = None
           /\ offer' \in [Worker -> BOOLEAN]
<1>1. offer' \in [Worker -> BOOLEAN]
      BY Zenon DEF TypeOK, Rest
<1> QED BY <1>1 DEF TypeOK, Rest

LEMMA UpsertType ==
    ASSUME TypeOK, NEW m \in Msg, UpsertIntent(m)
    PROVE  analyzed' \in [Session -> Msg \cup {None}] /\ UNCHANGED <<invite, offeredOn>>
BY DEF TypeOK, UpsertIntent

LEMMA SentCount ==
    /\ IsFiniteSet(Sent) /\ Cardinality(Sent) \in Nat
BY FS_Subset, FS_CardinalityType DEF Sent

LEMMA VisitorType ==
    ASSUME TypeOK, NEW m \in Msg, Send(m) \/ Requeue(m) \/ Recover(m)
    PROVE  TypeOK'
<1>1. CASE Send(m)
      BY <1>1, SentCount DEF Send, TypeOK, Status
<1>2. CASE Requeue(m)
      BY <1>2 DEF Requeue, TypeOK, Status
<1>3. CASE Recover(m)
  <2>1. /\ status' \in [Msg -> Status] /\ token' \in [Msg -> Worker \cup {None}]
        /\ events' \in 0..MaxEvents
        /\ UNCHANGED <<attempts, created, replies, intentVars, retryVars, workerVars,
                       apc, acur, history>>
        BY <1>3 DEF Recover, AfterFailure, TypeOK, Status
  <2> QED BY <2>1 DEF TypeOK
<1> QED BY <1>1, <1>2, <1>3

LEMMA LeaseType ==
    ASSUME TypeOK, NEW m \in Msg, NEW w \in Worker, Lease(w, m)
    PROVE  TypeOK'
<1>1. /\ status' \in [Msg -> Status] /\ token' \in [Msg -> Worker \cup {None}]
      /\ attempts' \in [Msg -> 0..MaxAttempts]
      BY DEF Lease, Ready, TypeOK, Status
<1>2. /\ pc' \in [Worker -> {"idle", "leased", "analyzed"}]
      /\ cur' \in [Worker -> Msg \cup {None}]
      /\ \A v \in Worker : pc'[v] = "idle" <=> cur'[v] = None
      BY DEF Lease, TypeOK
<1> QED BY <1>1, <1>2 DEF Lease, TypeOK

LEMMA WorkerType ==
    ASSUME TypeOK, NEW w \in Worker, WorkerStep(w)
    PROVE  TypeOK'
<1>1. CASE Analyze(w)
  <2>1. cur[w] \in Msg
        BY <1>1, CurIsMsg DEF Analyze
  <2>2. /\ pc' \in [Worker -> {"idle", "leased", "analyzed"}]
        /\ \A v \in Worker : pc'[v] = "idle" <=> cur[v] = None
        BY <1>1 DEF Analyze, TypeOK
  <2>3. offer' \in [Worker -> BOOLEAN]
    <3>1. PICK high \in BOOLEAN :
              offer' = [offer EXCEPT ![w] = high /\ invite[SessionOf[cur[w]]] = "not_invited"]
          BY <1>1, Zenon DEF Analyze
    <3>2. (high /\ invite[SessionOf[cur[w]]] = "not_invited") \in BOOLEAN
          OBVIOUS
    <3> QED BY <3>1, <3>2, Zenon DEF TypeOK
  <2>4. analyzed' \in [Session -> Msg \cup {None}] /\ UNCHANGED <<invite, offeredOn>>
        BY <1>1, <2>1, UpsertType DEF Analyze
  <2>5. UNCHANGED <<taskVars, retryVars, cur, apc, acur, events, history>>
        BY <1>1 DEF Analyze
  <2> QED BY <2>2, <2>3, <2>4, <2>5 DEF TypeOK
<1>2. CASE AnalysisFails(w)
  <2>1. cur[w] \in Msg /\ SessionOf[cur[w]] \in Session
        BY <1>2, CurIsMsg DEF AnalysisFails
  <2>2. /\ pc' \in [Worker -> {"idle", "leased", "analyzed"}]
        /\ \A v \in Worker : pc'[v] = "idle" <=> cur[v] = None
        BY <1>2 DEF AnalysisFails, TypeOK
  <2>3. /\ retryState' \in [Session -> {"none", "pending", "processed"}]
        /\ retryMsg' \in [Session -> Msg \cup {None}]
        /\ retryHolder' \in [Session -> Analyzer \cup {None}]
        /\ \A s \in Session : retryState'[s] # "none" => retryMsg'[s] # None
    <3>1. PICK m \in Msg, s \in Session : m = cur[w] /\ s = SessionOf[m]
          BY <2>1
    <3>2. QueueRetry(s, m) \/ UNCHANGED retryVars
          BY <1>2, <3>1 DEF AnalysisFails
    <3>3. CASE QueueRetry(s, m)
          BY <3>3 DEF QueueRetry, TypeOK
    <3>4. CASE UNCHANGED retryVars
          BY <3>4 DEF TypeOK
    <3> QED BY <3>2, <3>3, <3>4
  <2>4. UNCHANGED <<taskVars, intentVars, cur, offer, apc, acur, events, history>>
        BY <1>2 DEF AnalysisFails
  <2> QED BY <2>2, <2>3, <2>4 DEF TypeOK
<1>3. CASE Commit(w)
  <2>1. PICK m \in Msg : m = cur[w]
        BY <1>3, CurIsMsg DEF Commit
  <2>2. PICK s \in Session : s = SessionOf[m]
        OBVIOUS
  <2>3. \/ /\ replies' = [replies EXCEPT ![m] = @ + 1]
           /\ status' = [status EXCEPT ![m] = "completed"]
           /\ token' = [token EXCEPT ![m] = None]
           /\ invite' = [invite EXCEPT ![s] = "invited"] \/ UNCHANGED invite
           /\ offeredOn' = [offeredOn EXCEPT ![s] = m] \/ UNCHANGED offeredOn
        \/ UNCHANGED <<replies, status, token, invite, offeredOn>>
        BY <1>3, <2>1, <2>2 DEF Commit
  <2>5. /\ status' \in [Msg -> Status] /\ token' \in [Msg -> Worker \cup {None}]
        /\ replies' \in [Msg -> Nat]
    <3>1. CASE /\ replies' = [replies EXCEPT ![m] = @ + 1]
               /\ status' = [status EXCEPT ![m] = "completed"]
               /\ token' = [token EXCEPT ![m] = None]
      <4>1. status' \in [Msg -> Status]
            BY <3>1 DEF TypeOK, Status
      <4>2. token' \in [Msg -> Worker \cup {None}]
            BY <3>1 DEF TypeOK
      <4>3. replies' \in [Msg -> Nat]
            BY <3>1 DEF TypeOK
      <4> QED BY <4>1, <4>2, <4>3
    <3>2. CASE UNCHANGED <<replies, status, token>>
          BY <3>2 DEF TypeOK
    <3> QED BY <2>3, <3>1, <3>2
  <2>6. invite' \in [Session -> Invite] /\ offeredOn' \in [Session -> Msg \cup {None}]
    <3>1. invite' \in [Session -> Invite]
          BY <2>3 DEF TypeOK, Invite
    <3>2. offeredOn' \in [Session -> Msg \cup {None}]
          BY <2>3 DEF TypeOK
    <3> QED BY <3>1, <3>2
  <2>4. Rest(w) /\ UNCHANGED <<attempts, created, analyzed, retryVars, apc, acur,
                               events, history>>
        BY <1>3 DEF Commit
  <2> QED BY <2>4, <2>5, <2>6, RestType DEF TypeOK
<1>4. CASE AttemptFails(w)
  <2>1. PICK m \in Msg : m = cur[w]
        BY <1>4, CurIsMsg DEF AttemptFails
  <2>2. status' \in [Msg -> Status] /\ token' \in [Msg -> Worker \cup {None}]
    <3>1. \/ \E result \in {"failed", "retry_wait"} : /\ status' = [status EXCEPT ![m] = result]
                                                       /\ token' = [token EXCEPT ![m] = None]
          \/ UNCHANGED <<status, token>>
          BY <1>4, <2>1 DEF AttemptFails, AfterFailure
    <3>2. ASSUME NEW result \in {"failed", "retry_wait"},
                 status' = [status EXCEPT ![m] = result], token' = [token EXCEPT ![m] = None]
          PROVE  status' \in [Msg -> Status] /\ token' \in [Msg -> Worker \cup {None}]
      <4>1. status' \in [Msg -> Status]
            BY <3>2 DEF TypeOK, Status
      <4>2. token' \in [Msg -> Worker \cup {None}]
            BY <3>2 DEF TypeOK
      <4> QED BY <4>1, <4>2
    <3>3. CASE UNCHANGED <<status, token>>
          BY <3>3 DEF TypeOK
    <3> QED BY <3>1, <3>2, <3>3
  <2>3. Rest(w) /\ UNCHANGED <<attempts, created, replies, intentVars, retryVars,
                               apc, acur, events, history>>
        BY <1>4 DEF AttemptFails
  <2> QED BY <2>2, <2>3, RestType DEF TypeOK
<1>5. CASE Abandon(w)
      BY <1>5, RestType DEF Abandon, TypeOK
<1> QED BY <1>1, <1>2, <1>3, <1>4, <1>5 DEF WorkerStep, WorkerEnds

LEMMA AnalyzerType ==
    ASSUME TypeOK, NEW a \in Analyzer,
           AnalyzerStep(a) \/ \E s \in Session : ClaimRetry(a, s)
    PROVE  TypeOK'
<1>1. ASSUME NEW s \in Session, ClaimRetry(a, s)
      PROVE  TypeOK'
  <2>1. retryMsg[s] \in Msg
        BY <1>1 DEF ClaimRetry, TypeOK
  <2>2. events' \in 0..MaxEvents
        BY <1>1 DEF ClaimRetry, TypeOK
  <2> QED BY <1>1, <2>1, <2>2 DEF ClaimRetry, TypeOK
<1>2. CASE RetryAnalysis(a)
  <2>1. acur[a] \in Msg
        BY <1>2, CurIsMsg DEF RetryAnalysis
  <2>2. analyzed' \in [Session -> Msg \cup {None}] /\ UNCHANGED <<invite, offeredOn>>
        BY <1>2, <2>1, UpsertType DEF RetryAnalysis
  <2> QED BY <1>2, <2>2 DEF RetryAnalysis, TypeOK
<1>3. CASE Reschedule(a)
      BY <1>3 DEF Reschedule, TypeOK
<1>4. CASE MarkProcessed(a)
  <2>1. PICK s \in Session : s = SessionOf[acur[a]]
        BY <1>4, CurIsMsg DEF MarkProcessed
  <2>2. /\ retryState' = [retryState EXCEPT ![s] = "processed"]
        /\ retryHolder' = [retryHolder EXCEPT ![s] = None]
        /\ retryState[s] = "pending" /\ UNCHANGED retryMsg
        BY <1>4, <2>1 DEF MarkProcessed, Claims
  <2>3. /\ retryState' \in [Session -> {"none", "pending", "processed"}]
        /\ retryHolder' \in [Session -> Analyzer \cup {None}]
        /\ \A x \in Session : retryState'[x] # "none" => retryMsg'[x] # None
        BY <2>2 DEF TypeOK
  <2>4. /\ apc' \in [Analyzer -> {"idle", "claimed", "analyzed", "marked"}]
        /\ \A b \in Analyzer : apc'[b] = "idle" <=> acur[b] = None
        BY <1>4 DEF MarkProcessed, TypeOK
  <2> QED BY <1>4, <2>3, <2>4 DEF MarkProcessed, TypeOK
<1>5. CASE DeleteProcessed(a)
  <2>1. PICK s \in Session : s = SessionOf[acur[a]]
        BY <1>5, CurIsMsg DEF DeleteProcessed
  <2>2. \/ /\ retryState' = [retryState EXCEPT ![s] = "none"]
           /\ retryMsg' = [retryMsg EXCEPT ![s] = None]
        \/ UNCHANGED <<retryState, retryMsg>>
        BY <1>5, <2>1 DEF DeleteProcessed
  <2>3. /\ retryState' \in [Session -> {"none", "pending", "processed"}]
        /\ retryMsg' \in [Session -> Msg \cup {None}]
        /\ \A x \in Session : retryState'[x] # "none" => retryMsg'[x] # None
    <3>1. CASE /\ retryState' = [retryState EXCEPT ![s] = "none"]
               /\ retryMsg' = [retryMsg EXCEPT ![s] = None]
          BY <3>1 DEF TypeOK
    <3>2. CASE UNCHANGED <<retryState, retryMsg>>
          BY <3>2 DEF TypeOK
    <3> QED BY <2>2, <3>1, <3>2
  <2>4. /\ apc' \in [Analyzer -> {"idle", "claimed", "analyzed", "marked"}]
        /\ acur' \in [Analyzer -> Msg \cup {None}]
        /\ \A b \in Analyzer : apc'[b] = "idle" <=> acur'[b] = None
        BY <1>5 DEF DeleteProcessed, TypeOK
  <2> QED BY <1>5, <2>3, <2>4 DEF DeleteProcessed, TypeOK
<1>6. CASE AnalyzerStops(a)
      BY <1>6 DEF AnalyzerStops, TypeOK
<1> QED BY <1>1, <1>2, <1>3, <1>4, <1>5, <1>6 DEF AnalyzerStep

LEMMA StepType == TypeOK /\ [Next]_vars => TypeOK'
<1> SUFFICES ASSUME TypeOK, [Next]_vars
             PROVE  TypeOK'
    OBVIOUS
<1>1. ASSUME NEW s \in Session, Decide(s)
      PROVE  TypeOK'
      BY <1>1 DEF Decide, TypeOK, Invite
<1>2. CASE UNCHANGED vars
      BY <1>2 DEF TypeOK
<1> QED BY <1>1, <1>2, VisitorType, LeaseType, WorkerType, AnalyzerType DEF Next

\* The state of the dispatcher keeps its types (TypeOK).
THEOREM TypeCorrect == Spec => []TypeOK
BY InitType, StepType, PTL DEF Spec
-----------------------------------------------------------------------------
\* What the ways to end an attempt do to a task: only the holder of its lease
\* changes it, and it gives the task up or leaves an attempt.
Fails(m) ==
    /\ status[m] = "processing"
    /\ \E v \in {"retry_wait", "failed"} :
           /\ status' = [status EXCEPT ![m] = v]
           /\ v = "retry_wait" => attempts[m] < MaxAttempts
    /\ UNCHANGED <<attempts, created, replies, invite, seq, again>>

Completes(m) ==
    /\ status[m] = "processing"
    /\ status' = [status EXCEPT ![m] = "completed"]
    /\ replies' = [replies EXCEPT ![m] = @ + 1]
    /\ \/ UNCHANGED invite
       \/ /\ invite[SessionOf[m]] = "not_invited"
          /\ invite' = [invite EXCEPT ![SessionOf[m]] = "invited"]
    /\ UNCHANGED <<attempts, created, seq, again>>

Idles == UNCHANGED <<status, attempts, created, replies, invite, seq, again>>

LEMMA Effects ==
    ASSUME TypeOK, [Next]_vars
    PROVE  \/ Idles
           \/ \E s \in Session : Decide(s)
           \/ \E m \in Msg : \/ Send(m) \/ Requeue(m) \/ Fails(m) \/ Completes(m)
                             \/ \E w \in Worker : Lease(w, m)
<1>1. ASSUME NEW m \in Msg, Recover(m)
      PROVE  Fails(m)
  <2>1. /\ AfterFailure(m) \in {"retry_wait", "failed"}
        /\ AfterFailure(m) = "retry_wait" => attempts[m] < MaxAttempts
        BY DEF AfterFailure, TypeOK
  <2> QED BY <1>1, <2>1 DEF Recover, Fails
<1>2. ASSUME NEW w \in Worker, WorkerStep(w)
      PROVE  Idles \/ \E m \in Msg : Fails(m) \/ Completes(m)
  <2>1. CASE Analyze(w)
        BY <2>1 DEF Analyze, UpsertIntent, Idles
  <2>2. CASE AnalysisFails(w)
        BY <2>2 DEF AnalysisFails, Idles
  <2>3. CASE Commit(w)
    <3>1. PICK m \in Msg, s \in Session : m = cur[w] /\ s = SessionOf[m]
          BY <2>3, CurIsMsg DEF Commit
    <3>2. UNCHANGED <<attempts, created, seq, again>>
          BY <2>3 DEF Commit
    <3>3. CASE UNCHANGED <<replies, status, invite>>
          BY <3>2, <3>3 DEF Idles
    <3>4. CASE ~UNCHANGED <<replies, status, invite>>
      <4>1. /\ status[m] = "processing"
            /\ replies' = [replies EXCEPT ![m] = @ + 1]
            /\ status' = [status EXCEPT ![m] = "completed"]
            BY <2>3, <3>1, <3>4 DEF Commit, Holds
      <4>2. \/ UNCHANGED invite
            \/ /\ invite[s] = "not_invited"
               /\ invite' = [invite EXCEPT ![s] = "invited"]
            BY <2>3, <3>1, <3>4 DEF Commit
      <4> QED BY <3>1, <3>2, <4>1, <4>2 DEF Completes
    <3> QED BY <3>3, <3>4
  <2>4. CASE AttemptFails(w)
    <3>1. PICK m \in Msg : m = cur[w]
          BY <2>4, CurIsMsg DEF AttemptFails
    <3>2. UNCHANGED <<attempts, created, replies, invite, seq, again>>
          BY <2>4 DEF AttemptFails
    <3>3. CASE Holds(w, m)
      <4>1. PICK result \in {AfterFailure(m), "failed"} :
                status' = [status EXCEPT ![m] = result]
            BY <2>4, <3>1, <3>3 DEF AttemptFails
      <4>2. /\ result \in {"retry_wait", "failed"}
            /\ result = "retry_wait" => attempts[m] < MaxAttempts
            BY <4>1 DEF AfterFailure, TypeOK
      <4> QED BY <3>2, <3>3, <4>1, <4>2 DEF Holds, Fails
    <3>4. CASE ~Holds(w, m)
          BY <2>4, <3>1, <3>2, <3>4 DEF AttemptFails, Idles
    <3> QED BY <3>3, <3>4
  <2>5. CASE Abandon(w)
        BY <2>5 DEF Abandon, Idles
  <2> QED BY <1>2, <2>1, <2>2, <2>3, <2>4, <2>5 DEF WorkerStep, WorkerEnds
<1>3. ASSUME NEW a \in Analyzer, AnalyzerStep(a) \/ \E s \in Session : ClaimRetry(a, s)
      PROVE  Idles
      BY <1>3 DEF AnalyzerStep, ClaimRetry, RetryAnalysis, UpsertIntent, Reschedule,
                  MarkProcessed, DeleteProcessed, AnalyzerStops, Idles
<1>4. CASE UNCHANGED vars
      BY <1>4 DEF Idles
<1> QED BY <1>1, <1>2, <1>3, <1>4 DEF Next

-----------------------------------------------------------------------------
\* A message that waits or is still to be sent has an attempt left.
AttemptSpare ==
    \A m \in Msg : status[m] \in Waiting \cup {"absent"} => attempts[m] < MaxAttempts

LEMMA AttemptStep == TypeOK /\ AttemptSpare /\ [Next]_vars => AttemptSpare'
<1> SUFFICES ASSUME TypeOK, AttemptSpare, [Next]_vars,
                    NEW x \in Msg, status'[x] \in Waiting \cup {"absent"}
             PROVE  attempts'[x] < MaxAttempts
    BY DEF AttemptSpare
<1>1. status[x] \in Waiting \cup {"absent"} => attempts[x] < MaxAttempts
      BY DEF AttemptSpare
<1>2. CASE Idles \/ \E s \in Session : Decide(s)
      BY <1>1, <1>2 DEF Idles, Decide
<1>3. ASSUME NEW m \in Msg, Send(m)
      PROVE  attempts'[x] < MaxAttempts
      BY <1>1, <1>3 DEF Send, TypeOK, Waiting
<1>4. ASSUME NEW m \in Msg, Requeue(m)
      PROVE  attempts'[x] < MaxAttempts
      BY <1>1, <1>4 DEF Requeue, TypeOK, Waiting
<1>5. ASSUME NEW m \in Msg, Fails(m)
      PROVE  attempts'[x] < MaxAttempts
      BY <1>1, <1>5 DEF Fails, TypeOK, Waiting
<1>6. ASSUME NEW m \in Msg, Completes(m)
      PROVE  attempts'[x] < MaxAttempts
      BY <1>1, <1>6 DEF Completes, TypeOK, Waiting
<1>7. ASSUME NEW m \in Msg, NEW w \in Worker, Lease(w, m)
      PROVE  attempts'[x] < MaxAttempts
      BY <1>1, <1>7 DEF Lease, TypeOK, Waiting
<1> QED BY Effects, <1>2, <1>3, <1>4, <1>5, <1>6, <1>7

LEMMA ReplyStep == TypeOK /\ OneReply /\ [Next]_vars => OneReply'
<1> SUFFICES ASSUME TypeOK, OneReply, [Next]_vars, NEW x \in Msg
             PROVE  replies'[x] = IF status'[x] = "completed" THEN 1 ELSE 0
    BY DEF OneReply
<1>1. replies[x] = IF status[x] = "completed" THEN 1 ELSE 0
      BY DEF OneReply
<1>2. CASE Idles \/ \E s \in Session : Decide(s)
      BY <1>1, <1>2 DEF Idles, Decide
<1>3. ASSUME NEW m \in Msg, Send(m) \/ Requeue(m) \/ Fails(m)
      PROVE  replies'[x] = IF status'[x] = "completed" THEN 1 ELSE 0
      BY <1>1, <1>3 DEF Send, Requeue, Fails, TypeOK
<1>4. ASSUME NEW m \in Msg, Completes(m)
      PROVE  replies'[x] = IF status'[x] = "completed" THEN 1 ELSE 0
      BY <1>1, <1>4 DEF Completes, TypeOK
<1>5. ASSUME NEW m \in Msg, NEW w \in Worker, Lease(w, m)
      PROVE  replies'[x] = IF status'[x] = "completed" THEN 1 ELSE 0
      BY <1>1, <1>5 DEF Lease, Ready, Waiting, TypeOK
<1> QED BY Effects, <1>2, <1>3, <1>4, <1>5

LEMMA SerialStep == TypeOK /\ SessionSerial /\ [Next]_vars => SessionSerial'
<1> SUFFICES ASSUME TypeOK, SessionSerial, [Next]_vars, NEW x \in Msg, NEW y \in Msg,
                    SessionOf[x] = SessionOf[y],
                    status'[x] = "processing", status'[y] = "processing"
             PROVE  x = y
    BY DEF SessionSerial
<1>1. status[x] = "processing" /\ status[y] = "processing" => x = y
      BY DEF SessionSerial
<1>2. CASE Idles \/ \E s \in Session : Decide(s)
      BY <1>1, <1>2 DEF Idles, Decide
<1>3. ASSUME NEW m \in Msg, Send(m) \/ Requeue(m) \/ Fails(m) \/ Completes(m)
      PROVE  x = y
      BY <1>1, <1>3 DEF Send, Requeue, Fails, Completes, TypeOK
<1>4. ASSUME NEW m \in Msg, NEW w \in Worker, Lease(w, m)
      PROVE  x = y
      BY <1>1, <1>4 DEF Lease, Ready, TypeOK
<1> QED BY Effects, <1>2, <1>3, <1>4

LEMMA InitServed == Init => AttemptSpare /\ OneReply /\ SessionSerial
<1> SUFFICES ASSUME Init
             PROVE  AttemptSpare /\ OneReply /\ SessionSerial
    OBVIOUS
<1>1. \A m \in Msg : status[m] = "absent" /\ attempts[m] = 0 /\ replies[m] = 0
      BY DEF Init
<1>2. 0 < MaxAttempts
      OBVIOUS
<1>3. AttemptSpare
      BY <1>1, <1>2 DEF AttemptSpare
<1>4. OneReply
      BY <1>1 DEF OneReply
<1>5. SessionSerial
      BY <1>1 DEF SessionSerial
<1> QED BY <1>3, <1>4, <1>5

\* A message is answered by exactly one reply (OneReply).
THEOREM RepliedOnce == Spec => []OneReply
<1> QED BY InitType, StepType, InitServed, ReplyStep, PTL DEF Spec

\* No session has two messages in work (SessionSerial).
THEOREM SessionsSerial == Spec => []SessionSerial
<1> QED BY InitType, StepType, InitServed, SerialStep, PTL DEF Spec

\* No waiting message is out of reach of the scans (AttemptLeft).
THEOREM WaitingHasAttempt == Spec => []AttemptLeft
<1>1. AttemptSpare => AttemptLeft
      BY DEF AttemptSpare, AttemptLeft
<1> QED BY <1>1, InitType, StepType, InitServed, AttemptStep, PTL DEF Spec
-----------------------------------------------------------------------------
\* How a step changes the set of the messages that were sent.
LEMMA SentGrows ==
    ASSUME TypeOK, NEW m \in Msg, Send(m)
    PROVE  /\ Sent' = Sent \cup {m} /\ m \notin Sent
           /\ Cardinality(Sent') = Cardinality(Sent) + 1
<1>1. Sent' = Sent \cup {m} /\ m \notin Sent
      BY DEF Send, Sent, TypeOK
<1> QED BY <1>1, SentCount, FS_AddElement

LEMMA SentStays ==
    ASSUME TypeOK,
           \/ Idles \/ \E s \in Session : Decide(s)
           \/ \E m \in Msg : \/ Requeue(m) \/ Fails(m) \/ Completes(m)
                             \/ \E w \in Worker : Lease(w, m)
    PROVE  Sent' = Sent /\ UNCHANGED <<created, seq>>
<1>1. CASE Idles \/ \E s \in Session : Decide(s)
      BY <1>1 DEF Idles, Decide, Sent
<1>2. ASSUME NEW m \in Msg, Requeue(m) \/ Fails(m) \/ Completes(m)
      PROVE  Sent' = Sent /\ UNCHANGED <<created, seq>>
      BY <1>2 DEF Requeue, Fails, Completes, Sent, TypeOK
<1>3. ASSUME NEW m \in Msg, NEW w \in Worker, Lease(w, m)
      PROVE  Sent' = Sent /\ UNCHANGED <<created, seq>>
      BY <1>3 DEF Lease, Ready, Waiting, Sent, TypeOK
<1> QED BY <1>1, <1>2, <1>3

LEMMA OrderStep == TypeOK /\ SentInOrder /\ [Next]_vars => SentInOrder'
<1> SUFFICES ASSUME TypeOK, SentInOrder, [Next]_vars
             PROVE  SentInOrder'
    OBVIOUS
<1>1. ASSUME NEW m \in Msg, Send(m)
      PROVE  SentInOrder'
  <2>1. /\ Sent' = Sent \cup {m} /\ m \notin Sent
        /\ Cardinality(Sent') = Cardinality(Sent) + 1
        BY <1>1, SentGrows
  <2>2. PICK n \in Nat : n = Cardinality(Sent)
        BY SentCount
  <2>3. PICK t \in 0..n : /\ \A x \in Sent : created[x] < t \/ (SameSecond /\ created[x] = t)
                          /\ created' = [created EXCEPT ![m] = t]
        BY <1>1, <2>2 DEF Send
  <2>4. seq' = [seq EXCEPT ![m] = n]
        BY <1>1, <2>2 DEF Send
  <2>5. \A x \in Sent : /\ x \in Msg /\ x # m
                        /\ seq'[x] = seq[x] /\ created'[x] = created[x]
                        /\ seq[x] \in Nat /\ created[x] \in Nat /\ seq[x] < n
        BY <2>1, <2>2, <2>3, <2>4 DEF Sent, TypeOK, SentInOrder
  <2>6. seq'[m] = n /\ created'[m] = t
        BY <2>3, <2>4 DEF TypeOK
  <2>7. \A x \in Sent' : seq'[x] < Cardinality(Sent')
        BY <2>1, <2>2, <2>5, <2>6
  <2>8. ASSUME ~SameSecond, NEW y \in Sent', NEW x \in Sent', seq'[x] < seq'[y]
        PROVE  created'[x] < created'[y]
    <3>1. CASE y = m
          BY <2>1, <2>3, <2>5, <2>6, <2>8, <3>1
    <3>2. CASE y # m
      <4>1. y \in Sent /\ x \in Sent
            BY <2>1, <2>5, <2>6, <2>8, <3>2
      <4> QED BY <2>5, <2>8, <4>1 DEF SentInOrder
    <3> QED BY <3>1, <3>2
  <2> QED BY <2>7, <2>8 DEF SentInOrder
<1>2. ASSUME Sent' = Sent, UNCHANGED <<created, seq>>
      PROVE  SentInOrder'
      BY <1>2 DEF SentInOrder
<1> QED BY Effects, SentStays, <1>1, <1>2

LEMMA LineStep ==
    TypeOK /\ SessionSerial /\ SentInOrder /\ InLine /\ [Next]_vars => InLine'
<1> SUFFICES ASSUME TypeOK, SessionSerial, SentInOrder, InLine, [Next]_vars, ~SameSecond,
                    NEW m \in Msg, NEW x \in Msg \ again', SessionOf[x] = SessionOf[m],
                    status'[m] = "processing", status'[x] \in Unfinished
             PROVE  seq'[x] >= seq'[m]
    BY DEF InLine
<1>1. x \notin again /\ status[m] = "processing" /\ status[x] \in Unfinished
          => seq[x] >= seq[m]
      BY DEF InLine
<1>2. CASE Idles \/ \E s \in Session : Decide(s)
      BY <1>1, <1>2 DEF Idles, Decide
<1>3. ASSUME NEW y \in Msg, Send(y)
      PROVE  seq'[x] >= seq'[m]
  <2>1. m # y /\ status[m] = "processing" /\ m \in Sent /\ UNCHANGED again
        BY <1>3 DEF Send, TypeOK, Sent
  <2>2. seq'[m] = seq[m] /\ seq[m] < Cardinality(Sent)
        BY <1>3, <2>1 DEF Send, TypeOK, SentInOrder
  <2>3. CASE x = y
        BY <1>3, <2>2, <2>3, SentCount DEF Send, TypeOK
  <2>4. CASE x # y
        BY <1>1, <1>3, <2>1, <2>2, <2>4 DEF Send, TypeOK
  <2> QED BY <2>3, <2>4
<1>4. ASSUME NEW y \in Msg, Requeue(y)
      PROVE  seq'[x] >= seq'[m]
      BY <1>1, <1>4 DEF Requeue, TypeOK
<1>5. ASSUME NEW y \in Msg, Fails(y) \/ Completes(y)
      PROVE  seq'[x] >= seq'[m]
      BY <1>1, <1>5 DEF Fails, Completes, Unfinished, TypeOK
<1>6. ASSUME NEW y \in Msg, NEW w \in Worker, Lease(w, y)
      PROVE  seq'[x] >= seq'[m]
  <2>1. /\ status' = [status EXCEPT ![y] = "processing"]
        /\ UNCHANGED <<created, seq, again>>
        /\ status[y] \in Waiting
        BY <1>6 DEF Lease, Ready
  <2>2. \A z \in Msg : SessionOf[z] = SessionOf[y] => status[z] # "processing"
        BY <1>6 DEF Lease, Ready
  <2>3. \A z \in Msg : Before(z, y) => status[z] \notin Unfinished
        BY <1>6 DEF Lease, Ready
  <2>4. CASE m # y
    <3>1. status[m] = "processing" /\ x # y
          BY <2>1, <2>2, <2>4 DEF TypeOK
    <3>2. status[x] \in Unfinished
          BY <2>1, <3>1 DEF TypeOK
    <3> QED BY <1>1, <2>1, <3>1, <3>2
  <2>5. CASE m = y /\ x # y
    <3>1. status[x] \in Unfinished
          BY <2>1, <2>5 DEF TypeOK
    <3>2. x \in Sent /\ m \in Sent
          BY <2>1, <2>5, <3>1 DEF Sent, Unfinished, Waiting
    <3>3. ~(created[x] < created[m])
          BY <2>3, <2>5, <3>1 DEF Before
    <3>4. ~(seq[x] < seq[m])
          BY <3>2, <3>3 DEF SentInOrder
    <3> QED BY <2>1, <3>4 DEF TypeOK
  <2>6. CASE m = y /\ x = y
        BY <2>1, <2>6 DEF TypeOK
  <2> QED BY <2>4, <2>5, <2>6
<1> QED BY Effects, <1>2, <1>3, <1>4, <1>5, <1>6

LEMMA InitOrder == Init => SentInOrder /\ InLine
<1> SUFFICES ASSUME Init
             PROVE  SentInOrder /\ InLine
    OBVIOUS
<1>1. Sent = {} /\ \A m \in Msg : status[m] = "absent"
      BY DEF Init, Sent
<1> QED BY <1>1 DEF SentInOrder, InLine

-----------------------------------------------------------------------------
\* The refinement: every step is one of AICCConversation, or none.
LEMMA InitMaps == Init => Conversation!Init
<1> SUFFICES ASSUME Init
             PROVE  Conversation!Init
    OBVIOUS
<1>1. \A m \in Msg : VisitorState(m) = "unsent"
      BY DEF Init, VisitorState, Unfinished, Waiting
<1> QED BY <1>1 DEF Init, Conversation!Init

LEMMA SendMaps ==
    ASSUME TypeOK, SentInOrder, NEW m \in Msg, Send(m)
    PROVE  Conversation!Send(m)
<1> DEFINE view == [x \in Msg |-> VisitorState(x)]
<1>1. \A x \in Msg : status'[x] = IF x = m THEN "queued" ELSE status[x]
      BY DEF Send, TypeOK
<1>2. view' = [view EXCEPT ![m] = "waiting"] /\ view[m] = "unsent"
  <2>1. \A x \in Msg : VisitorState(x)' = IF x = m THEN "waiting" ELSE VisitorState(x)
        BY <1>1 DEF VisitorState, Unfinished, Waiting
  <2>2. VisitorState(m) = "unsent"
        BY DEF Send, VisitorState, Unfinished, Waiting
  <2> QED BY <2>1, <2>2
<1>3. \A x \in Msg : view[x] # "unsent" => x \in Sent /\ x # m
      BY DEF Send, VisitorState, Unfinished, Waiting, Sent
<1>4. \A x \in Sent : x # m => seq[x] < seq'[m]
      BY SentCount DEF Send, SentInOrder, TypeOK
<1>5. \A x \in Msg \ {m} : seq'[x] = seq[x]
      BY DEF Send, TypeOK
<1>6. UNCHANGED <<replies, again, invite>>
      BY DEF Send
<1> HIDE DEF view
<1> QED BY <1>2, <1>3, <1>4, <1>5, <1>6 DEF Conversation!Send, Conversation!Sent, view

LEMMA AnswerMaps ==
    ASSUME TypeOK, ~SameSecond, InLine, NEW m \in Msg, Completes(m)
    PROVE  Conversation!Answer(m)
<1> DEFINE view == [x \in Msg |-> VisitorState(x)]
<1>1. \A x \in Msg : status'[x] = IF x = m THEN "completed" ELSE status[x]
      BY DEF Completes, TypeOK
<1>2. view' = [view EXCEPT ![m] = "answered"] /\ view[m] = "waiting"
  <2>1. \A x \in Msg : VisitorState(x)' = IF x = m THEN "answered" ELSE VisitorState(x)
        BY <1>1 DEF VisitorState, Unfinished, Waiting
  <2>2. VisitorState(m) = "waiting"
        BY DEF Completes, VisitorState, Unfinished
  <2> QED BY <2>1, <2>2
<1>3. \A x \in Msg : view[x] = "waiting" => status[x] \in Unfinished
      BY DEF VisitorState
<1>4. Conversation!NextInLine(m)
      BY <1>3 DEF Conversation!NextInLine, InLine, Completes
<1> HIDE DEF view
<1> QED BY <1>2, <1>4 DEF Conversation!Answer, Completes, view

LEMMA FailureMaps ==
    ASSUME TypeOK, NEW m \in Msg, Fails(m)
    PROVE  Conversation!GiveUp(m) \/ UNCHANGED Conversation!vars
<1> DEFINE view == [x \in Msg |-> VisitorState(x)]
<1>1. PICK v \in {"retry_wait", "failed"} :
          \A x \in Msg : status'[x] = IF x = m THEN v ELSE status[x]
      BY DEF Fails, TypeOK
<1>2. view[m] = "waiting" /\ UNCHANGED <<replies, seq, again, invite>>
      BY DEF Fails, VisitorState, Unfinished
<1>3. CASE v = "failed"
  <2>1. view' = [view EXCEPT ![m] = "failed"]
    <3>1. \A x \in Msg : VisitorState(x)' = IF x = m THEN "failed" ELSE VisitorState(x)
          BY <1>1, <1>3 DEF VisitorState, Unfinished, Waiting
    <3> QED BY <3>1
  <2> HIDE DEF view
  <2> QED BY <1>2, <2>1 DEF Conversation!GiveUp, view
<1>4. CASE v = "retry_wait"
  <2>1. view' = view
    <3>1. status[m] \in Unfinished
          BY DEF Fails, Unfinished
    <3>2. \A x \in Msg : VisitorState(x)' = VisitorState(x)
          BY <1>1, <1>4, <3>1 DEF VisitorState, Unfinished, Waiting
    <3> QED BY <3>2
  <2> QED BY <1>2, <2>1 DEF Conversation!vars
<1> QED BY <1>3, <1>4

LEMMA RetryMaps ==
    ASSUME TypeOK, NEW m \in Msg, Requeue(m)
    PROVE  Conversation!Retry(m)
<1> DEFINE view == [x \in Msg |-> VisitorState(x)]
<1>1. \A x \in Msg : status'[x] = IF x = m THEN "queued" ELSE status[x]
      BY DEF Requeue, TypeOK
<1>2. view' = [view EXCEPT ![m] = "waiting"] /\ view[m] = "failed"
  <2>1. \A x \in Msg : VisitorState(x)' = IF x = m THEN "waiting" ELSE VisitorState(x)
        BY <1>1 DEF VisitorState, Unfinished, Waiting
  <2>2. VisitorState(m) = "failed"
        BY DEF Requeue, VisitorState, Unfinished, Waiting
  <2> QED BY <2>1, <2>2
<1>3. again' = again \cup {m} /\ UNCHANGED <<replies, seq, invite>>
      BY DEF Requeue
<1> HIDE DEF view
<1> QED BY <1>2, <1>3 DEF Conversation!Retry, view

LEMMA StepMaps ==
    ASSUME TypeOK, ~SameSecond, SentInOrder, InLine, [Next]_vars
    PROVE  [Conversation!Next]_(Conversation!vars)
<1>1. CASE Idles
      BY <1>1 DEF Idles, VisitorState, Conversation!vars
<1>2. ASSUME NEW s \in Session, Decide(s)
      PROVE  Conversation!Decide(s)
      BY <1>2 DEF Decide, VisitorState, Conversation!Decide
<1>3. ASSUME NEW m \in Msg, NEW w \in Worker, Lease(w, m)
      PROVE  UNCHANGED Conversation!vars
  <2>1. \A x \in Msg : status'[x] = IF x = m THEN "processing" ELSE status[x]
        BY <1>3 DEF Lease, TypeOK
  <2>2. \A x \in Msg : VisitorState(x)' = VisitorState(x)
        BY <1>3, <2>1 DEF Lease, Ready, VisitorState, Unfinished
  <2> QED BY <1>3, <2>2 DEF Lease, Conversation!vars
<1> QED BY Effects, SendMaps, AnswerMaps, FailureMaps, RetryMaps, <1>1, <1>2, <1>3
        DEF Conversation!Next

\* When no two messages are created in the same second, the dispatcher
\* implements AICCConversation (ConversationKept): one answer per message, in
\* the order of sending, and an invitation is spent with an answer.
THEOREM ConversationImplemented ==
    ASSUME ~SameSecond
    PROVE  Spec => ConversationKept
<1>1. TypeOK /\ SessionSerial /\ SentInOrder /\ InLine /\ [Next]_vars
          => [Conversation!Next]_(Conversation!vars)
      BY StepMaps
<1> QED BY <1>1, InitMaps, InitType, StepType, InitServed, SerialStep, InitOrder, OrderStep,
           LineStep, PTL DEF Spec, ConversationKept, Conversation!Spec
=============================================================================
