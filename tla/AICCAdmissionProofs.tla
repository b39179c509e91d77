------------------------- MODULE AICCAdmissionProofs -------------------------
(***************************************************************************)
(* Proofs about the admission of messages, for any number of sessions,     *)
(* messages and concurrent requests, any capacity and any limit.           *)
(*                                                                         *)
(* What a request has read under its session lock stays true until it      *)
(* inserts (SessionGuarded).  The queue is different: the global lock is   *)
(* taken after the snapshot is opened, so what a request has read of the   *)
(* queue may be old.  EntriesBounded counts the requests that have seen    *)
(* room with the tasks that are there; their sum never grows past what     *)
(* Capacity - 1 tasks and all the requests make.                           *)
(***************************************************************************)
EXTENDS AICCAdmission, FiniteSetTheorems, TLAPS

USE ConstantsAssumption DEF vars

LEMMA InitType == Init => TypeOK
BY DEF Init, TypeOK, Task, PC

\* The variables of a request keep their types when its transaction ends.
LEMMA EndType ==
    ASSUME TypeOK, NEW r \in Request, End(r)
    PROVE  /\ pc' \in [Request -> PC] /\ pc' = [pc EXCEPT ![r] = "idle"]
           /\ msg' \in [Request -> Msg \cup {NoMsg}] /\ msg' = [msg EXCEPT ![r] = NoMsg]
           /\ \A q \in Request : pc'[q] = "idle" <=> msg'[q] = NoMsg
           /\ snap' \in [Request -> Nat] /\ snap' = [snap EXCEPT ![r] = 0]
           /\ sessionLock' \in [Session -> Request \cup {NoRequest}]
           /\ queueLock' \in Request \cup {NoRequest}
           /\ \A q \in Request \ {r} : \A s \in Session :
                  sessionLock[s] = q => sessionLock'[s] = q
BY DEF TypeOK, End, PC

LEMMA CountType == CountActive \in Nat
<1>1. IsFiniteSet(ActiveTasks)
      BY FS_Subset DEF ActiveTasks
<1> QED BY <1>1, FS_CardinalityType DEF CountActive

LEMMA StepType == TypeOK /\ [Next]_vars => TypeOK'
<1> SUFFICES ASSUME TypeOK, [Next]_vars
             PROVE  TypeOK'
    OBVIOUS
<1> USE DEF TypeOK, Task, PC
<1>1. ASSUME NEW r \in Request, NEW m \in Msg, SendMessage(r, m)
      PROVE  TypeOK'
      BY <1>1 DEF SendMessage
<1>2. ASSUME NEW r \in Request, RequestStep(r)
      PROVE  TypeOK'
  <2>1. CASE LockSession(r)
        BY <2>1 DEF LockSession
  <2>2. CASE ReadSession(r)
    <3>1. CASE End(r) /\ UNCHANGED <<task, sends>>
          BY <3>1, EndType
    <3>2. CASE ~End(r)
          BY <2>2, <3>2, CountType DEF ReadSession
    <3> QED BY <2>2, <3>1, <3>2 DEF ReadSession
  <2>3. CASE InsertRefused(r)
        BY <2>3, EndType DEF InsertRefused
  <2>4. CASE LockQueue(r)
        BY <2>4 DEF LockQueue
  <2>5. CASE Admit(r)
        BY <2>5, EndType DEF Admit
  <2>6. CASE Requeue(r)
        BY <2>6, EndType DEF Requeue
  <2> QED BY <1>2, <2>1, <2>2, <2>3, <2>4, <2>5, <2>6 DEF RequestStep
<1>3. ASSUME NEW r \in Request, Rollback(r)
      PROVE  TypeOK'
      BY <1>3, EndType DEF Rollback
<1>4. ASSUME NEW m \in Msg, Settle(m)
      PROVE  TypeOK'
      BY <1>4 DEF Settle
<1>5. CASE UNCHANGED vars
      BY <1>5
<1> QED BY <1>1, <1>2, <1>3, <1>4, <1>5 DEF Next

\* The state of the admission keeps its types (TypeOK).
THEOREM TypeCorrect == Spec => []TypeOK
BY InitType, StepType, PTL DEF Spec

-----------------------------------------------------------------------------
(* The limit of a session.                                                  *)

LEMMA VisitorCount ==
    ASSUME NEW s \in Session
    PROVE  /\ IsFiniteSet(VisitorMessages(s))
           /\ Cardinality(VisitorMessages(s)) \in Nat
<1>1. IsFiniteSet(VisitorMessages(s))
      BY FS_Subset DEF VisitorMessages
<1> QED BY <1>1, FS_CardinalityType

\* A step that inserts no message of a session leaves its messages alone.
LEMMA VisitorSame ==
    ASSUME NEW s \in Session,
           \A m \in Msg : SessionOf[m] = s => (task'[m] = "absent" <=> task[m] = "absent")
    PROVE  VisitorMessages(s)' = VisitorMessages(s)
BY DEF VisitorMessages

\* Inserting a message makes one more.
LEMMA VisitorInserted ==
    ASSUME TypeOK, NEW m \in Msg, task[m] = "absent",
           NEW v \in Task \ {"absent"}, task' = [task EXCEPT ![m] = v],
           NEW s \in Session, s = SessionOf[m]
    PROVE  Cardinality(VisitorMessages(s))' = Cardinality(VisitorMessages(s)) + 1
<1>1. VisitorMessages(s)' = VisitorMessages(s) \cup {m} /\ m \notin VisitorMessages(s)
      BY DEF VisitorMessages, TypeOK
<1>2. Cardinality(VisitorMessages(s) \cup {m}) = Cardinality(VisitorMessages(s)) + 1
      BY <1>1, VisitorCount, FS_AddElement
<1> QED BY <1>1, <1>2

\* When r ends, the others keep what SessionGuarded says of them: nobody but r
\* inserts, and only into the session r has locked.
LEMMA GuardedByOthers ==
    ASSUME TypeOK, SessionGuarded, NEW r \in Request, End(r),
           \A m \in Msg : \/ task'[m] = "absent" <=> task[m] = "absent"
                          \/ m = msg[r] /\ pc[r] = "admit"
    PROVE  SessionGuarded'
<1> SUFFICES ASSUME NEW q \in Request, NEW m \in Msg,
                    msg'[q] = m, pc'[q] \in {"read", "admit"}
             PROVE  /\ sessionLock'[SessionOf[m]] = q
                    /\ pc'[q] = "admit" => /\ task'[m] = "absent"
                                           /\ ~SessionFull(SessionOf[m])'
    BY DEF SessionGuarded
<1> DEFINE s == SessionOf[m]
<1>1. q # r /\ pc'[q] = pc[q] /\ msg[q] = m
      BY EndType DEF TypeOK
<1>2. s \in Session /\ sessionLock[s] = q
      BY <1>1 DEF SessionGuarded
<1>3. sessionLock'[s] = q
      BY <1>1, <1>2, EndType
<1>4. \A x \in Msg : SessionOf[x] = s => (task'[x] = "absent" <=> task[x] = "absent")
      BY <1>1, <1>2 DEF SessionGuarded
<1>5. SessionFull(s)' <=> SessionFull(s)
      BY <1>2, <1>4, VisitorSame DEF SessionFull
<1>6. pc[q] = "admit" => task[m] = "absent" /\ ~SessionFull(s)
      BY <1>1 DEF SessionGuarded
<1> QED BY <1>1, <1>3, <1>4, <1>5, <1>6

LEMMA GuardedStep == TypeOK /\ SessionGuarded /\ [Next]_vars => SessionGuarded'
<1> SUFFICES ASSUME TypeOK, SessionGuarded, [Next]_vars
             PROVE  SessionGuarded'
    OBVIOUS
<1>1. ASSUME UNCHANGED task, \A s \in Session : \A q \in Request :
                 sessionLock[s] = q => sessionLock'[s] = q,
             \A q \in Request : \/ pc'[q] \notin {"read", "admit"}
                                \/ pc'[q] = pc[q] /\ msg'[q] = msg[q]
      PROVE  SessionGuarded'
  <2>1. \A s \in Session : SessionFull(s)' <=> SessionFull(s)
        BY <1>1 DEF SessionFull, VisitorMessages
  <2> SUFFICES ASSUME NEW q \in Request, NEW m \in Msg,
                      msg'[q] = m, pc'[q] \in {"read", "admit"}
               PROVE  /\ sessionLock'[SessionOf[m]] = q
                      /\ pc'[q] = "admit" => /\ task'[m] = "absent"
                                             /\ ~SessionFull(SessionOf[m])'
      BY DEF SessionGuarded
  <2>2. pc'[q] = pc[q] /\ msg[q] = m /\ SessionOf[m] \in Session
        BY <1>1
  <2>3. /\ sessionLock[SessionOf[m]] = q
        /\ pc[q] = "admit" => task[m] = "absent" /\ ~SessionFull(SessionOf[m])
        BY <2>2 DEF SessionGuarded
  <2> QED BY <1>1, <2>1, <2>2, <2>3
<1>2. ASSUME NEW r \in Request, NEW m \in Msg, SendMessage(r, m)
      PROVE  SessionGuarded'
  <2>1. \A q \in Request : \/ pc'[q] \notin {"read", "admit"}
                           \/ pc'[q] = pc[q] /\ msg'[q] = msg[q]
        BY <1>2 DEF SendMessage, TypeOK
  <2> QED BY <1>1, <1>2, <2>1 DEF SendMessage
<1>3. ASSUME NEW r \in Request, RequestStep(r)
      PROVE  SessionGuarded'
  <2>1. CASE LockSession(r)
    <3>1. PICK m \in Msg : m = msg[r]
          BY <2>1 DEF LockSession, TypeOK
    <3>2. \A s \in Session : SessionFull(s)' <=> SessionFull(s)
          BY <2>1 DEF LockSession, SessionFull, VisitorMessages
    <3>3. /\ UNCHANGED <<task, msg>> /\ pc' = [pc EXCEPT ![r] = "read"]
          /\ sessionLock' = [sessionLock EXCEPT ![SessionOf[m]] = r]
          /\ sessionLock[SessionOf[m]] = NoRequest
          BY <2>1, <3>1 DEF LockSession
    <3> SUFFICES ASSUME NEW q \in Request, NEW x \in Msg,
                        msg'[q] = x, pc'[q] \in {"read", "admit"}
                 PROVE  /\ sessionLock'[SessionOf[x]] = q
                        /\ pc'[q] = "admit" => /\ task'[x] = "absent"
                                               /\ ~SessionFull(SessionOf[x])'
        BY DEF SessionGuarded
    <3>4. CASE q = r
          BY <3>1, <3>3, <3>4 DEF TypeOK
    <3>5. CASE q # r
      <4>1. pc[q] = pc'[q] /\ msg[q] = x
            BY <3>3, <3>5 DEF TypeOK
      <4>2. /\ sessionLock[SessionOf[x]] = q
            /\ pc[q] = "admit" => task[x] = "absent" /\ ~SessionFull(SessionOf[x])
            BY <4>1 DEF SessionGuarded
      <4>3. SessionOf[x] \in Session /\ SessionOf[x] # SessionOf[m]
            BY <3>3, <4>2
      <4> QED BY <3>2, <3>3, <4>1, <4>2, <4>3 DEF TypeOK
    <3> QED BY <3>4, <3>5
  <2>2. CASE ReadSession(r)
    <3>1. CASE End(r) /\ UNCHANGED task
          BY <3>1, GuardedByOthers
    <3>2. CASE ~End(r)
      <4>1. PICK m \in Msg : m = msg[r]
            BY <2>2 DEF ReadSession, TypeOK
      <4>2. /\ pc[r] = "read" /\ task[m] = "absent" /\ ~SessionFull(SessionOf[m])
            /\ pc' = [pc EXCEPT ![r] = "admit"] /\ UNCHANGED <<task, sessionLock, msg>>
            BY <2>2, <3>2, <4>1 DEF ReadSession
      <4>3. \A s \in Session : SessionFull(s)' <=> SessionFull(s)
            BY <4>2 DEF SessionFull, VisitorMessages
      <4> SUFFICES ASSUME NEW q \in Request, NEW x \in Msg,
                          msg'[q] = x, pc'[q] \in {"read", "admit"}
                   PROVE  /\ sessionLock'[SessionOf[x]] = q
                          /\ pc'[q] = "admit" => /\ task'[x] = "absent"
                                                 /\ ~SessionFull(SessionOf[x])'
          BY DEF SessionGuarded
      <4>4. msg[q] = x /\ pc[q] \in {"read", "admit"} /\ (q # r => pc[q] = pc'[q])
            BY <4>2 DEF TypeOK
      <4>5. /\ sessionLock[SessionOf[x]] = q
            /\ pc[q] = "admit" => task[x] = "absent" /\ ~SessionFull(SessionOf[x])
            BY <4>4 DEF SessionGuarded
      <4>6. q = r => x = m
            BY <4>1, <4>4
      <4> QED BY <4>2, <4>3, <4>4, <4>5, <4>6
    <3> QED BY <2>2, <3>1, <3>2 DEF ReadSession
  <2>3. CASE InsertRefused(r)
    <3>1. \A m \in Msg : \/ task'[m] = "absent" <=> task[m] = "absent"
                         \/ m = msg[r] /\ pc[r] = "admit"
          BY <2>3 DEF InsertRefused, TypeOK
    <3> QED BY <2>3, <3>1, GuardedByOthers DEF InsertRefused
  <2>4. CASE LockQueue(r)
    <3>1. \A q \in Request : \/ pc'[q] \notin {"read", "admit"}
                             \/ pc'[q] = pc[q] /\ msg'[q] = msg[q]
          BY <2>4 DEF LockQueue, TypeOK
    <3> QED BY <1>1, <2>4, <3>1 DEF LockQueue
  <2>5. CASE Admit(r)
    <3>1. \A m \in Msg : \/ task'[m] = "absent" <=> task[m] = "absent"
                         \/ m = msg[r] /\ pc[r] = "admit"
          BY <2>5 DEF Admit, TypeOK
    <3> QED BY <2>5, <3>1, GuardedByOthers DEF Admit
  <2>6. CASE Requeue(r)
    <3>1. \A m \in Msg : task'[m] = "absent" <=> task[m] = "absent"
          BY <2>6 DEF Requeue, Requeueable, TypeOK
    <3> QED BY <2>6, <3>1, GuardedByOthers DEF Requeue
  <2> QED BY <1>3, <2>1, <2>2, <2>3, <2>4, <2>5, <2>6 DEF RequestStep
<1>4. ASSUME NEW r \in Request, Rollback(r)
      PROVE  SessionGuarded'
      BY <1>4, GuardedByOthers DEF Rollback
<1>5. ASSUME NEW m \in Msg, Settle(m)
      PROVE  SessionGuarded'
  <2>1. \A x \in Msg : task'[x] = "absent" <=> task[x] = "absent"
        BY <1>5 DEF Settle, TypeOK
  <2>2. \A s \in Session : SessionFull(s)' <=> SessionFull(s)
        BY <2>1, VisitorSame DEF SessionFull
  <2> QED BY <1>5, <2>1, <2>2 DEF Settle, SessionGuarded
<1>6. CASE UNCHANGED vars
      BY <1>1, <1>6
<1> QED BY <1>2, <1>3, <1>4, <1>5, <1>6 DEF Next

\* The four things a step can do to the tasks, and what it has checked.
Inserts(m) ==
    /\ task[m] = "absent" /\ ~SessionFull(SessionOf[m])
    /\ \E v \in {"refused", "active"} : task' = [task EXCEPT ![m] = v]
Requeues(m) ==
    /\ task[m] = "failed" /\ ~QueueFull(CountActive)
    /\ task' = [task EXCEPT ![m] = "active"]
Settles(m) ==
    /\ task[m] = "active"
    /\ \E v \in {"completed", "failed"} : task' = [task EXCEPT ![m] = v]

LEMMA TaskStep ==
    ASSUME TypeOK, SessionGuarded, [Next]_vars
    PROVE  \/ UNCHANGED task
           \/ \E m \in Msg : Inserts(m) \/ Requeues(m) \/ Settles(m)
<1>1. ASSUME NEW r \in Request, pc[r] = "admit"
      PROVE  msg[r] \in Msg /\ task[msg[r]] = "absent" /\ ~SessionFull(SessionOf[msg[r]])
  <2>1. PICK m \in Msg : m = msg[r]
        BY <1>1 DEF TypeOK
  <2>2. task[m] = "absent" /\ ~SessionFull(SessionOf[m])
        BY <1>1, <2>1 DEF SessionGuarded
  <2> QED BY <2>1, <2>2
<1>2. ASSUME NEW r \in Request, NEW m \in Msg, SendMessage(r, m)
      PROVE  UNCHANGED task
      BY <1>2 DEF SendMessage
<1>3. ASSUME NEW r \in Request, RequestStep(r)
      PROVE  UNCHANGED task \/ \E m \in Msg : Inserts(m) \/ Requeues(m)
  <2>1. CASE LockSession(r) \/ ReadSession(r) \/ LockQueue(r)
        BY <2>1 DEF LockSession, ReadSession, LockQueue
  <2>2. CASE InsertRefused(r)
        BY <2>2, <1>1 DEF InsertRefused, Inserts
  <2>3. CASE Admit(r)
        BY <2>3, <1>1 DEF Admit, Inserts
  <2>4. CASE Requeue(r)
    <3>1. msg[r] \in Msg
          BY <2>4 DEF Requeue, TypeOK
    <3> QED BY <2>4, <3>1 DEF Requeue, Requeueable, Requeues
  <2> QED BY <1>3, <2>1, <2>2, <2>3, <2>4 DEF RequestStep
<1>4. ASSUME NEW r \in Request, Rollback(r)
      PROVE  UNCHANGED task
      BY <1>4 DEF Rollback
<1>5. ASSUME NEW m \in Msg, Settle(m)
      PROVE  Settles(m)
      BY <1>5 DEF Settle, Settles
<1> QED BY <1>2, <1>3, <1>4, <1>5 DEF Next

LEMMA LimitStep ==
    TypeOK /\ SessionGuarded /\ SessionWithinLimit /\ [Next]_vars => SessionWithinLimit'
<1> SUFFICES ASSUME TypeOK, SessionGuarded, SessionWithinLimit, [Next]_vars,
                    NEW s \in Session
             PROVE  Cardinality(VisitorMessages(s))' <= Limit
    BY DEF SessionWithinLimit
<1>1. Cardinality(VisitorMessages(s)) <= Limit
      BY DEF SessionWithinLimit
<1>2. ASSUME NEW m \in Msg, Inserts(m), s = SessionOf[m]
      PROVE  Cardinality(VisitorMessages(s))' <= Limit
  <2>1. Cardinality(VisitorMessages(s)) < Limit
        BY <1>2, VisitorCount DEF Inserts, SessionFull
  <2>2. PICK v \in {"refused", "active"} : task' = [task EXCEPT ![m] = v]
        BY <1>2 DEF Inserts
  <2>3. v \in Task \ {"absent"}
        BY DEF Task
  <2>4. Cardinality(VisitorMessages(s))' = Cardinality(VisitorMessages(s)) + 1
        BY <1>2, <2>2, <2>3, VisitorInserted DEF Inserts
  <2> QED BY <2>1, <2>4, VisitorCount
<1>3. ASSUME \A m \in Msg : SessionOf[m] = s => (task'[m] = "absent" <=> task[m] = "absent")
      PROVE  Cardinality(VisitorMessages(s))' <= Limit
      BY <1>1, <1>3, VisitorSame
<1>4. CASE UNCHANGED task
      BY <1>3, <1>4
<1>5. ASSUME NEW m \in Msg, Inserts(m), s # SessionOf[m]
      PROVE  Cardinality(VisitorMessages(s))' <= Limit
      BY <1>3, <1>5 DEF Inserts, TypeOK
<1>6. ASSUME NEW m \in Msg, Requeues(m) \/ Settles(m)
      PROVE  Cardinality(VisitorMessages(s))' <= Limit
      BY <1>3, <1>6 DEF Requeues, Settles, TypeOK
<1> QED BY TaskStep, <1>2, <1>4, <1>5, <1>6

LEMMA InitGuarded == Init => SessionGuarded /\ SessionWithinLimit
<1> SUFFICES ASSUME Init
             PROVE  SessionGuarded /\ SessionWithinLimit
    OBVIOUS
<1>1. SessionGuarded
      BY DEF Init, SessionGuarded
<1>2. \A s \in Session : VisitorMessages(s) = {}
      BY DEF Init, VisitorMessages
<1> QED BY <1>1, <1>2, FS_EmptySet DEF SessionWithinLimit

\* Concurrent sends never put more messages into a session than its limit
\* (SessionWithinLimit).
THEOREM SessionsKept == Spec => []SessionWithinLimit
<1> QED BY InitType, StepType, InitGuarded, GuardedStep, LimitStep, PTL DEF Spec

\* No insert meets the unique key of client_message_id (NoDuplicateKey): the lock of
\* the session covers the look-up and the insert.
THEOREM KeysUnique == Spec => []NoDuplicateKey
<1>1. TypeOK /\ SessionGuarded => NoDuplicateKey
      BY DEF TypeOK, SessionGuarded, NoDuplicateKey
<1> QED BY <1>1, InitType, StepType, InitGuarded, GuardedStep, PTL DEF Spec

\* No retry starts an answered message again (AnsweredIsFinal).
THEOREM AnswersKept == Spec => AnsweredIsFinal
<1>1. TypeOK /\ SessionGuarded /\ [Next]_vars =>
        [\A m \in Msg : task[m] \in {"completed", "refused"} => task'[m] = task[m]]_vars
      BY TaskStep DEF Inserts, Requeues, Settles, TypeOK
<1> QED BY <1>1, InitType, StepType, InitGuarded, GuardedStep, PTL DEF Spec, AnsweredIsFinal

-----------------------------------------------------------------------------
(* The capacity of the queue.                                               *)

LEMMA Finite ==
    /\ IsFiniteSet(ActiveTasks)
    /\ \A R \in SUBSET Request :
           /\ IsFiniteSet(R) /\ Cardinality(R) \in Nat
           /\ Cardinality(R) <= Cardinality(Request)
<1>1. IsFiniteSet(ActiveTasks)
      BY FS_Subset DEF ActiveTasks
<1>2. ASSUME NEW R \in SUBSET Request
      PROVE  /\ IsFiniteSet(R) /\ Cardinality(R) \in Nat
             /\ Cardinality(R) <= Cardinality(Request)
      BY FS_Subset, FS_CardinalityType
<1> QED BY <1>1, <1>2

\* A step that starts no task but m makes at most one more; one that starts
\* none makes no more.
LEMMA ActiveGrowth ==
    /\ CountActive \in Nat /\ CountActive' \in Nat
    /\ \A m \in Msg : ActiveTasks' \subseteq ActiveTasks \cup {m}
                        => CountActive' <= CountActive + 1
    /\ ActiveTasks' \subseteq ActiveTasks => CountActive' <= CountActive
<1>1. CountActive \in Nat /\ CountActive' \in Nat
  <2>1. IsFiniteSet(ActiveTasks')
        BY FS_Subset DEF ActiveTasks
  <2> QED BY <2>1, CountType, FS_CardinalityType DEF CountActive
<1>2. ASSUME NEW m \in Msg, ActiveTasks' \subseteq ActiveTasks \cup {m}
      PROVE  CountActive' <= CountActive + 1
  <2>1. /\ IsFiniteSet(ActiveTasks \cup {m})
        /\ Cardinality(ActiveTasks \cup {m}) <= Cardinality(ActiveTasks) + 1
    <3>1. PICK A : A = ActiveTasks /\ IsFiniteSet(A) /\ Cardinality(A) \in Nat
          BY Finite, CountType DEF CountActive
    <3>2. CASE m \in A
      <4>1. A \cup {m} = A
            BY <3>2
      <4>2. Cardinality(A) <= Cardinality(A) + 1
            BY <3>1
      <4> QED BY <3>1, <4>1, <4>2
    <3>3. CASE m \notin A
      <4>1. IsFiniteSet(A \cup {m}) /\ Cardinality(A \cup {m}) = Cardinality(A) + 1
            BY <3>1, <3>3, FS_AddElement
      <4> QED BY <3>1, <4>1
    <3> QED BY <3>2, <3>3
  <2>2. Cardinality(ActiveTasks') <= Cardinality(ActiveTasks \cup {m})
        BY <1>2, <2>1, FS_Subset
  <2>3. Cardinality(ActiveTasks \cup {m}) \in Nat
        BY <2>1, FS_CardinalityType
  <2> QED BY <1>1, <2>1, <2>2, <2>3 DEF CountActive
<1>3. ASSUME ActiveTasks' \subseteq ActiveTasks
      PROVE  CountActive' <= CountActive
      BY <1>3, Finite, FS_Subset DEF CountActive
<1> QED BY <1>1, <1>2, <1>3

\* When r ends it may no longer enter, and nothing changes for the others.
LEMMA EndLeaves ==
    ASSUME TypeOK, NEW r \in Request, End(r)
    PROVE  MayEnter' = MayEnter \ {r}
BY EndType DEF MayEnter, TypeOK

LEMMA EntriesStep == TypeOK /\ SessionGuarded /\ EntriesBounded /\ [Next]_vars
                        => EntriesBounded'
<1> SUFFICES ASSUME TypeOK, SessionGuarded, EntriesBounded, [Next]_vars
             PROVE  EntriesBounded'
    OBVIOUS
<1> DEFINE N == Cardinality(Request)
           C == Cardinality(MayEnter)
<1>1. /\ MayEnter \in SUBSET Request /\ MayEnter' \in SUBSET Request
      /\ C \in Nat /\ C' \in Nat /\ N \in Nat /\ C <= N /\ C' <= N
      BY Finite DEF MayEnter
<1>2. CountActive \in Nat /\ CountActive' \in Nat /\ Capacity \in Nat
      BY ActiveGrowth
<1>3. CountActive + C < Capacity + N
      BY DEF EntriesBounded
<1>4. ASSUME CountActive' + C' <= CountActive + C
      PROVE  EntriesBounded'
      BY <1>1, <1>2, <1>3, <1>4 DEF EntriesBounded
<1>5. ASSUME MayEnter' \subseteq MayEnter, ActiveTasks' \subseteq ActiveTasks
      PROVE  EntriesBounded'
  <2>1. C' <= C
        BY <1>1, <1>5, Finite, FS_Subset
  <2>2. CountActive' <= CountActive
        BY <1>5, ActiveGrowth
  <2> QED BY <1>1, <1>2, <1>4, <2>1, <2>2
<1>6. ASSUME NEW r \in Request, NEW m \in Msg, SendMessage(r, m)
      PROVE  EntriesBounded'
      BY <1>5, <1>6 DEF SendMessage, MayEnter, ActiveTasks, TypeOK
<1>7. ASSUME NEW r \in Request, RequestStep(r)
      PROVE  EntriesBounded'
  <2>1. CASE LockSession(r)
        BY <1>5, <2>1 DEF LockSession, MayEnter, ActiveTasks, TypeOK
  <2>2. CASE ReadSession(r)
    <3>1. ActiveTasks' = ActiveTasks /\ CountActive' = CountActive
          BY <2>2 DEF ReadSession, CountActive, ActiveTasks
    <3>2. CASE End(r)
          BY <1>5, <3>1, <3>2, EndLeaves
    <3>3. CASE ~End(r)
      <4>1. /\ pc[r] = "read" /\ pc' = [pc EXCEPT ![r] = "admit"]
            /\ snap' = [snap EXCEPT ![r] = CountActive]
            BY <2>2, <3>3 DEF ReadSession
      <4>2. CASE CountActive < Capacity
            BY <1>1, <1>2, <3>1, <4>2 DEF EntriesBounded
      <4>3. CASE ~(CountActive < Capacity)
        <5>1. MayEnter' \subseteq MayEnter
              BY <4>1, <4>3 DEF MayEnter, TypeOK
        <5> QED BY <1>5, <3>1, <5>1
      <4> QED BY <4>2, <4>3
    <3> QED BY <3>2, <3>3
  <2>3. CASE InsertRefused(r)
    <3>1. ActiveTasks' \subseteq ActiveTasks
          BY <2>3 DEF InsertRefused, ActiveTasks, TypeOK
    <3> QED BY <1>5, <2>3, <3>1, EndLeaves DEF InsertRefused
  <2>4. CASE LockQueue(r)
        BY <1>5, <2>4 DEF LockQueue, MayEnter, ActiveTasks, TypeOK
  <2>5. CASE Admit(r)
    <3>1. MayEnter' = MayEnter \ {r}
          BY <2>5, EndLeaves DEF Admit
    <3>2. CASE QueueFull(snap[r])
          BY <1>5, <2>5, <3>1, <3>2 DEF Admit, ActiveTasks
    <3>3. CASE ~QueueFull(snap[r])
      <4>1. msg[r] \in Msg /\ task' = [task EXCEPT ![msg[r]] = "active"]
            BY <2>5, <3>3 DEF Admit, TypeOK
      <4>2. ActiveTasks' \subseteq ActiveTasks \cup {msg[r]}
            BY <4>1 DEF ActiveTasks, TypeOK
      <4>3. CountActive' <= CountActive + 1
            BY <4>1, <4>2, ActiveGrowth
      <4>4. r \in MayEnter
            BY <2>5, <3>3 DEF Admit, QueueFull, MayEnter, TypeOK
      <4>5. C' = C - 1
            BY <1>1, <3>1, <4>4, Finite, FS_RemoveElement
      <4> QED BY <1>1, <1>2, <1>4, <4>3, <4>5
    <3> QED BY <3>2, <3>3
  <2>6. CASE Requeue(r)
    <3>1. MayEnter' = MayEnter \ {r}
          BY <2>6, EndLeaves DEF Requeue
    <3>2. CASE QueueFull(CountActive) \/ ~Requeueable(msg[r])
          BY <1>5, <2>6, <3>1, <3>2 DEF Requeue, ActiveTasks
    <3>3. CASE ~(QueueFull(CountActive) \/ ~Requeueable(msg[r]))
      <4>1. msg[r] \in Msg /\ task' = [task EXCEPT ![msg[r]] = "active"]
            BY <2>6, <3>3 DEF Requeue, TypeOK
      <4>2. ActiveTasks' \subseteq ActiveTasks \cup {msg[r]}
            BY <4>1 DEF ActiveTasks, TypeOK
      <4>3. CountActive' <= CountActive + 1
            BY <4>1, <4>2, ActiveGrowth
      <4>4. CountActive < Capacity
            BY <1>2, <3>3 DEF QueueFull
      <4>5. Cardinality(Request \ {r}) = N - 1
            BY FS_RemoveElement
      <4>6. IsFiniteSet(Request \ {r}) /\ MayEnter' \subseteq Request \ {r}
            BY <1>1, <3>1, Finite
      <4>7. C' <= N - 1
            BY <4>5, <4>6, FS_Subset
      <4> QED BY <1>1, <1>2, <4>3, <4>4, <4>7 DEF EntriesBounded
    <3> QED BY <3>2, <3>3
  <2> QED BY <1>7, <2>1, <2>2, <2>3, <2>4, <2>5, <2>6 DEF RequestStep
<1>8. ASSUME NEW r \in Request, Rollback(r)
      PROVE  EntriesBounded'
      BY <1>5, <1>8, EndLeaves DEF Rollback, ActiveTasks
<1>9. ASSUME NEW m \in Msg, Settle(m)
      PROVE  EntriesBounded'
      BY <1>5, <1>9 DEF Settle, ActiveTasks, MayEnter, TypeOK
<1>10. CASE UNCHANGED vars
      BY <1>5, <1>10 DEF ActiveTasks, MayEnter
<1> QED BY <1>6, <1>7, <1>8, <1>9, <1>10 DEF Next

LEMMA InitEntries == Init => EntriesBounded
<1> SUFFICES ASSUME Init
             PROVE  EntriesBounded
    OBVIOUS
<1>1. ActiveTasks = {} /\ MayEnter = {}
      BY DEF Init, ActiveTasks, MayEnter
<1>2. Cardinality(Request) \in Nat
      BY FS_CardinalityType
<1> QED BY <1>1, <1>2, FS_EmptySet DEF EntriesBounded, CountActive

\* The queue is too full by fewer places than there are requests in progress
\* (OvershootBounded).
THEOREM QueueBounded == Spec => []OvershootBounded
<1>1. EntriesBounded => OvershootBounded
  <2>1. CountActive \in Nat /\ Cardinality(MayEnter) \in Nat /\ Cardinality(Request) \in Nat
        BY CountType, Finite DEF MayEnter
  <2> QED BY <2>1 DEF EntriesBounded, OvershootBounded
<1> QED BY <1>1, InitType, StepType, InitGuarded, GuardedStep, InitEntries, EntriesStep,
           PTL DEF Spec

\* A retry never takes the queue past its capacity (RequeueWithinCapacity).
THEOREM RequeueBounded == Spec => RequeueWithinCapacity
<1>1. ASSUME TypeOK, SessionGuarded, [Next]_vars, NEW m \in Msg,
             task[m] = "failed", task'[m] = "active"
      PROVE  CountActive' <= Capacity
  <2>1. Requeues(m)
        BY <1>1, TaskStep DEF Inserts, Requeues, Settles, TypeOK
  <2>2. ActiveTasks' \subseteq ActiveTasks \cup {m}
        BY <1>1, <2>1 DEF Requeues, ActiveTasks, TypeOK
  <2>3. CountActive < Capacity
        BY <2>1, CountType DEF Requeues, QueueFull
  <2> QED BY <2>2, <2>3, ActiveGrowth
<1>2. TypeOK /\ SessionGuarded /\ [Next]_vars =>
        [\A m \in Msg : task[m] = "failed" /\ task'[m] = "active" => CountActive' <= Capacity]_vars
      BY <1>1
<1> QED BY <1>2, InitType, StepType, InitGuarded, GuardedStep, PTL
           DEF Spec, RequeueWithinCapacity
==============================================================================
