---------------------------- MODULE AICCAdmission ----------------------------
(***************************************************************************)
(* How the public customer-service API (AICC) admits a visitor's message:  *)
(* AICCPublicService.SendMessage with its two transactions, the insert of  *)
(* a new message with its task, and the requeue of a failed task when the  *)
(* visitor sends the same client_message_id again.                         *)
(*                                                                         *)
(* The transactions run at MySQL's default isolation, REPEATABLE READ      *)
(* (Store.WithTx opens them with no options): a locking read sees the      *)
(* last committed rows, but the first plain SELECT opens a snapshot that   *)
(* every later plain SELECT of the transaction reads.  The session lock    *)
(* and the global queue lock are rows locked FOR UPDATE; a commit or a     *)
(* rollback releases them.                                                 *)
(*                                                                         *)
(* A message is named by its session and client_message_id.  Whatever the  *)
(* dispatcher does to a task is the one action Settle.                     *)
(***************************************************************************)
EXTENDS Naturals, FiniteSets

CONSTANTS
    Request,    \* calls of SendMessage in progress at the same time
    Session,    \* visitor sessions
    Msg,        \* client_message_ids, of all sessions
    SessionOf,  \* the session a client_message_id belongs to
    Refused,    \* messages answered locally, without a task
    Capacity,   \* AICCPublicService.queueCapacity
    Limit,      \* message_limit_per_session
    MaxSends,   \* bound on the calls of SendMessage
    NoMsg, NoRequest

ASSUME ConstantsAssumption ==
    /\ IsFiniteSet(Request) /\ Request # {}
    /\ IsFiniteSet(Msg) /\ NoMsg \notin Msg
    /\ NoRequest \notin Request
    /\ SessionOf \in [Msg -> Session]
    /\ Refused \subseteq Msg
    /\ Capacity \in Nat \ {0}
    /\ Limit \in Nat
    /\ MaxSends \in Nat

VARIABLES
    task,           \* aicc_messages and aicc_message_tasks, by message
    sessionLock,    \* who holds the row lock of a session
    queueLock,      \* who holds aicc_queue_governance
    pc, msg,        \* of a request: where it is, the message it carries
    snap,           \* what its snapshot counts as active tasks
    sends

vars == <<task, sessionLock, queueLock, pc, msg, snap, sends>>

\* "refused" is a message without a task; Settle merges queued, processing
\* and retry_wait, which hold a place in the queue alike.
Task == {"absent", "refused", "active", "completed", "failed"}
PC   == {"idle", "insert", "read", "admit", "requeue", "requeueLocked"}

ActiveTasks       == {m \in Msg : task[m] = "active"}
CountActive       == Cardinality(ActiveTasks)
VisitorMessages(s) == {m \in Msg : SessionOf[m] = s /\ task[m] # "absent"}

Init ==
    /\ task = [m \in Msg |-> "absent"]
    /\ sessionLock = [s \in Session |-> NoRequest]
    /\ queueLock = NoRequest
    /\ pc = [r \in Request |-> "idle"]
    /\ msg = [r \in Request |-> NoMsg]
    /\ snap = [r \in Request |-> 0]
    /\ sends = 0

-----------------------------------------------------------------------------
(* Plausible mistakes in the operators below.                               *)

\* The global lock is not released.
EndKeepsQueueLock(r) ==
    /\ pc' = [pc EXCEPT ![r] = "idle"]
    /\ msg' = [msg EXCEPT ![r] = NoMsg]
    /\ snap' = [snap EXCEPT ![r] = 0]
    /\ sessionLock' = [s \in Session |->
                         IF sessionLock[s] = r THEN NoRequest ELSE sessionLock[s]]
    /\ UNCHANGED queueLock

\* The session is full one message too late.
SessionFullLate(s) == Cardinality(VisitorMessages(s)) > Limit

\* The queue is full one task too late.
QueueFullLate(n) == n > Capacity

\* The UPDATE of the requeue has no condition on the status.
RequeueableAny(m) == m \in Msg

-----------------------------------------------------------------------------
\* The transaction of r ends: its locks are released and its snapshot closed.
End(r) ==
    /\ pc' = [pc EXCEPT ![r] = "idle"]
    /\ msg' = [msg EXCEPT ![r] = NoMsg]
    /\ snap' = [snap EXCEPT ![r] = 0]
    /\ sessionLock' = [s \in Session |->
                         IF sessionLock[s] = r THEN NoRequest ELSE sessionLock[s]]
    /\ queueLock' = IF queueLock = r THEN NoRequest ELSE queueLock

\* ensureMessageLimit, the admission check, and the condition of
\* RequeueFailedAICCMessageTask.
SessionFull(s) == Cardinality(VisitorMessages(s)) >= Limit
QueueFull(n)   == n >= Capacity
Requeueable(m) == task[m] = "failed"

\* SendMessage first looks the message up outside a transaction: unknown, it
\* is inserted; failed, it is requeued; otherwise its task is the answer.
SendMessage(r, m) ==
    /\ pc[r] = "idle" /\ sends < MaxSends
    /\ task[m] \in {"absent", "failed"}
    /\ pc' = [pc EXCEPT ![r] = IF task[m] = "absent" THEN "insert" ELSE "requeue"]
    /\ msg' = [msg EXCEPT ![r] = m]
    /\ sends' = sends + 1
    /\ UNCHANGED <<task, sessionLock, queueLock, snap>>

LockSession(r) ==
    /\ pc[r] = "insert"
    /\ sessionLock[SessionOf[msg[r]]] = NoRequest
    /\ sessionLock' = [sessionLock EXCEPT ![SessionOf[msg[r]]] = r]
    /\ pc' = [pc EXCEPT ![r] = "read"]
    /\ UNCHANGED <<task, queueLock, msg, snap, sends>>

\* The first plain SELECTs: the message again, under the lock this time, and
\* the number of the session's messages.  They open the snapshot.
ReadSession(r) ==
    /\ pc[r] = "read"
    /\ IF task[msg[r]] # "absent" \/ SessionFull(SessionOf[msg[r]])
       THEN End(r)
       ELSE /\ pc' = [pc EXCEPT ![r] = "admit"]
            /\ snap' = [snap EXCEPT ![r] = CountActive]
            /\ UNCHANGED <<sessionLock, queueLock, msg>>
    /\ UNCHANGED <<task, sends>>

\* A message that needs no task is inserted without asking for a place.
InsertRefused(r) ==
    /\ pc[r] = "admit" /\ msg[r] \in Refused
    /\ task' = [task EXCEPT ![msg[r]] = "refused"]
    /\ End(r)
    /\ UNCHANGED sends

LockQueue(r) ==
    /\ queueLock = NoRequest
    /\ \/ pc[r] = "admit" /\ msg[r] \notin Refused /\ UNCHANGED pc
       \/ pc[r] = "requeue" /\ pc' = [pc EXCEPT ![r] = "requeueLocked"]
    /\ queueLock' = r
    /\ UNCHANGED <<task, sessionLock, msg, snap, sends>>

\* Under the global lock, the count of active tasks decides.  It is a plain
\* SELECT and reads the snapshot opened before the lock was waited for.
Admit(r) ==
    /\ pc[r] = "admit" /\ queueLock = r
    /\ task' = IF QueueFull(snap[r]) THEN task
               ELSE [task EXCEPT ![msg[r]] = "active"]
    /\ End(r)
    /\ UNCHANGED sends

\* The count is the first plain SELECT of the requeue: it opens the snapshot
\* after the lock was taken.  The UPDATE only finds a task that is failed.
Requeue(r) ==
    /\ pc[r] = "requeueLocked"
    /\ task' = IF QueueFull(CountActive) \/ ~Requeueable(msg[r]) THEN task
               ELSE [task EXCEPT ![msg[r]] = "active"]
    /\ End(r)
    /\ UNCHANGED sends

\* A statement fails, the client disconnects, or the process dies.
Rollback(r) ==
    /\ pc[r] # "idle"
    /\ End(r)
    /\ UNCHANGED <<task, sends>>

\* The dispatcher completes or fails a task; that needs no lock held here.
Settle(m) ==
    /\ task[m] = "active"
    /\ \E result \in {"completed", "failed"} : task' = [task EXCEPT ![m] = result]
    /\ UNCHANGED <<sessionLock, queueLock, pc, msg, snap, sends>>

RequestStep(r) ==
    \/ LockSession(r) \/ ReadSession(r) \/ InsertRefused(r)
    \/ LockQueue(r) \/ Admit(r) \/ Requeue(r)

Next ==
    \/ \E r \in Request : \/ \E m \in Msg : SendMessage(r, m)
                          \/ RequestStep(r) \/ Rollback(r)
    \/ \E m \in Msg : Settle(m)

Spec == Init /\ [][Next]_vars

\* A request is a goroutine that goes on until it has answered, and InnoDB
\* grants a row lock to each waiter in turn.
Fairness ==
    \A r \in Request :
        /\ WF_vars(ReadSession(r) \/ InsertRefused(r) \/ Admit(r) \/ Requeue(r))
        /\ SF_vars(LockSession(r)) /\ SF_vars(LockQueue(r))

FairSpec == Spec /\ Fairness
-----------------------------------------------------------------------------
\* Types; a request carries a message exactly while it is in progress.
TypeOK ==
    /\ task \in [Msg -> Task]
    /\ sessionLock \in [Session -> Request \cup {NoRequest}]
    /\ queueLock \in Request \cup {NoRequest}
    /\ pc \in [Request -> PC]
    /\ msg \in [Request -> Msg \cup {NoMsg}]
    /\ \A r \in Request : pc[r] = "idle" <=> msg[r] = NoMsg
    /\ snap \in [Request -> Nat]
    /\ sends \in 0..MaxSends

\* A request that reads or writes the messages of a session holds its lock.
\* What it read there stays true: its message is new, the session has room.
SessionGuarded ==
    \A r \in Request, m \in Msg :
        msg[r] = m =>
            /\ pc[r] \in {"read", "admit"} => sessionLock[SessionOf[m]] = r
            /\ pc[r] = "admit" => task[m] = "absent" /\ ~SessionFull(SessionOf[m])

\* The requests that have seen room in the queue and may still take a place.
MayEnter == {r \in Request : pc[r] = "admit" /\ snap[r] < Capacity}

\* The tasks in the queue and those that may still enter it.
EntriesBounded ==
    CountActive + Cardinality(MayEnter) < Capacity + Cardinality(Request)

\* "The global capacity is decided by the row lock in the MySQL transaction
\* and the state of the tasks" (cmd/server/main.go:294), but the snapshot that
\* counts the tasks is older than the lock.  What the code does ensure: requests
\* that opened their snapshot while there was room may all get in, so the queue
\* is full by at most one place less than there are requests in progress.
OvershootBounded == CountActive <= Capacity + Cardinality(Request) - 1

\* A visitor's retry of a failed task cannot pass the limit of the queue
\* (requeueFailedTaskWithAdmission), even among concurrent inserts.
RequeueWithinCapacity ==
    [][\A m \in Msg : task[m] = "failed" /\ task'[m] = "active" =>
            CountActive' <= Capacity]_vars

\* Concurrent sends of one session never exceed message_limit_per_session.
SessionWithinLimit ==
    \A s \in Session : Cardinality(VisitorMessages(s)) <= Limit

\* A message sent twice at the same time is inserted once, and the second
\* request never runs into the unique key on (session, client_message_id).
NoDuplicateKey ==
    \A r \in Request : pc[r] = "admit" => task[msg[r]] = "absent"

\* An answered message stays answered: of several retries of a failed task
\* that raced each other, none starts it again after it was completed.
AnsweredIsFinal ==
    [][\A m \in Msg : task[m] \in {"completed", "refused"} => task'[m] = task[m]]_vars

\* No request waits for ever for a lock.
EveryRequestAnswers ==
    \A r \in Request : pc[r] # "idle" ~> pc[r] = "idle"
==============================================================================
