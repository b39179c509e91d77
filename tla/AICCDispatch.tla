---------------------------- MODULE AICCDispatch ----------------------------
(***************************************************************************)
(* How the manager answers the customer-service messages it has accepted:  *)
(* MessageDispatchLoop scans the tasks in MySQL, AICCDispatcher leases one *)
(* and works on it (analyse the visitor's intent, ask the Hermes runtime   *)
(* for the reply, store reply and completion in one transaction), and a    *)
(* second, smaller queue repeats the analyses of intent that failed.       *)
(*                                                                         *)
(* A Worker is a goroutine started by tryDispatch, an Analyzer the part of *)
(* a replica's Tick that repeats analyses; both may be in any replica.  A  *)
(* lease is named by the process that took it, as its random token is.     *)
(*                                                                         *)
(* Time appears as what it permits: a lease runs out when its holder is    *)
(* gone, or while a holder is stalled or cannot renew it; a scan that      *)
(* comes too early finds nothing, so run_after is only a delay.  The Redis *)
(* signal selects among the tasks the same scan has found; that and an     *)
(* open circuit are a Lease not taken yet.                                 *)
(***************************************************************************)
EXTENDS Naturals, FiniteSets

CONSTANTS
    Worker, Analyzer,
    Session,
    Msg,          \* accepted visitor messages that need an answer
    SessionOf,
    Rank,         \* order of the messages' random ids
    SameSecond,   \* may two messages be created in one second?
    MaxAttempts,  \* aicc_message_tasks.max_attempts
    MaxEvents,    \* bound on leases that run out under a living holder and on the
                  \* visitors' retries of failed messages, together
    None

ASSUME ConstantsAssumption ==
    /\ IsFiniteSet(Msg)
    /\ None \notin Worker \cup Analyzer \cup Msg
    /\ SessionOf \in [Msg -> Session]
    /\ Rank \in [Msg -> Nat]
    /\ \A m, x \in Msg : Rank[m] = Rank[x] => m = x
    /\ SameSecond \in BOOLEAN
    /\ MaxAttempts \in Nat \ {0}
    /\ MaxEvents \in Nat

VARIABLES
    status, attempts, token,    \* aicc_message_tasks
    created,                    \* aicc_messages.created_at, in seconds
    replies,                    \* assistant messages in reply to a message
    invite, analyzed,           \* aicc_session_intents: invite_status and
                                \* analyzed_message_id (None: no row)
    retryState, retryMsg, retryHolder,  \* aicc_intent_analysis_retries
    pc, cur, offer,             \* of a worker; offer is AllowOffer
    apc, acur,                  \* of an analyzer
    events,
    seq, again, offeredOn       \* history: the order of sending, the messages
                                \* requeued, and the one whose reply offered

taskVars   == <<status, attempts, token, created, replies>>
intentVars == <<invite, analyzed, offeredOn>>
retryVars  == <<retryState, retryMsg, retryHolder>>
workerVars == <<pc, cur, offer>>
history    == <<seq, again>>
vars == <<taskVars, intentVars, retryVars, workerVars, apc, acur,
          events, history>>

Status   == {"absent", "queued", "processing", "retry_wait", "completed", "failed"}
Waiting  == {"queued", "retry_wait"}
Unfinished == Waiting \cup {"processing"}
Invite   == {"not_invited", "invited", "declined", "submitted"}

Sent == {m \in Msg : status[m] # "absent"}

\* The order of a session's messages in the queries.
Before(x, m) ==
    /\ SessionOf[x] = SessionOf[m]
    /\ \/ created[x] < created[m]
       \/ created[x] = created[m] /\ Rank[x] < Rank[m]

Init ==
    /\ status = [m \in Msg |-> "absent"]
    /\ attempts = [m \in Msg |-> 0]
    /\ token = [m \in Msg |-> None]
    /\ created = [m \in Msg |-> 0]
    /\ replies = [m \in Msg |-> 0]
    /\ invite = [s \in Session |-> "not_invited"]
    /\ analyzed = [s \in Session |-> None]
    /\ retryState = [s \in Session |-> "none"]
    /\ retryMsg = [s \in Session |-> None]
    /\ retryHolder = [s \in Session |-> None]
    /\ pc = [w \in Worker |-> "idle"]
    /\ cur = [w \in Worker |-> None]
    /\ offer = [w \in Worker |-> FALSE]
    /\ apc = [a \in Analyzer |-> "idle"]
    /\ acur = [a \in Analyzer |-> None]
    /\ events = 0
    /\ seq = [m \in Msg |-> 0]
    /\ again = {}
    /\ offeredOn = [s \in Session |-> None]

-----------------------------------------------------------------------------
\* Plausible mistakes in the operators below.

\* The order of the session is left to the scan.
ReadyInAnyOrder(m) ==
    /\ status[m] \in Waiting /\ attempts[m] < MaxAttempts
    /\ \A x \in Msg : SessionOf[x] = SessionOf[m] => status[x] # "processing"

\* The completion does not look at the task.
HoldsUnchecked(w, m) == w \in Worker /\ m \in Msg

\* A claimed row is nobody else's, even when its lease has run out.
ClaimRetryOnce(a, s) ==
    /\ apc[a] = "idle" /\ retryState[s] = "pending" /\ retryHolder[s] = None
    /\ retryHolder' = [retryHolder EXCEPT ![s] = a]
    /\ apc' = [apc EXCEPT ![a] = "claimed"]
    /\ acur' = [acur EXCEPT ![a] = retryMsg[s]]
    /\ UNCHANGED <<taskVars, intentVars, retryState, retryMsg, workerVars,
                   events, history>>

-----------------------------------------------------------------------------
\* The visitor.

\* A message and its task are inserted (admission: module AICCAdmission).
\* Its created_at is no earlier than that of the messages before it.
Send(m) ==
    /\ status[m] = "absent"
    /\ status' = [status EXCEPT ![m] = "queued"]
    /\ \E t \in 0..Cardinality(Sent) :
           /\ \A x \in Sent : created[x] < t \/ (SameSecond /\ created[x] = t)
           /\ created' = [created EXCEPT ![m] = t]
    /\ seq' = [seq EXCEPT ![m] = Cardinality(Sent)]
    /\ UNCHANGED <<attempts, token, replies, intentVars, retryVars, workerVars,
                   apc, acur, events, again>>

\* RequeueFailedAICCMessageTask.
Requeue(m) ==
    /\ status[m] = "failed" /\ events < MaxEvents
    /\ status' = [status EXCEPT ![m] = "queued"]
    /\ attempts' = [attempts EXCEPT ![m] = 0]
    /\ events' = events + 1
    /\ again' = again \cup {m}
    /\ UNCHANGED <<token, created, replies, intentVars, retryVars, workerVars,
                   apc, acur, seq>>

\* DeclineLeadInvitation and SubmitLeadValues change only an open invitation.
Decide(s) ==
    /\ invite[s] = "invited"
    /\ \E decision \in {"declined", "submitted"} :
           invite' = [invite EXCEPT ![s] = decision]
    /\ UNCHANGED <<taskVars, analyzed, offeredOn, retryVars, workerVars, apc, acur,
                   events, history>>

-----------------------------------------------------------------------------
\* The queue of tasks.

Ready(m) ==
    /\ status[m] \in Waiting /\ attempts[m] < MaxAttempts
    /\ \A x \in Msg : SessionOf[x] = SessionOf[m] => status[x] # "processing"
    /\ \A x \in Msg : Before(x, m) => status[x] \notin Unfinished

\* A plausible mistake: only failures count as attempts.
LeaseUncounted(w, m) ==
    /\ pc[w] = "idle" /\ Ready(m)
    /\ status' = [status EXCEPT ![m] = "processing"]
    /\ token' = [token EXCEPT ![m] = w]
    /\ pc' = [pc EXCEPT ![w] = "leased"]
    /\ cur' = [cur EXCEPT ![w] = m]
    /\ UNCHANGED <<attempts, created, replies, intentVars, retryVars, offer, apc, acur,
                   events, history>>

\* LeaseAICCMessageTask checks again what the scan has seen.
Lease(w, m) ==
    /\ pc[w] = "idle" /\ Ready(m)
    /\ status' = [status EXCEPT ![m] = "processing"]
    /\ attempts' = [attempts EXCEPT ![m] = @ + 1]
    /\ token' = [token EXCEPT ![m] = w]
    /\ pc' = [pc EXCEPT ![w] = "leased"]
    /\ cur' = [cur EXCEPT ![w] = m]
    /\ UNCHANGED <<created, replies, intentVars, retryVars, offer, apc, acur,
                   events, history>>

\* The UPDATEs of a holder: WHERE status = 'processing' AND lease_token = ?
Holds(w, m) == status[m] = "processing" /\ token[m] = w

\* The CASE in RetryAICCMessageTask and RecoverExpiredAICCMessageTaskLeases.
AfterFailure(m) == IF attempts[m] >= MaxAttempts THEN "failed" ELSE "retry_wait"

Working(w, m) == pc[w] # "idle" /\ cur[w] = m /\ token[m] = w

\* RecoverExpiredAICCMessageTaskLeases, for one of the tasks it finds.
Recover(m) ==
    /\ status[m] = "processing"
    /\ IF \E w \in Worker : Working(w, m)
       THEN events < MaxEvents /\ events' = events + 1
       ELSE UNCHANGED events
    /\ status' = [status EXCEPT ![m] = AfterFailure(m)]
    /\ token' = [token EXCEPT ![m] = None]
    /\ UNCHANGED <<attempts, created, replies, intentVars, retryVars, workerVars,
                   apc, acur, history>>

-----------------------------------------------------------------------------
\* A worker.

Rest(w) ==
    /\ pc' = [pc EXCEPT ![w] = "idle"]
    /\ cur' = [cur EXCEPT ![w] = None]
    /\ offer' = [offer EXCEPT ![w] = FALSE]

\* UpsertAICCSessionIntent: a row that exists keeps its invite_status, and
\* its message too once the visitor is invited.
UpsertIntent(m) ==
    /\ analyzed' = IF invite[SessionOf[m]] = "not_invited"
                   THEN [analyzed EXCEPT ![SessionOf[m]] = m] ELSE analyzed
    /\ UNCHANGED <<invite, offeredOn>>

\* analyzeAICCIntent: the level the model found, and the invite_status read
\* after it, decide whether this reply offers.  (Only the holder of a task of
\* the session invites, so reading and upserting are one step.)
Analyze(w) ==
    /\ pc[w] = "leased"
    /\ UpsertIntent(cur[w])
    /\ \E high \in BOOLEAN :
           offer' = [offer EXCEPT ![w] = high /\ invite[SessionOf[cur[w]]] = "not_invited"]
    /\ pc' = [pc EXCEPT ![w] = "analyzed"]
    /\ UNCHANGED <<taskVars, retryVars, cur, apc, acur, events, history>>

\* UpsertAICCIntentAnalysisRetry: one row per session.  A new failure takes the
\* place of an older one, and leaves the claim of a row that is not processed.
QueueRetry(s, m) ==
    /\ retryState' = [retryState EXCEPT ![s] = "pending"]
    /\ retryMsg' = [retryMsg EXCEPT ![s] = m]
    /\ retryHolder' = [retryHolder EXCEPT ![s] = IF retryState[s] = "pending" THEN @ ELSE None]

\* The analysis or its store fails: queueAICCIntentRetry, whose own failure
\* nobody sees, and the reply goes on without an offer.
AnalysisFails(w) ==
    LET m == cur[w]
        s == SessionOf[m]
    IN /\ pc[w] = "leased"
       /\ QueueRetry(s, m) \/ UNCHANGED retryVars
       /\ pc' = [pc EXCEPT ![w] = "analyzed"]
       /\ UNCHANGED <<taskVars, intentVars, cur, offer, apc, acur, events, history>>

\* The transaction of the reply.  The invitation has to hit its row and the
\* task has to be held, or everything is rolled back and the task is left to
\* the recovery.
Commit(w) ==
    LET m == cur[w]
        s == SessionOf[m]
        invites == analyzed[s] # None /\ invite[s] = "not_invited"
    IN /\ pc[w] = "analyzed"
       /\ IF Holds(w, m) /\ (offer[w] => invites)
          THEN /\ replies' = [replies EXCEPT ![m] = @ + 1]
               /\ status' = [status EXCEPT ![m] = "completed"]
               /\ token' = [token EXCEPT ![m] = None]
               /\ invite' = IF offer[w] THEN [invite EXCEPT ![s] = "invited"] ELSE invite
               /\ offeredOn' = IF offer[w] THEN [offeredOn EXCEPT ![s] = m] ELSE offeredOn
          ELSE UNCHANGED <<replies, status, token, invite, offeredOn>>
       /\ Rest(w)
       /\ UNCHANGED <<attempts, created, analyzed, retryVars, apc, acur,
                      events, history>>

\* finishError: the limits, a read, or the chat with Hermes.
AttemptFails(w) ==
    LET m == cur[w] IN
    /\ pc[w] # "idle"
    /\ IF Holds(w, m)
       THEN /\ \E result \in {AfterFailure(m), "failed"} :
                   status' = [status EXCEPT ![m] = result]
            /\ token' = [token EXCEPT ![m] = None]
       ELSE UNCHANGED <<status, token>>
    /\ Rest(w)
    /\ UNCHANGED <<attempts, created, replies, intentVars, retryVars, apc, acur,
                   events, history>>

\* The heartbeat fails and cancels the chat, MySQL fails, or the process dies:
\* the task is left as it is.
Abandon(w) ==
    /\ pc[w] # "idle"
    /\ Rest(w)
    /\ UNCHANGED <<taskVars, intentVars, retryVars, apc, acur, events, history>>

-----------------------------------------------------------------------------
\* RetryPendingAICCIntentAnalysis.

Analyzing(a, s) ==
    apc[a] # "idle" /\ SessionOf[acur[a]] = s /\ retryHolder[s] = a

\* ListReadyAICCIntentAnalysisRetries and ClaimAICCIntentAnalysisRetry, which
\* checks that the message is still the listed one.
ClaimRetry(a, s) ==
    /\ apc[a] = "idle" /\ retryState[s] = "pending"
    /\ IF \E b \in Analyzer : Analyzing(b, s)
       THEN events < MaxEvents /\ events' = events + 1
       ELSE UNCHANGED events
    /\ retryHolder' = [retryHolder EXCEPT ![s] = a]
    /\ apc' = [apc EXCEPT ![a] = "claimed"]
    /\ acur' = [acur EXCEPT ![a] = retryMsg[s]]
    /\ UNCHANGED <<taskVars, intentVars, retryState, retryMsg, workerVars,
                   history>>

\* The condition of the UPDATEs that end a claim.
Claims(a, s) ==
    retryState[s] = "pending" /\ retryHolder[s] = a /\ retryMsg[s] = acur[a]

RetryAnalysis(a) ==
    /\ apc[a] = "claimed"
    /\ UpsertIntent(acur[a])
    /\ apc' = [apc EXCEPT ![a] = "analyzed"]
    /\ UNCHANGED <<taskVars, retryVars, workerVars, acur, events, history>>

\* RescheduleClaimedAICCIntentAnalysisRetry, after a failure of any step.
Reschedule(a) ==
    LET s == SessionOf[acur[a]] IN
    /\ apc[a] \in {"claimed", "analyzed"}
    /\ retryHolder' = IF Claims(a, s) THEN [retryHolder EXCEPT ![s] = None] ELSE retryHolder
    /\ apc' = [apc EXCEPT ![a] = "idle"]
    /\ acur' = [acur EXCEPT ![a] = None]
    /\ UNCHANGED <<taskVars, intentVars, retryState, retryMsg, workerVars,
                   events, history>>

MarkProcessed(a) ==
    LET s == SessionOf[acur[a]] IN
    /\ apc[a] = "analyzed" /\ Claims(a, s)
    /\ retryState' = [retryState EXCEPT ![s] = "processed"]
    /\ retryHolder' = [retryHolder EXCEPT ![s] = None]
    /\ apc' = [apc EXCEPT ![a] = "marked"]
    /\ UNCHANGED <<taskVars, intentVars, retryMsg, workerVars, acur, events, history>>

DeleteProcessed(a) ==
    LET s == SessionOf[acur[a]] IN
    /\ apc[a] = "marked"
    /\ IF retryState[s] = "processed" /\ retryMsg[s] = acur[a]
       THEN /\ retryState' = [retryState EXCEPT ![s] = "none"]
            /\ retryMsg' = [retryMsg EXCEPT ![s] = None]
       ELSE UNCHANGED <<retryState, retryMsg>>
    /\ apc' = [apc EXCEPT ![a] = "idle"]
    /\ acur' = [acur EXCEPT ![a] = None]
    /\ UNCHANGED <<taskVars, intentVars, retryHolder, workerVars, events, history>>

\* The process dies, or the DELETE fails.
AnalyzerStops(a) ==
    /\ apc[a] # "idle"
    /\ apc' = [apc EXCEPT ![a] = "idle"]
    /\ acur' = [acur EXCEPT ![a] = None]
    /\ UNCHANGED <<taskVars, intentVars, retryVars, workerVars, events, history>>

-----------------------------------------------------------------------------
WorkerEnds(w) == Commit(w) \/ AttemptFails(w) \/ Abandon(w)

WorkerStep(w) == Analyze(w) \/ AnalysisFails(w) \/ WorkerEnds(w)

AnalyzerStep(a) ==
    \/ RetryAnalysis(a) \/ Reschedule(a) \/ MarkProcessed(a)
    \/ DeleteProcessed(a) \/ AnalyzerStops(a)

Next ==
    \/ \E m \in Msg : \/ Send(m) \/ Requeue(m) \/ Recover(m)
                      \/ \E w \in Worker : Lease(w, m)
    \/ \E w \in Worker : WorkerStep(w)
    \/ \E s \in Session : Decide(s) \/ \E a \in Analyzer : ClaimRetry(a, s)
    \/ \E a \in Analyzer : AnalyzerStep(a)

Spec == Init /\ [][Next]_vars

\* Workers and analyzers go on; Hermes and MySQL do not fail for ever; a task
\* or a row that can be taken again and again is taken: the scans are ordered
\* by run_after and the circuit closes again.
Fairness ==
    /\ \A m \in Msg : /\ SF_vars(\E w \in Worker : Lease(w, m))
                      /\ WF_vars(Recover(m) /\ UNCHANGED events)
    /\ \A w \in Worker : WF_vars(WorkerStep(w))
    /\ \A s \in Session : SF_vars(\E a \in Analyzer : ClaimRetry(a, s) /\ UNCHANGED events)
    /\ \A a \in Analyzer : /\ WF_vars(AnalyzerStep(a))
                           /\ SF_vars(RetryAnalysis(a))
                           /\ SF_vars(MarkProcessed(a))

FairSpec == Spec /\ Fairness
-----------------------------------------------------------------------------
\* Types; a process has a message exactly while it works.
TypeOK ==
    /\ status \in [Msg -> Status]
    /\ attempts \in [Msg -> 0..MaxAttempts]
    /\ token \in [Msg -> Worker \cup {None}]
    /\ created \in [Msg -> Nat]
    /\ replies \in [Msg -> Nat]
    /\ invite \in [Session -> Invite]
    /\ analyzed \in [Session -> Msg \cup {None}]
    /\ retryState \in [Session -> {"none", "pending", "processed"}]
    /\ retryMsg \in [Session -> Msg \cup {None}]
    /\ retryHolder \in [Session -> Analyzer \cup {None}]
    /\ \A s \in Session : retryState[s] # "none" => retryMsg[s] # None
    /\ pc \in [Worker -> {"idle", "leased", "analyzed"}]
    /\ cur \in [Worker -> Msg \cup {None}]
    /\ \A w \in Worker : pc[w] = "idle" <=> cur[w] = None
    /\ offer \in [Worker -> BOOLEAN]
    /\ apc \in [Analyzer -> {"idle", "claimed", "analyzed", "marked"}]
    /\ acur \in [Analyzer -> Msg \cup {None}]
    /\ \A a \in Analyzer : apc[a] = "idle" <=> acur[a] = None
    /\ events \in 0..MaxEvents
    /\ seq \in [Msg -> Nat]
    /\ again \subseteq Msg
    /\ offeredOn \in [Session -> Msg \cup {None}]

\* The conversation as the visitor sees it.
VisitorState(m) ==
    IF status[m] \in Unfinished THEN "waiting"
    ELSE IF status[m] = "completed" THEN "answered"
    ELSE IF status[m] = "failed" THEN "failed" ELSE "unsent"

Conversation == INSTANCE AICCConversation
                WITH state <- [m \in Msg |-> VisitorState(m)]

\* What AICCConversation promises holds of the dispatcher: "at most one
\* completed answer" per message, and "the order of the calls of the model is
\* the order of sending" (design of the overload governance, section 7).
ConversationKept == Conversation!Spec

\* However many workers lost their lease, there is one reply to a completed
\* message and none to any other.
OneReply ==
    \A m \in Msg : replies[m] = IF status[m] = "completed" THEN 1 ELSE 0

\* No two messages of a session are worked on at the same time.
SessionSerial ==
    \A m, x \in Msg :
        SessionOf[m] = SessionOf[x] /\ status[m] = "processing" /\ status[x] = "processing"
            => m = x

\* A message that waits has an attempt left: otherwise no scan would ever find
\* it again, and it would block its session.
AttemptLeft ==
    \A m \in Msg : status[m] \in Waiting => attempts[m] < MaxAttempts

\* Why the order is kept: ids are compared only within a second, and a message
\* in work has no earlier message waiting for its first answer.
SentInOrder ==
    /\ \A m \in Sent : seq[m] < Cardinality(Sent)
    /\ ~SameSecond => \A m, x \in Sent : seq[x] < seq[m] => created[x] < created[m]

InLine ==
    ~SameSecond =>
        \A m \in Msg, x \in Msg \ again :
            SessionOf[x] = SessionOf[m] /\ status[m] = "processing" /\ status[x] \in Unfinished
                => seq[x] >= seq[m]

\* What the comment of UpsertAICCSessionIntent (aicc.sql) promises of an invitation
\* that was spent: aiccAssistantNextAction shows the card on the reply to
\* analyzed_message_id, and that is the one that offered it.  It does not hold (see the
\* README), so no run checks it.
OfferOnItsReply ==
    \A s \in Session : invite[s] # "not_invited" => analyzed[s] = offeredOn[s]

\* A poisoned message, one that kills every worker that takes it, does not
\* live for ever: each message is answered or given up.
EveryMessageSettles ==
    \A m \in Msg : status[m] \in Unfinished ~> status[m] \in {"completed", "failed"}

\* A failed analysis that was queued is repeated in the end.
EveryRetryEnds ==
    \A s \in Session : retryState[s] = "pending" ~> retryState[s] # "pending"
=============================================================================
