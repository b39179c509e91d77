-------------------------- MODULE AICCConversation --------------------------
(***************************************************************************)
(* What the asynchronous answering of customer-service messages (AICC)     *)
(* promises to a visitor, whatever the number of dispatchers, their        *)
(* crashes and their retries:                                              *)
(*                                                                         *)
(*   - a message is answered at most once, and an answer is final;         *)
(*   - the messages of a session are answered in the order they were sent; *)
(*     only one that had failed and is retried may come after later ones;  *)
(*   - the one invitation to leave contact data is spent together with an  *)
(*     answer, and what the visitor decides about it is never undone.      *)
(*                                                                         *)
(* AICCDispatch implements this specification.                             *)
(***************************************************************************)
EXTENDS Naturals

CONSTANTS Msg, Session, SessionOf

VARIABLES
    state,      \* of a message, as its visitor sees it
    replies,    \* number of answers to a message
    seq,        \* number of messages sent before it
    again,      \* messages retried after a failure
    invite      \* the invitation of a session

vars == <<state, replies, seq, again, invite>>

Sent == {m \in Msg : state[m] # "unsent"}

Init ==
    /\ state = [m \in Msg |-> "unsent"]
    /\ replies = [m \in Msg |-> 0]
    /\ seq = [m \in Msg |-> 0]
    /\ again = {}
    /\ invite = [s \in Session |-> "not_invited"]

Send(m) ==
    /\ state[m] = "unsent"
    /\ state' = [state EXCEPT ![m] = "waiting"]
    /\ \A x \in Sent : seq[x] < seq'[m]
    /\ \A x \in Msg \ {m} : seq'[x] = seq[x]
    /\ UNCHANGED <<replies, again, invite>>

\* No message that was sent before m still waits for its first answer.
NextInLine(m) ==
    \A x \in Msg \ again :
        SessionOf[x] = SessionOf[m] /\ state[x] = "waiting" => seq[x] >= seq[m]

Answer(m) ==
    /\ state[m] = "waiting" /\ NextInLine(m)
    /\ state' = [state EXCEPT ![m] = "answered"]
    /\ replies' = [replies EXCEPT ![m] = @ + 1]
    /\ \/ UNCHANGED invite
       \/ /\ invite[SessionOf[m]] = "not_invited"
          /\ invite' = [invite EXCEPT ![SessionOf[m]] = "invited"]
    /\ UNCHANGED <<seq, again>>

GiveUp(m) ==
    /\ state[m] = "waiting"
    /\ state' = [state EXCEPT ![m] = "failed"]
    /\ UNCHANGED <<replies, seq, again, invite>>

Retry(m) ==
    /\ state[m] = "failed"
    /\ state' = [state EXCEPT ![m] = "waiting"]
    /\ again' = again \cup {m}
    /\ UNCHANGED <<replies, seq, invite>>

Decide(s) ==
    /\ invite[s] = "invited"
    /\ \E decision \in {"declined", "submitted"} :
           invite' = [invite EXCEPT ![s] = decision]
    /\ UNCHANGED <<state, replies, seq, again>>

Next ==
    \/ \E m \in Msg : Send(m) \/ Answer(m) \/ GiveUp(m) \/ Retry(m)
    \/ \E s \in Session : Decide(s)

Spec == Init /\ [][Next]_vars
=============================================================================
