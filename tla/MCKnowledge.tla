---------------------------- MODULE MCKnowledge -----------------------------
(* Small instances of KnowledgeHealing.                                     *)
EXTENDS KnowledgeHealing
CONSTANTS q0, q1, q2

\* Nothing compares the requests, and their documents, but for equality: the behaviours in
\* which q1 begins first stand for all.
MCFirstIsQ1 == req'[q2].pc # "idle" => req'[q1].pc # "idle"
=============================================================================
