--------------------------- MODULE MCAICCDispatch ---------------------------
(* Messages of one visitor's session; m1 has the smaller random id.         *)
EXTENDS AICCDispatch, TLC
CONSTANTS w1, w2, a1, s1, m1, m2

MCSessionOf == [m \in Msg |-> s1]
MCRank == (m1 :> 1) @@ (m2 :> 2)

\* Without two messages in one second nothing looks at the ids, and the messages
\* can be renamed: the behaviours in which m1 is sent first stand for all.
MCFirstIsM1 == status'[m2] # "absent" => status'[m1] # "absent"
=============================================================================
