--------------------------- MODULE MCAICCAdmission ---------------------------
(* Three messages of one session and one of another, two requests.           *)
EXTENDS AICCAdmission
CONSTANTS q1, q2, s1, s2, m1, m2, m3, m4

MCSessionOf == [m \in Msg |-> IF m = m4 THEN s2 ELSE s1]
==============================================================================
