-------------------------- MODULE MCLeaderElection --------------------------
(* Two or three replicas; Lease = 3 and Interval = 1 stand for 30s and 10s. *)
EXTENDS LeaderElection, TLC
CONSTANTS r1, r2, r3

Replicas == Permutations(Replica)
=============================================================================
