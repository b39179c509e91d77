---- MODULE MCJobRuntime ----
(* The job runtime on one or two jobs, ranked in the order of their names. *)
EXTENDS JobRuntime, TLC
CONSTANTS j1, j2, w1, w2

MCRank == [j \in Job |-> IF j = j1 THEN 1 ELSE 2]
Workers == Permutations(Worker)
====
