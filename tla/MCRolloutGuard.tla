--------------------------- MODULE MCRolloutGuard ---------------------------
(* RolloutGuard on small sets: apps and workers are model values. *)
EXTENDS RolloutGuard, TLC
CONSTANTS a1, a2, w1, w2
MCAppOrder == (a1 :> 1) @@ (a2 :> 2)
MCWorkerSymmetry == Permutations({w1, w2})
MCOneApp == a1 :> 1
=============================================================================
