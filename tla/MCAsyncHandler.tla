--------------------------- MODULE MCAsyncHandler ---------------------------
(* Instances of AsyncHandler for TLC.                                      *)
EXTENDS AsyncRefinement, TLC

(* Records, workers and callers are each interchangeable.                  *)
Symmetry ==
    Permutations(Records) \cup Permutations(Workers) \cup Permutations(Callers)
=============================================================================
