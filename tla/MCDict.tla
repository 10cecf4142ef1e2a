------------------------------ MODULE MCDict ------------------------------
(* Small instance of Dict for TLC: three keys, two of them with one hash.  *)
EXTENDS Dict, TLC
MCHash == [k \in Keys |-> IF k = "c" THEN 1 ELSE 2]

(* The threads run the same code, and no fairness is stated: symmetry is sound. *)
ThreadSymmetry == Permutations(Threads)
=============================================================================
