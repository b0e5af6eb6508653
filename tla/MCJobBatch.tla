----------------------------- MODULE MCJobBatch -----------------------------
(***************************************************************************)
(* JobBatch for TLC: jobs handled in the same process are interchangeable. *)
(***************************************************************************)
EXTENDS JobBatch, TLC

Symmetric == Permutations(Member \ Remote)
=============================================================================
