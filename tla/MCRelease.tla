----------------------------- MODULE MCRelease -----------------------------
(* Instances of Release for TLC. *)
EXTENDS Release, TLC

Symmetry == Permutations(Invocations) \cup Permutations(Sources)
=============================================================================
