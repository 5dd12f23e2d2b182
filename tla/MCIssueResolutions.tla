------------------------- MODULE MCIssueResolutions -------------------------
(* IssueResolutions with a symmetry set for the safety runs. *)
EXTENDS IssueResolutions, TLC

Symmetry == Permutations(Requests) \cup Permutations(Keys) \cup Permutations(Bodies)
=============================================================================
