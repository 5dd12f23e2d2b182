--------------------------- MODULE MCDossierReader ---------------------------
(* DossierReader with two sections: start() reads the paged one, or both. *)
EXTENDS DossierReader, TLC

CONSTANTS claims, runs

OneSection == <<runs>>
TwoSections == <<claims, runs>>
Symmetry == Permutations(Scopes)
=============================================================================
