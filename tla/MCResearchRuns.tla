--------------------------- MODULE MCResearchRuns ---------------------------
\* Calls, keys and bodies are interchangeable.
EXTENDS ResearchRuns, TLC

Symmetry == Permutations(Calls) \cup Permutations(Keys) \cup Permutations(Bodies)
=============================================================================
