-------------------------- MODULE MCResearchStore --------------------------
(* Instance of ResearchStore for TLC. *)
EXTENDS ResearchStore, TLC

\* Processes and rows are interchangeable: no operator picks one of them.
Symmetry == Permutations(StoreProcesses) \cup Permutations(Rows)
=============================================================================
