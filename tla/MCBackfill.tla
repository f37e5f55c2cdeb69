----------------------------- MODULE MCBackfill -----------------------------
(* Instances of Backfill for TLC. *)
EXTENDS Backfill, TLC

\* Rows around two empty pages, which are one too many for a run.
MCRows ==
    [p \in Jobs \X (1..LastPage) |->
        IF p[2] = 1 THEN 1 ELSE IF p[2] = LastPage THEN 2 ELSE 0]

\* One row each, around an empty page.
MCRowsFew == [p \in Jobs \X (1..LastPage) |-> IF p[2] = 2 THEN 0 ELSE 1]

\* No empty page, one row each.
MCRowsOne == [p \in Jobs \X (1..LastPage) |-> 1]

\* Runners and jobs are interchangeable: no operator picks one of them.
Symmetry == Permutations(Runners) \cup Permutations(Jobs)
=============================================================================
