---------------------------- MODULE MCOperations ----------------------------
(* An instance of Operations for TLC. *)
EXTENDS Operations

\* Two of the four horizons: one meets both rules, one is blocked.
MCFacts ==
    ("1d" :> [horizon |-> "1d", blocked |-> FALSE, bull |-> TRUE, distribution |-> TRUE])
    @@ ("1w" :> [horizon |-> "1w", blocked |-> TRUE, bull |-> TRUE, distribution |-> FALSE])
MCHorizonOrder == <<"1d", "1w">>

\* Some worker begins a run twice, so that its runs follow each other.
MCMaxStarts == [w \in Workers |-> IF w = CHOOSE v \in Workers : TRUE THEN 2 ELSE 1]

\* One stands for the six files, which are written one after the other.
MCFiles == <<"regime_snapshot.json">>
=============================================================================
