------------------------- MODULE MCResearchRecords -------------------------
(* One run for the three databases of records that research reads: the      *)
(* catalog of observations (PointInTime), the out-of-sample ledger and the   *)
(* feature and label stores.  They share nothing: a behaviour uses one of   *)
(* the three.                                                                *)
EXTENDS PointInTime, OOSLedger, ResearchStore, TLC

VARIABLE used  \* the database that a behaviour uses

MCInit ==
    /\ CatalogInit /\ Init /\ StoreInit
    /\ used \in {"catalog", "ledger", "store"}
    /\ used # "catalog" =>
        source = [s \in Series |-> CHOOSE q \in Profiles : TRUE]

MCNext ==
    /\ UNCHANGED used
    /\ \/ used = "catalog" /\ CatalogNext /\ UNCHANGED <<vars, storeVars>>
       \/ used = "ledger" /\ Next /\ UNCHANGED <<catalogVars, storeVars>>
       \/ used = "store" /\ StoreNext /\ UNCHANGED <<catalogVars, vars>>

MCSpec == MCInit /\ [][MCNext]_<<used, catalogVars, vars, storeVars>>
-----------------------------------------------------------------------------
Profile(precision, sequenced, basis) ==
    [precision |-> precision, sequenced |-> sequenced, basis |-> basis]

\* Every precision; numbered revisions where dates need them, and rows that may
\* be reconstructed and rows that may not.
MCProfiles ==
    {Profile("UNKNOWN", FALSE, TRUE), Profile("INFERRED_CONSERVATIVE", FALSE, TRUE),
     Profile("EXACT", FALSE, TRUE), Profile("EXACT", FALSE, FALSE),
     Profile("DATE_ONLY", FALSE, TRUE), Profile("DATE_ONLY", TRUE, TRUE),
     Profile("DATE_ONLY", TRUE, FALSE)}

Prediction(event) ==
    [row |-> "x", time |-> 0, horizon |-> 4, event |-> event]
Label(horizon, resolved, happened) ==
    [row |-> "x", time |-> 0, horizon |-> horizon, end |-> horizon,
     resolved |-> resolved, happened |-> happened]

\* Two predictions of one row: a return and a touch of a barrier.
MCPredictions == {Prediction("up"), Prediction("touch")}

\* Two labels disagree about the return, one of them has no barrier; the
\* third is of another horizon.
MCLabels == {Label(4, 4, ("up" :> TRUE) @@ ("touch" :> FALSE)),
             Label(4, 5, "up" :> FALSE),
             Label(1, 4, ("up" :> TRUE) @@ ("touch" :> TRUE))}

\* Series, processes and rows are interchangeable: no operator picks one.
Symmetry ==
    Permutations(Series) \cup Permutations(Processes) \cup Permutations(Rows)
=============================================================================
