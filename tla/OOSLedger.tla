----------------------------- MODULE OOSLedger -----------------------------
(***************************************************************************)
(* OOSPredictionLedgerV1, shared by processes: predictions made out of     *)
(* sample and the outcome each of them got once its label was resolved.    *)
(*                                                                         *)
(* The connection is opened with isolation_level="DEFERRED", so every      *)
(* SELECT is a transaction of its own and Python begins another one at the *)
(* INSERT: between the steps of a save any other process may commit.       *)
(*                                                                         *)
(* Identity is content: a prediction or an outcome built by the code has   *)
(* an id that is the digest of its payload, so the id is written as the    *)
(* payload it was computed from.  A copy made by dataclasses.replace keeps *)
(* the id and has another payload.                                         *)
(***************************************************************************)
EXTENDS Naturals

CONSTANTS
    Processes,
    Predictions,  \* what OOSPrediction.build returned: records with fields
                  \* row, time, horizon, event
    Labels        \* labels: row, time, horizon, end, resolved, and happened,
                  \* a function from the events the label covers to BOOLEAN

VARIABLES
    predictions,         \* table oos_predictions: rows [id, body]
    outcomes,            \* table oos_outcomes: rows [id, body]
    damagedPredictions,  \* rows whose payload_json changed in the file and
    damagedOutcomes,     \* does not agree with its own digest any more
    pc,                  \* pc[p]: the next operation of process p
    arg,                 \* arg[p]: the object p is saving
    savedPredictions,    \* history: objects whose save returned
    savedOutcomes

tables == <<predictions, outcomes>>
damage == <<damagedPredictions, damagedOutcomes>>
saved == <<savedPredictions, savedOutcomes>>
vars == <<tables, damage, pc, arg, saved>>
-----------------------------------------------------------------------------
(* resolve_oos_outcome. *)

Resolvable(p, l) ==
    /\ p.row = l.row /\ p.time = l.time /\ p.horizon = l.horizon
    /\ l.resolved >= l.end
    /\ p.event \in DOMAIN l.happened

Outcome(p, l) ==
    [prediction |-> p, label |-> l, actual |-> l.happened[p.event]]

Outcomes ==
    {Outcome(pl[1], pl[2]) : pl \in
        {q \in Predictions \X Labels : Resolvable(q[1], q[2])}}

(* The objects a caller may pass to a save. *)

PredictionObjects == [id : Predictions, body : Predictions]

OutcomeObjects ==
    {[id |-> o, body |-> o] : o \in Outcomes} \cup
    {[id |-> o, body |-> [o EXCEPT !.actual = ~@]] : o \in Outcomes}

\* _content_identity_matches.  A prediction that claims to be calibrated, or
\* to have authority or weight, is such a copy as well.
ContentIdentityMatches(obj) == obj.id = obj.body
-----------------------------------------------------------------------------
NoCall == [none |-> TRUE]

Steps == {"idle", "insert_prediction", "prediction_saved",
          "select_outcome", "insert_outcome", "outcome_saved"}

\* The rows that belong into the tables: id and digest are of the payload.
PredictionRows == {[id |-> q, body |-> q] : q \in Predictions}
OutcomeRows == {[id |-> o, body |-> o] : o \in Outcomes}

PredictionSteps == {"insert_prediction", "prediction_saved"}
OutcomeSteps == {"select_outcome", "insert_outcome", "outcome_saved"}

\* Types: the tables hold what the code built and never an altered copy, and so
\* does a process in the middle of a save (save_prediction, save_outcome).
TypeOK ==
    /\ predictions \subseteq PredictionRows
    /\ outcomes \subseteq OutcomeRows
    /\ damagedPredictions \subseteq predictions
    /\ damagedOutcomes \subseteq outcomes
    /\ savedPredictions \subseteq PredictionRows
    /\ savedOutcomes \subseteq OutcomeRows
    /\ pc \in [Processes -> Steps]
    /\ arg \in [Processes -> {NoCall} \cup PredictionRows \cup OutcomeRows]
    /\ \A p \in Processes :
        /\ pc[p] \in PredictionSteps => arg[p] \in PredictionRows
        /\ pc[p] \in OutcomeSteps => arg[p] \in OutcomeRows

Init ==
    /\ predictions = {} /\ outcomes = {}
    /\ damagedPredictions = {} /\ damagedOutcomes = {}
    /\ pc = [p \in Processes |-> "idle"]
    /\ arg = [p \in Processes |-> NoCall]
    /\ savedPredictions = {} /\ savedOutcomes = {}

Goto(p, step, obj) ==
    /\ pc' = [pc EXCEPT ![p] = step]
    /\ arg' = [arg EXCEPT ![p] = obj]

\* An exception: the transaction is rolled back and the call raises.
Raise(p) == Goto(p, "idle", NoCall) /\ UNCHANGED <<tables, damage, saved>>
-----------------------------------------------------------------------------
(* save_prediction *)

SavePrediction(p, obj) ==
    /\ pc[p] = "idle"
    /\ ContentIdentityMatches(obj)
    /\ LET existing == {r \in predictions : r.id = obj.id}
       IN  \/ existing = {} /\ Goto(p, "insert_prediction", obj)
           \/ /\ \E r \in existing :
                    r.body = obj.body /\ r \notin damagedPredictions
              /\ Goto(p, "prediction_saved", obj)
    /\ UNCHANGED <<tables, damage, saved>>

\* INSERT and commit; the primary key and the unique digest raise
\* IntegrityError when another process was faster.
InsertPrediction(p) ==
    /\ pc[p] = "insert_prediction"
    /\ \/ /\ \A r \in predictions : r.id # arg[p].id
          /\ predictions' = predictions \cup {arg[p]}
          /\ Goto(p, "prediction_saved", arg[p])
          /\ UNCHANGED <<outcomes, damage, saved>>
       \/ (\E r \in predictions : r.id = arg[p].id) /\ Raise(p)

ReturnPrediction(p) ==
    /\ pc[p] = "prediction_saved"
    /\ savedPredictions' = savedPredictions \cup {arg[p]}
    /\ Goto(p, "idle", NoCall)
    /\ UNCHANGED <<tables, damage, savedOutcomes>>

(* save_outcome *)

SaveOutcome(p, obj) ==
    /\ pc[p] = "idle"
    /\ ContentIdentityMatches(obj)
    /\ \E r \in predictions : r.id = obj.body.prediction
    /\ Goto(p, "select_outcome", obj)
    /\ UNCHANGED <<tables, damage, saved>>

OutcomesOf(prediction) ==
    {r \in outcomes : r.body.prediction = prediction}

\* Mutant of SelectOutcome: any outcome of the prediction will do.
SelectAnyOutcome(p) ==
    /\ pc[p] = "select_outcome"
    /\ \/ /\ OutcomesOf(arg[p].body.prediction) = {}
          /\ Goto(p, "insert_outcome", arg[p])
       \/ /\ OutcomesOf(arg[p].body.prediction) # {}
          /\ Goto(p, "outcome_saved", arg[p])
    /\ UNCHANGED <<tables, damage, saved>>

SelectOutcome(p) ==
    /\ pc[p] = "select_outcome"
    /\ LET existing == OutcomesOf(arg[p].body.prediction)
       IN  \/ existing = {} /\ Goto(p, "insert_outcome", arg[p])
           \/ /\ arg[p] \in existing \ damagedOutcomes
              /\ Goto(p, "outcome_saved", arg[p])
           \/ /\ existing # {} /\ arg[p] \notin existing \ damagedOutcomes
              /\ Goto(p, "idle", NoCall)
    /\ UNCHANGED <<tables, damage, saved>>

\* Mutant of InsertOutcome: INSERT OR REPLACE.
InsertOrReplaceOutcome(p) ==
    /\ pc[p] = "insert_outcome"
    /\ outcomes' = (outcomes \ OutcomesOf(arg[p].body.prediction))
                     \cup {arg[p]}
    /\ damagedOutcomes' = damagedOutcomes \cap outcomes'
    /\ Goto(p, "outcome_saved", arg[p])
    /\ UNCHANGED <<predictions, damagedPredictions, saved>>

\* Mutant of InsertOutcome: INSERT OR IGNORE.
InsertOrIgnoreOutcome(p) ==
    /\ pc[p] = "insert_outcome"
    /\ outcomes' = IF OutcomesOf(arg[p].body.prediction) = {}
                     THEN outcomes \cup {arg[p]} ELSE outcomes
    /\ Goto(p, "outcome_saved", arg[p])
    /\ UNCHANGED <<predictions, damage, saved>>

\* INSERT and commit; UNIQUE(prediction_id) decides the race of two outcomes.
InsertOutcome(p) ==
    /\ pc[p] = "insert_outcome"
    /\ LET free == /\ OutcomesOf(arg[p].body.prediction) = {}
                   /\ \A r \in outcomes : r.id # arg[p].id
                   /\ \E r \in predictions : r.id = arg[p].body.prediction
       IN  \/ /\ free
              /\ outcomes' = outcomes \cup {arg[p]}
              /\ Goto(p, "outcome_saved", arg[p])
              /\ UNCHANGED <<predictions, damage, saved>>
           \/ ~free /\ Raise(p)

ReturnOutcome(p) ==
    /\ pc[p] = "outcome_saved"
    /\ savedOutcomes' = savedOutcomes \cup {arg[p]}
    /\ Goto(p, "idle", NoCall)
    /\ UNCHANGED <<tables, damage, savedPredictions>>

\* A lock that was not released within busy_timeout, an I/O error, or the end
\* of the process: the call is lost, what was committed is not.
Fail(p) == pc[p] # "idle" /\ Raise(p)

\* The file, not the program: a stored payload_json changes.  That it becomes
\* another payload the code may have built, digest and all, is left out: the
\* code compares a payload with nothing but itself.
Damage ==
    /\ \/ \E r \in predictions :
            /\ damagedPredictions' = damagedPredictions \cup {r}
            /\ UNCHANGED damagedOutcomes
       \/ \E r \in outcomes :
            /\ damagedOutcomes' = damagedOutcomes \cup {r}
            /\ UNCHANGED damagedPredictions
    /\ UNCHANGED <<tables, pc, arg, saved>>

Next ==
    \/ \E p \in Processes :
        \/ \E obj \in PredictionObjects : SavePrediction(p, obj)
        \/ InsertPrediction(p) \/ ReturnPrediction(p)
        \/ \E obj \in OutcomeObjects : SaveOutcome(p, obj)
        \/ SelectOutcome(p) \/ InsertOutcome(p) \/ ReturnOutcome(p)
        \/ Fail(p)
    \/ Damage

Spec == Init /\ [][Next]_vars
-----------------------------------------------------------------------------
(* resolved_pairs: one SELECT joins the tables; a payload in the join that *)
(* does not agree with its digest makes the call raise.                    *)

\* Mutant of JoinedRows: joins on the feature row the two are about.
JoinedByRow ==
    {ro \in predictions \X outcomes :
        ro[1].body.row = ro[2].body.prediction.row}

JoinedRows ==
    {ro \in predictions \X outcomes : ro[1].id = ro[2].body.prediction}

ReadRaises ==
    \E ro \in JoinedRows :
        ro[1] \in damagedPredictions \/ ro[2] \in damagedOutcomes

ResolvedPairs == {<<ro[1].body, ro[2].body>> : ro \in JoinedRows}
-----------------------------------------------------------------------------
(* Properties. *)

\* Two processes that were both told that their outcome of a prediction was
\* saved saved the same outcome, though each SELECT may have missed the other's
\* INSERT (save_outcome).
OutcomeAgreed ==
    \A o, q \in savedOutcomes :
        o.body.prediction = q.body.prediction => o = q

\* What a process was told it had saved is in the ledger, and a read gives it
\* back with its partner or raises (save_outcome, resolved_pairs).
SavedStored ==
    /\ savedPredictions \subseteq predictions
    /\ \A o \in savedOutcomes :
        \E pair \in ResolvedPairs :
            pair[1] = o.id.prediction /\ pair[2] = o.id

\* Every pair that resolved_pairs returns is a prediction and the outcome that
\* resolve_oos_outcome computes for it from a label of the same feature row,
\* time and horizon; a prediction has one outcome.
PairsSound ==
    /\ \A pair \in ResolvedPairs :
        /\ pair[2].prediction = pair[1]
        /\ Resolvable(pair[1], pair[2].label)
        /\ pair[2] = Outcome(pair[1], pair[2].label)
    /\ \A pair, other \in ResolvedPairs : pair[1] = other[1] => pair = other

\* A pair that was returned once is returned by every later read.
PairsKept == [][ResolvedPairs \subseteq ResolvedPairs']_vars

\* Abstraction: the outcomes are a ledger in which every prediction is written
\* once.
Abstract == INSTANCE WriteOnce WITH
    Keys <- Predictions,
    Values <- Outcomes,
    written <- {<<r.body.prediction, r.body>> : r \in outcomes},
    acknowledged <- {<<r.body.prediction, r.body>> : r \in savedOutcomes}

\* Every behaviour of the ledger is one of a write-once ledger.
ImplementsWriteOnce == Abstract!Spec
=============================================================================
