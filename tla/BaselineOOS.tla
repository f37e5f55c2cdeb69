---------------------------- MODULE BaselineOOS ----------------------------
(***************************************************************************)
(* What becomes of the folds of WalkForward: run_baseline_oos_factory      *)
(* fits every baseline model on the training rows of every fold, predicts  *)
(* the test rows, resolves the predictions and judges the models against   *)
(* B0; then raw scores may be recalibrated (platt_calibration_v1).         *)
(*                                                                         *)
(* The caller hands over folds, features and labels separately: folds name *)
(* rows by id, so labels may have been revised since the folds were made.  *)
(* A prediction and the outcome that is resolved with it are one record.   *)
(***************************************************************************)
EXTENDS WalkForward, SequencesExt, FiniteSetsExt

CONSTANTS
    Kinds,        \* model_kinds without repetitions; B0 to B4 are 0 to 4
    Scores,       \* raw scores, in parts of Whole
    Whole,
    Loss,         \* Loss[s]: the log loss of score s for what happened
    Resolutions,  \* when a revised label may have been resolved
    MaxRevised,   \* bound: rows revised between planning and running
    MinSample,    \* min_oos_predictions
    MinClass,     \* min_class_count of the skill policy
    FitSample,    \* min_samples of a calibrator
    FitClass,     \* min_class_count of a calibrator
    FitCutoffs    \* fit_cutoff of calibrators

B0 == 0

\* Their score depends on the fit alone: the base rate, and the rate after
\* the last training outcome.
FitOnly == {0, 1}

ASSUME BaselineAssumption ==
    /\ Kinds \in Seq(0..4) /\ IsInjective(Kinds) /\ B0 \in Range(Kinds)
    /\ Whole \in Nat \ {0}
    /\ Scores \subseteq 0..Whole /\ \A s \in Scores : Whole - s \in Scores
    /\ Loss \in [Scores -> Nat]
    /\ Resolutions \subseteq Nat /\ FitCutoffs \subseteq Nat
    /\ MaxRevised \in Nat
    /\ {MinSample, MinClass, FitClass} \subseteq Nat \ {0}
    /\ FitSample \in Nat /\ FitSample >= 2

VARIABLES
    bundle,       \* the features and labels handed over, by row
    used,         \* ordered_folds
    turn,         \* rounds of the loops over folds and kinds so far
    records,      \* predictions with their outcomes
    skills,       \* state of every kind, once judged
    challenger,   \* development_challenger
    calibrator,   \* a PlattCalibratorCandidate
    candidate,    \* a CalibratedProbabilityCandidate made with it
    run           \* "waiting", "running", "returned" or "raised"

runVars == <<bundle, used, turn, records, skills, challenger, calibrator,
             candidate, run>>
allVars == <<vars, runVars>>
-----------------------------------------------------------------------------
\* What is handed over for a row: whether it is there, whether all features
\* the models need are, and what its label says of the event ("absent": the
\* label has no such barrier).
Entries == [present : BOOLEAN, complete : BOOLEAN,
            resolved : Nat, event : {"yes", "no", "absent"}]

AsPlanned(i, e) ==
    [present |-> TRUE, complete |-> TRUE, resolved |-> rows[i].resolved,
     event |-> e]

\* The row is not handed over.
Missing == [present |-> FALSE, complete |-> FALSE, resolved |-> 0, event |-> "absent"]

\* A revised label still is resolved after its prediction.
Revisions(i) ==
    {Missing} \cup
    {e \in [present : {TRUE}, complete : BOOLEAN, resolved : Resolutions,
            event : {"yes", "no", "absent"}] : e.resolved > rows[i].predicted}

KindsRun == Range(Kinds)

Records == [fold : Nat, kind : KindsRun, row : Positions, score : Scores,
            resolved : Nat, event : {"yes", "no"}]

Calibrators == [cutoff : FitCutoffs, fit : SUBSET Records]

SkillStates == {"REFERENCE_BASELINE", "ELIGIBLE_CHALLENGER", "REJECTED"}

BaselineInit ==
    /\ Init
    /\ bundle = <<>> /\ used = <<>> /\ turn = 0 /\ records = {}
    /\ skills = <<>> /\ challenger = {} /\ calibrator = {} /\ candidate = {}
    /\ run = "waiting"

Plan == Next /\ UNCHANGED runVars

\* The caller hands over some of the folds, and the rows as they are now;
\* _validate_folds sorts them and wants a gapless beginning.
StartRun ==
    /\ result = "returned" /\ run = "waiting"
    /\ \E given \in SUBSET DOMAIN folds :
        \/ /\ given # {} /\ given = 1..Cardinality(given)
           /\ used' = SubSeq(folds, 1, Cardinality(given))
           /\ run' = "running"
        \/ /\ given = {} \/ given # 1..Cardinality(given)
           /\ run' = "raised" /\ UNCHANGED used
    /\ \E event \in [Positions -> {"yes", "no"}], R \in SUBSET Positions :
        /\ Cardinality(R) <= MaxRevised
        /\ \E revised \in [R -> UNION {Revisions(i) : i \in R}] :
            /\ \A i \in R : revised[i] \in Revisions(i)
            /\ bundle' = [i \in Positions |->
                            IF i \in R THEN revised[i]
                                       ELSE AsPlanned(i, event[i])]
    /\ UNCHANGED <<vars, turn, records, skills, challenger, calibrator,
                   candidate>>
-----------------------------------------------------------------------------
(* One round: a model is fitted on a fold and tested on it. *)

\* Mutant of FoldOf: the last kind of a fold is taken to the next one.
FoldOfEarly(n) == ((n + 1) \div Len(Kinds)) + 1

\* The loop over folds is the outer one.
FoldOf(n) == (n \div Len(Kinds)) + 1

KindOf(n) == Kinds[(n % Len(Kinds)) + 1]

\* Mutant of Accepted: the labels of the training rows are not looked at.
AcceptedUnresolved(f) == \A i \in f.train \cup f.test : bundle[i].present

\* _fold_rows: every row is there, and what is learnt from is known.
Accepted(f) ==
    /\ \A i \in f.train \cup f.test : bundle[i].present
    /\ \A i \in f.train : bundle[i].resolved < f.cutoff

\* fit_baseline_model, predict and resolve_oos_outcome raise where the event
\* or a feature is missing.
Computable(f, kind) ==
    \A i \in f.train \cup f.test :
        /\ bundle[i].event # "absent"
        /\ kind \in FitOnly \/ bundle[i].complete

\* The scores a model may give: models are not computed.
ScoresOf(S, kind) ==
    {s \in [S -> Scores] :
        kind \in FitOnly => \A i, j \in S : s[i] = s[j]}

RunModel ==
    /\ run = "running" /\ FoldOf(turn) \in DOMAIN used
    /\ LET f == used[FoldOf(turn)]
           kind == KindOf(turn)
           S == f.test
       IN  \/ /\ Accepted(f) /\ Computable(f, kind)
              /\ \E score \in ScoresOf(S, kind) :
                    records' = records \cup
                        {[fold |-> FoldOf(turn), kind |-> kind, row |-> i,
                          score |-> score[i], resolved |-> bundle[i].resolved,
                          event |-> bundle[i].event] : i \in S}
              /\ turn' = turn + 1
              /\ UNCHANGED run
           \/ /\ ~(Accepted(f) /\ Computable(f, kind))
              /\ run' = "raised"
              /\ UNCHANGED <<turn, records>>
    /\ UNCHANGED <<vars, bundle, used, skills, challenger, calibrator, candidate>>
-----------------------------------------------------------------------------
(* Judging the models: sums stand for means over the sample of a kind. *)

Sample(k) == {r \in records : r.kind = k}

Happened(S) == {r \in S : r.event = "yes"}

SquaredError(r) ==
    LET d == IF r.event = "yes" THEN Whole - r.score ELSE r.score IN d * d

LogLoss(r) == Loss[IF r.event = "yes" THEN r.score ELSE Whole - r.score]

Brier(k) == MapThenSumSet(SquaredError, Sample(k))

TotalLoss(k) == MapThenSumSet(LogLoss, Sample(k))

\* The mean over the sample of j is less than that over the sample of k.
BrierLess(j, k) ==
    Brier(j) * Cardinality(Sample(k)) < Brier(k) * Cardinality(Sample(j))

LossLess(j, k) ==
    TotalLoss(j) * Cardinality(Sample(k)) < TotalLoss(k) * Cardinality(Sample(j))

\* Mutant of SkillState: the rows where nothing happened are not counted.
SkillStateOneClass(k) ==
    IF k = B0 THEN "REFERENCE_BASELINE"
    ELSE IF /\ Cardinality(Sample(k)) >= MinSample
            /\ Cardinality(Happened(Sample(k))) >= MinClass
            /\ ~BrierLess(B0, k)
            /\ ~LossLess(B0, k)
      THEN "ELIGIBLE_CHALLENGER"
      ELSE "REJECTED"

\* _skill_entry, with the tolerances of zero that BaselineSkillPolicy has.
SkillState(k) ==
    IF k = B0 THEN "REFERENCE_BASELINE"
    ELSE IF /\ Cardinality(Sample(k)) >= MinSample
            /\ Cardinality(Happened(Sample(k))) >= MinClass
            /\ Cardinality(Sample(k) \ Happened(Sample(k))) >= MinClass
            /\ ~BrierLess(B0, k)
            /\ ~LossLess(B0, k)
      THEN "ELIGIBLE_CHALLENGER"
      ELSE "REJECTED"

\* The order of (brier_score, log_loss, kind).
Better(j, k) ==
    \/ BrierLess(j, k)
    \/ /\ ~BrierLess(k, j)
       /\ \/ LossLess(j, k)
          \/ ~LossLess(k, j) /\ j < k

Judge ==
    /\ run = "running" /\ FoldOf(turn) \notin DOMAIN used
    /\ LET eligible == {k \in KindsRun : SkillState(k) = "ELIGIBLE_CHALLENGER"}
       IN  challenger' = {k \in eligible : \A j \in eligible \ {k} : Better(k, j)}
    /\ skills' = [k \in KindsRun |-> SkillState(k)]
    /\ run' = "returned"
    /\ UNCHANGED <<vars, bundle, used, turn, records, calibrator, candidate>>
-----------------------------------------------------------------------------
(* Recalibration of raw scores, with records that the caller picks. *)

\* Mutant of Fittable: records not resolved by the cutoff are not purged.
FittablePredicted(S, cutoff) == {r \in S : rows[r.row].predicted < cutoff}

Fittable(S, cutoff) ==
    {r \in S : rows[r.row].predicted < cutoff /\ r.resolved < cutoff}

\* fit_platt_calibrator_candidate on the records of some kinds; it raises, and
\* nothing happens, if too few of them are left of either class, and may raise
\* otherwise, because the fit is singular.
FitCalibrator ==
    /\ run = "returned" /\ calibrator = {}
    /\ \E K \in SUBSET KindsRun, cutoff \in FitCutoffs :
        LET fit == Fittable({r \in records : r.kind \in K}, cutoff)
        IN  /\ Cardinality(fit) >= FitSample
            /\ Cardinality(Happened(fit)) >= FitClass
            /\ Cardinality(fit \ Happened(fit)) >= FitClass
            /\ calibrator' = {[cutoff |-> cutoff, fit |-> fit]}
    /\ UNCHANGED <<vars, bundle, used, turn, records, skills, challenger,
                   candidate, run>>

Applicable(c, r) == rows[r.row].predicted >= c.cutoff

\* apply_platt_candidate.
Recalibrate ==
    /\ candidate = {}
    /\ \E c \in calibrator, r \in records :
        /\ Applicable(c, r)
        /\ candidate' = {r}
    /\ UNCHANGED <<vars, bundle, used, turn, records, skills, challenger,
                   calibrator, run>>

BaselineNext ==
    \/ Plan \/ StartRun \/ RunModel \/ Judge \/ FitCalibrator \/ Recalibrate

BaselineSpec == BaselineInit /\ [][BaselineNext]_allVars
-----------------------------------------------------------------------------
(* Properties. *)

BaselineTypeOK ==
    /\ bundle \in [Positions -> Entries] \cup {<<>>}
    /\ used \in Seq(Folds)
    /\ turn \in Nat
    /\ records \subseteq Records
    /\ skills \in [KindsRun -> SkillStates] \cup {<<>>}
    /\ challenger \subseteq KindsRun
    /\ calibrator \subseteq Calibrators
    /\ candidate \subseteq records
    /\ run \in {"waiting", "running", "returned", "raised"}

\* The training rows behind the raw score of a record.
Learnt(r) == used[r.fold].train

\* No look-ahead in what was predicted: with the labels as they are when the
\* models run, whatever was revised since the folds were planned, a score
\* depends on no label resolved within the embargo of its prediction or
\* later (_fold_rows).
TrainedOnThePast ==
    \A r \in records : \A i \in Learnt(r) :
        bundle[i].resolved < rows[r.row].predicted - config.embargo

\* The planner and the factory agree on what is known at a cutoff: folds that
\* start at the first one, handed over with the rows they were planned for,
\* are never refused (build_walk_forward_folds, _validate_folds, _fold_rows).
PlannedRunsAccepted ==
    run = "raised" =>
        \/ used = <<>>
        \/ \E i \in Positions : \A e \in {"yes", "no"} : bundle[i] # AsPlanned(i, e)

\* Models are compared fairly: each kind was tested once on every test row of
\* every fold, on the same outcomes as B0 (run_baseline_oos_factory).
JudgedAlike ==
    run = "returned" => \A k \in KindsRun, n \in 1..Len(used) :
        \A i \in used[n].test :
            \E r \in Sample(k) :
                /\ r.row = i /\ r.fold = n
                /\ r.event = bundle[i].event /\ r.resolved = bundle[i].resolved
                /\ \A other \in Sample(k) : other.row = i => other = r

RowsOf(S) == {r.row : r \in S}

OfEvent(S, e) == {r \in S : r.event = e}

\* A development challenger has earned it: it was tested on as many rows as
\* the policy asks for, and on as many of either class, each counted once; over
\* the very rows B0 was tested on it made no larger squared errors and no
\* larger log loss than B0 (as large ones will do); it comes first, by squared
\* errors and then by log loss, of the kinds that are eligible; and it is one
\* kind at most (_skill_entry, development_challenger).
ChallengerEarned ==
    \A k \in challenger :
        LET S == Sample(k)
            same == {r \in Sample(B0) : r.row \in RowsOf(S)}
        IN  /\ challenger = {k} /\ k # B0
            /\ Cardinality(RowsOf(S)) >= MinSample
            /\ \A e \in {"yes", "no"} : Cardinality(RowsOf(OfEvent(S, e))) >= MinClass
            /\ MapThenSumSet(SquaredError, S) <= MapThenSumSet(SquaredError, same)
            /\ MapThenSumSet(LogLoss, S) <= MapThenSumSet(LogLoss, same)
            /\ \A j \in KindsRun : skills[j] = "ELIGIBLE_CHALLENGER" =>
                \/ Brier(k) < Brier(j)
                \/ Brier(k) = Brier(j) /\ TotalLoss(k) <= TotalLoss(j)

\* No look-ahead in what is recalibrated: a recalibrated score depends on no
\* outcome known only after its prediction, neither through the outcomes its
\* calibrator was fitted to, nor through what the models behind the scores of
\* that fit had learnt, and it is not one of that fit's predictions
\* (fit_platt_calibrator_candidate, apply_platt_candidate).
CalibratedOnThePast ==
    \A r \in candidate, c \in calibrator : \A q \in c.fit :
        /\ q.resolved < rows[r.row].predicted
        /\ \A i \in Learnt(q) : bundle[i].resolved < rows[r.row].predicted
        /\ q.row # r.row

\* The inductive invariant: folds are still the planned ones of these rows,
\* records come from folds that were accepted with these labels, and what was
\* recalibrated comes after the cutoff of what it was recalibrated with.
RunInv ==
    /\ run = "waiting" => used = <<>> /\ records = {}
    /\ run # "waiting" => result = "returned" /\ bundle \in [Positions -> Entries]
    /\ used \in Seq(Folds)
    /\ \A n \in 1..Len(used) : Planned(used[n])
    /\ \A r \in records :
        /\ r.fold \in 1..Len(used) /\ r.row \in used[r.fold].test
        /\ r.resolved \in Nat
        /\ Accepted(used[r.fold])
    /\ \A c \in calibrator :
        /\ c.cutoff \in FitCutoffs /\ c.fit \subseteq records
        /\ \A q \in c.fit : q.resolved < c.cutoff /\ rows[q.row].predicted < c.cutoff
    /\ candidate \subseteq records
    /\ candidate # {} => calibrator # {}
    /\ \A r \in candidate, c \in calibrator : Applicable(c, r)
=============================================================================
