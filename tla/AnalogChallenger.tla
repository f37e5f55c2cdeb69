-------------------------- MODULE AnalogChallenger --------------------------
(***************************************************************************)
(* run_regime_analog_oos_challenger: after a baseline run, every test row  *)
(* of its folds is given the training rows that resemble it most, and a    *)
(* score from what became of those; or the row is suppressed.  The scores  *)
(* are judged against the best baseline on the same rows.                  *)
(*                                                                         *)
(* The caller hands features and labels over again: they may not be those  *)
(* the baselines saw.                                                      *)
(***************************************************************************)
EXTENDS BaselineOOS, HistoricalAnalog

CONSTANTS
    Profiles,          \* the features of a row, with its provider universe
    FeatureSets,       \* the features that may be handed over, by row
    ChallengePolicies, \* RegimeAnalogChallengerPolicy
    MaxRelabeled       \* bound: rows changed since the baseline run

\* A RegimeAnalogChallengerPolicy.
IsPolicy(p) ==
    /\ p.base \in AnalogConfigs /\ p.base.keys \cap p.base.excluded = {}
    /\ p.metrics \in Seq(STRING) /\ p.ablations \in Seq(SUBSET SignalNames)
    /\ p.lookbacks \in Seq(Nat) /\ p.filters \in Seq(SUBSET STRING)
    /\ <<>> \notin {p.metrics, p.ablations, p.lookbacks, p.filters}
    /\ p.requireStable \in BOOLEAN
    /\ {p.minReady, p.minSample, p.minClass} \subseteq Nat \ {0}
    /\ {p.minOverlap, p.minAgreement, p.maxSuppressed} \subseteq 0..100

ASSUME ChallengeAssumption ==
    /\ \A p \in Profiles :
        IsFeatures(p.features) /\ DOMAIN p = {"features", "universe"}
    /\ FeatureSets \subseteq Seq(Profiles)
    /\ \A p \in ChallengePolicies : IsPolicy(p)
    /\ MaxRelabeled \in Nat

VARIABLES
    profile,     \* profile[i]: the features of row i
    handed,      \* the labels handed over, as bundle
    policy,      \* challenger_policy
    tested,      \* folds tested so far
    analogs,     \* predictions with outcomes and matched rows
    suppressed,  \* test rows without a prediction
    comparator,  \* the baseline kind compared with, one or none
    verdict,     \* state of the RegimeAnalogOOSRun
    challenge    \* "waiting", "running", "returned" or "raised"

challengeVars == <<profile, handed, policy, tested, analogs, suppressed,
                   comparator, verdict, challenge>>
-----------------------------------------------------------------------------
ChallengeInit ==
    /\ BaselineInit
    /\ profile = <<>> /\ handed = <<>> /\ policy = <<>>
    /\ tested = 0 /\ analogs = {} /\ suppressed = {}
    /\ comparator = {} /\ verdict = "none" /\ challenge = "waiting"

\* Features are not complete or incomplete to the challenger.
Relabelings(i) == {e \in Revisions(i) : e.present => e.complete}

\* _validate_baseline_run: the folds must be those of the baseline run.  A
\* calibrator is nothing to the challenger: runs without one stand for all.
StartChallenge ==
    /\ run = "returned" /\ challenge = "waiting" /\ calibrator = {}
    /\ \/ /\ challenge' = "raised"
          /\ UNCHANGED <<profile, handed, policy>>
       \/ /\ profile' \in {p \in FeatureSets : Len(p) = Len(rows)}
          /\ policy' \in ChallengePolicies
          /\ \E R \in SUBSET Positions :
                /\ Cardinality(R) <= MaxRelabeled
                /\ \E changed \in [R -> UNION {Relabelings(i) : i \in R}] :
                    /\ \A i \in R : changed[i] \in Relabelings(i)
                    /\ handed' = [i \in Positions |->
                                    IF i \in R THEN changed[i] ELSE bundle[i]]
          /\ challenge' = "running"
    /\ UNCHANGED <<allVars, tested, analogs, suppressed, comparator, verdict>>
-----------------------------------------------------------------------------
(* One fold. *)

\* What is read in the features that a row may have.
ReadingOf == [p \in Profiles |-> Reading(p.features)]

State(i) ==
    StateOf(i, rows[i].predicted, ReadingOf[profile[i]], profile[i].universe)

\* training_states.
History(f) == {State(i) : i \in f.train}

\* Mutant of Readable: the labels of the training rows are not looked at.
ReadableUnresolved(f) ==
    /\ \A i \in f.train \cup f.test : handed[i].present
    /\ \A i \in f.train : handed[i].event # "absent"

\* _fold_rows, and _smoothed_rate needs the event of every training row.
Readable(f) ==
    /\ \A i \in f.train \cup f.test : handed[i].present
    /\ \A i \in f.train :
        handed[i].resolved < f.cutoff /\ handed[i].event # "absent"

BaseReady(f, i) == Ready(State(i), History(f), policy.base)

\* A search for row i raises.
Unsearchable(f, i) ==
    \/ SearchRaises(State(i), policy.base)
    \/ /\ BaseReady(f, i) /\ policy.requireStable
       /\ ScenarioRaises(policy)

\* The searches for row i that find something.
SearchesFor(f, i) ==
    {Search(State(i), History(f), c) :
        c \in {d \in {policy.base} \cup Scenarios(policy) :
                Ready(State(i), History(f), d)}}

BaseAnswer(f, i, answers) == answers[Search(State(i), History(f), policy.base)]

\* Row i gets a prediction: there are no suppression_reasons.
Answered(f, i, answers) ==
    /\ BaseReady(f, i)
    /\ policy.requireStable => Stable(State(i), History(f), policy, answers)

\* _weighted_probability and resolve_oos_outcome; scores are not computed.
PredictionOf(f, i, answers, score) ==
    [fold |-> tested + 1, row |-> i, score |-> score,
     resolved |-> handed[i].resolved, event |-> handed[i].event,
     matched |-> {s.row : s \in BaseAnswer(f, i, answers).states}]

\* resolve_oos_outcome raises if the label of a row with a prediction lacks
\* the event; the label of a suppressed row is never read.
TestFold(f, answers) ==
    LET P == {i \in f.test : Answered(f, i, answers)}
    IN  \/ /\ \A i \in P : handed[i].event # "absent"
           /\ \E score \in [P -> Scores] :
                analogs' = analogs \cup
                    {PredictionOf(f, i, answers, score[i]) : i \in P}
           /\ suppressed' = suppressed \cup (f.test \ P)
           /\ tested' = tested + 1
           /\ UNCHANGED challenge
        \/ /\ \E i \in P : handed[i].event = "absent"
           /\ challenge' = "raised"
           /\ UNCHANGED <<tested, analogs, suppressed>>

ChallengeFold ==
    /\ challenge = "running" /\ tested < Len(used)
    /\ LET f == used[tested + 1]
           fine == Readable(f) /\ \A i \in f.test : ~Unsearchable(f, i)
       IN  \/ /\ fine
              /\ \E answers \in Answers(UNION {SearchesFor(f, i) : i \in f.test}) :
                    TestFold(f, answers)
           \/ /\ ~fine
              /\ challenge' = "raised"
              /\ UNCHANGED <<tested, analogs, suppressed>>
    /\ UNCHANGED <<allVars, profile, handed, policy, comparator, verdict>>
-----------------------------------------------------------------------------
(* The verdict: sums over equally many rows stand for means. *)

AnalogRows == {a.row : a \in analogs}

\* Mutant of ComparedSample: the baseline is judged on all of its rows.
ComparedSampleAll(k) == Sample(k)

ComparedSample(k) == {r \in Sample(k) : r.row \in AnalogRows}

\* Mutant of Comparable: the reference is no comparator.
ComparableEligible ==
    {k \in KindsRun :
        skills[k] = "ELIGIBLE_CHALLENGER" /\ ComparedSample(k) # {}}

\* _baseline_evidence_on_subset: kinds that skipped a row still count.
Comparable ==
    {k \in KindsRun :
        /\ skills[k] \in {"REFERENCE_BASELINE", "ELIGIBLE_CHALLENGER"}
        /\ ComparedSample(k) # {}}

Squares(S) == MapThenSumSet(SquaredError, S)

Losses(S) == MapThenSumSet(LogLoss, S)

\* The mean over S is less than that over T.
SquaresLess(S, T) == Squares(S) * Cardinality(T) < Squares(T) * Cardinality(S)

LossesLess(S, T) == Losses(S) * Cardinality(T) < Losses(T) * Cardinality(S)

\* Mutant of Ahead: the kind with the largest errors is compared with.
AheadWorst(j, k) ==
    LET S == ComparedSample(j)
        T == ComparedSample(k)
    IN  \/ SquaresLess(T, S)
        \/ ~SquaresLess(S, T) /\ j < k

\* The order of (brier_score, log_loss, kind) on the compared samples.
Ahead(j, k) ==
    LET S == ComparedSample(j)
        T == ComparedSample(k)
    IN  \/ SquaresLess(S, T)
        \/ /\ ~SquaresLess(T, S)
           /\ LossesLess(S, T) \/ (~LossesLess(T, S) /\ j < k)

\* The reasons that there is not enough evidence.
Insufficient ==
    \/ Cardinality(analogs) < policy.minSample
    \/ Cardinality(Happened(analogs)) < policy.minClass
    \/ Cardinality(analogs \ Happened(analogs)) < policy.minClass
    \/ 100 * Cardinality(suppressed) >
       policy.maxSuppressed * (Cardinality(analogs) + Cardinality(suppressed))

\* NO_BRIER_IMPROVEMENT_OVER_H6 or LOG_LOSS_REGRESSION_VS_H6, with the
\* tolerances of zero that RegimeAnalogChallengerPolicy has.
Worse(k) ==
    SquaresLess(ComparedSample(k), analogs) \/ LossesLess(ComparedSample(k), analogs)

JudgeChallenge ==
    /\ challenge = "running" /\ tested = Len(used)
    /\ \/ /\ analogs = {}
          /\ verdict' = "INSUFFICIENT_EVIDENCE" /\ challenge' = "returned"
          /\ UNCHANGED comparator
       \/ /\ analogs # {} /\ Comparable = {}
          /\ challenge' = "raised"
          /\ UNCHANGED <<comparator, verdict>>
       \/ /\ analogs # {}
          /\ \E k \in Comparable :
                /\ \A j \in Comparable \ {k} : Ahead(k, j)
                /\ comparator' = {k}
                /\ verdict' = IF Insufficient THEN "INSUFFICIENT_EVIDENCE"
                              ELSE IF Worse(k) THEN "NO_DEMONSTRATED_REGIME_SKILL"
                              ELSE "ELIGIBLE_REGIME_CHALLENGER"
          /\ challenge' = "returned"
    /\ UNCHANGED <<allVars, profile, handed, policy, tested, analogs, suppressed>>

ChallengeNext ==
    \/ BaselineNext /\ challenge = "waiting" /\ UNCHANGED challengeVars
    \/ StartChallenge \/ ChallengeFold \/ JudgeChallenge

ChallengeSpec == ChallengeInit /\ [][ChallengeNext]_<<allVars, challengeVars>>
-----------------------------------------------------------------------------
(* Properties. *)

\* No look-ahead in what resembles: with the labels as they are handed to the
\* challenger, whatever was relabeled since the baselines ran, a score is
\* made of rows of the fold's training set that were predicted before its row
\* and resolved, by more than the embargo, before it (_fold_rows,
\* _eligible_candidates, _weighted_probability).
AnalogsKnown ==
    \A a \in analogs : \A i \in a.matched :
        /\ i \in used[a.fold].train
        /\ rows[i].predicted < rows[a.row].predicted
        /\ handed[i].resolved < rows[a.row].predicted - config.embargo

\* Nothing is dropped without a trace: every test row of every fold has one
\* prediction, made of k rows, or is suppressed, never both, and a row whose
\* regime is unknown is suppressed (predictions, suppressions).
PredictedOrSuppressed ==
    challenge = "returned" =>
        /\ AnalogRows \cup suppressed = UNION {used[n].test : n \in DOMAIN used}
        /\ AnalogRows \cap suppressed = {}
        /\ Cardinality(analogs) = Cardinality(AnalogRows)
        /\ \A a \in analogs :
            /\ a.row \in used[a.fold].test
            /\ Cardinality(a.matched) = policy.base.k
            /\ State(a.row).regime # "NO_DATA"

\* The comparison is fair: the baseline that the analogs are compared with is
\* judged on exactly the rows with an analog prediction, once each, whatever
\* was suppressed, and on the same outcome unless the row was relabeled
\* (_baseline_evidence_on_subset).
ComparedOnSameRows ==
    \A k \in comparator :
        /\ {r.row : r \in ComparedSample(k)} = AnalogRows
        /\ Cardinality(ComparedSample(k)) = Cardinality(analogs)
        /\ \A r \in ComparedSample(k), a \in analogs :
            r.row = a.row /\ handed[a.row] = bundle[a.row] =>
                r.event = a.event /\ r.resolved = a.resolved

\* An eligible challenger has earned it: it predicted as many rows as its
\* policy asks for, and as many of either class, each counted once; over those
\* rows it made no larger squared errors than any baseline that was not
\* rejected, and no larger log loss than the one it was compared with (as
\* large ones will do); it was compared with one; and it did not choose its
\* rows by suppressing more of the test rows than the policy allows
\* (comparator_kind, RegimeAnalogSkillState).
AnalogsEarned ==
    verdict = "ELIGIBLE_REGIME_CHALLENGER" =>
        /\ Cardinality(AnalogRows) >= policy.minSample
        /\ \A e \in {"yes", "no"} :
            Cardinality(RowsOf(OfEvent(analogs, e))) >= policy.minClass
        /\ \A k \in KindsRun : skills[k] # "REJECTED" =>
            MapThenSumSet(SquaredError, analogs) <=
            MapThenSumSet(SquaredError, {r \in Sample(k) : r.row \in AnalogRows})
        /\ \E k \in KindsRun :
            /\ comparator = {k} /\ skills[k] # "REJECTED"
            /\ MapThenSumSet(LogLoss, analogs) <=
               MapThenSumSet(LogLoss, {r \in Sample(k) : r.row \in AnalogRows})
        /\ 100 * Cardinality(suppressed) <=
           policy.maxSuppressed * Cardinality(UNION {used[n].test : n \in DOMAIN used})

\* With the folds and labels of the baseline run, and searches that name no
\* signals, the challenger never raises: there always is a baseline to
\* compare with (run_regime_analog_oos_challenger).
AlwaysComparable ==
    challenge = "raised" =>
        \/ profile = <<>>
        \/ policy.base.keys # {}
        \/ \E i \in Positions : \A e \in {"yes", "no"} : handed[i] # AsPlanned(i, e)
=============================================================================
