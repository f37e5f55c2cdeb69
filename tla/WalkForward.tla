---------------------------- MODULE WalkForward ----------------------------
(***************************************************************************)
(* build_walk_forward_folds: from labelled rows in the order of their      *)
(* prediction times it plans folds, each with test rows and the training   *)
(* rows whose labels were resolved before the fold's cutoff.               *)
(*                                                                         *)
(* A row is its position in that order, so that the tuples of row ids of a *)
(* fold are sets of positions; None is 0, which no size may be.            *)
(***************************************************************************)
EXTENDS Integers, Sequences, FiniteSets

CONSTANTS
    Datasets,   \* what join_labeled_rows returns: rows by prediction time
    Sizes,      \* the sizes a WalkForwardConfig may be built with
    Embargoes   \* embargo, in the unit of the rows' times

\* LabeledFeatureRow requires that a label is resolved after its prediction;
\* prediction times are unique.
IsDataset(d) ==
    /\ d \in Seq([predicted : Nat, resolved : Nat])
    /\ \A i \in 1..Len(d) : d[i].predicted < d[i].resolved
    /\ \A i, j \in 1..Len(d) : i < j => d[i].predicted < d[j].predicted

ASSUME WalkForwardAssumption ==
    /\ \A d \in Datasets : IsDataset(d)
    /\ Sizes \subseteq Nat
    /\ Embargoes \subseteq Nat

VARIABLES
    rows,       \* ordered
    config,     \* the WalkForwardConfig
    testStart,  \* test_start: rows before the next test rows
    folds,      \* the folds planned so far
    result      \* "planning", "returned" or "raised"

vars == <<rows, config, testStart, folds, result>>
-----------------------------------------------------------------------------
None == 0

Options == [minTrain : Sizes, testSize : Sizes, step : Sizes \cup {None},
            rolling : BOOLEAN, maxTrain : Sizes \cup {None},
            embargo : Embargoes]

EffectiveStep(c) == IF c.step = None THEN c.testSize ELSE c.step

\* Mutant of Configs: the step is not compared with the test size.
ConfigsAnyStep ==
    {c \in Options :
        /\ c.minTrain >= 1 /\ c.testSize >= 1 /\ EffectiveStep(c) >= 1
        /\ IF c.rolling THEN c.maxTrain >= c.minTrain ELSE c.maxTrain = None}

\* WalkForwardConfig.__post_init__.
Configs ==
    {c \in Options :
        /\ c.minTrain >= 1 /\ c.testSize >= 1
        /\ EffectiveStep(c) >= c.testSize
        /\ IF c.rolling THEN c.maxTrain >= c.minTrain ELSE c.maxTrain = None}

Positions == 1..Len(rows)

Folds == [cutoff : Int, train : SUBSET Positions, test : SUBSET Positions,
          purged : Nat]

TypeOK ==
    /\ rows \in Datasets
    /\ config \in Configs
    /\ testStart \in Nat
    /\ folds \in Seq(Folds)
    /\ result \in {"planning", "returned", "raised"}

Init ==
    /\ rows \in Datasets
    /\ config \in Configs
    /\ testStart = config.minTrain
    /\ folds = <<>>
    /\ result = "planning"
-----------------------------------------------------------------------------
\* The fold whose test rows come after the first s rows.
TestRows(s) == (s + 1)..(s + config.testSize)

Cutoff(s) == rows[s + 1].predicted - config.embargo

\* Mutant of Eligible: a label resolved at the cutoff counts as known.
EligibleAtCutoff(s) == {i \in 1..s : rows[i].resolved <= Cutoff(s)}

Eligible(s) == {i \in 1..s : rows[i].resolved < Cutoff(s)}

NotOlder(S, i) == {k \in S : k >= i}

\* Mutant of TrainRows: the window holds the oldest rows.
TrainRowsOldest(s) ==
    IF config.rolling
      THEN {i \in Eligible(s) :
              Cardinality({k \in Eligible(s) : k <= i}) <= config.maxTrain}
      ELSE Eligible(s)

\* A rolling window keeps the last max_train_size of the eligible rows.
TrainRows(s) ==
    IF config.rolling
      THEN {i \in Eligible(s) :
              Cardinality(NotOlder(Eligible(s), i)) <= config.maxTrain}
      ELSE Eligible(s)

Fold(s) == [cutoff |-> Cutoff(s), train |-> TrainRows(s), test |-> TestRows(s),
            purged |-> s - Cardinality(Eligible(s))]

PlanFold ==
    /\ result = "planning"
    /\ testStart + config.testSize <= Len(rows)
    /\ \/ /\ Cardinality(TrainRows(testStart)) >= config.minTrain
          /\ folds' = Append(folds, Fold(testStart))
       \/ /\ Cardinality(TrainRows(testStart)) < config.minTrain
          /\ UNCHANGED folds
    /\ testStart' = testStart + EffectiveStep(config)
    /\ UNCHANGED <<rows, config, result>>

Finish ==
    /\ result = "planning"
    /\ testStart + config.testSize > Len(rows)
    /\ \/ folds # <<>> /\ result' = "returned"
       \/ folds = <<>> /\ result' = "raised"
    /\ UNCHANGED <<rows, config, testStart, folds>>

Next == PlanFold \/ Finish

Spec == Init /\ [][Next]_vars
-----------------------------------------------------------------------------
(* Properties. *)

\* No look-ahead: whatever the order in which labels were resolved, a model
\* trained for a fold knows only labels resolved, by more than the embargo,
\* before each of the predictions it is tested on.
NoLeakage ==
    \A n \in 1..Len(folds) : \A i \in folds[n].train, j \in folds[n].test :
        rows[i].resolved < rows[j].predicted - config.embargo

\* Test rows come in order and no row is tested twice, whatever the step
\* and however many windows were skipped for want of training rows.
TestsForward ==
    \A m, n \in 1..Len(folds) : m < n =>
        \A i \in folds[m].test, j \in folds[n].test : i < j

\* The rows whose label was resolved before the cutoff of fold f.
Known(f) ==
    {i \in Positions : rows[i].resolved < f.cutoff /\ \A j \in f.test : i < j}

\* A row that was known and left out is older than every row of the window,
\* only a rolling window leaves one out, and no later window takes it back,
\* although older rows resolved late may still enter.
WindowForward ==
    \A m, n \in 1..Len(folds) : m <= n =>
        \A i \in Known(folds[m]) \ folds[m].train :
            /\ config.rolling
            /\ \A k \in folds[m].train : i < k
            /\ i \notin folds[n].train

\* The inductive invariant of the loop: every fold was planned for test rows
\* before the next ones, in the order of the folds.
Planned(f) ==
    \E s \in 0..testStart :
        /\ s + config.testSize <= testStart
        /\ s + config.testSize <= Len(rows)
        /\ f = Fold(s)

WalkForwardInv ==
    /\ TypeOK
    /\ \A n \in 1..Len(folds) : Planned(folds[n])
    /\ TestsForward
=============================================================================
