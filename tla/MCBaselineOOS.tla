--------------------------- MODULE MCBaselineOOS ---------------------------
(* An instance of BaselineOOS, and with it of WalkForward, for TLC.  It has *)
(* two parts: the plan with all configurations and two scores, and the      *)
(* verdict, where one fold tests all rows but the first.                    *)
EXTENDS BaselineOOS

CONSTANTS
    Times,   \* prediction times of the longest dataset
    Delays   \* resolved_at after prediction_time

MCTimes == SetToSortSeq(Times, <)

\* Every number of rows up to that of Times, every delay of every label.
MCDatasets ==
    UNION {{[i \in 1..n |-> [predicted |-> MCTimes[i],
                             resolved |-> MCTimes[i] + late[i]]] :
               late \in [1..n -> Delays]} : n \in 1..Len(MCTimes)}

\* B0, B1 (previous outcome), and B2 (momentum), which needs features.
MCKinds == <<0, 1, 2>>

\* -ln(s / 50) in hundredths: of three rows, one score of 9 for what happened
\* and two of 41 make smaller squared errors than three of 25, and a larger
\* log loss.
MCLoss == (9 :> 171) @@ (25 :> 69) @@ (41 :> 20)

\* Sizes of the plan's configurations, and of the verdict's fold.
PlanSizes == {1, 2}
VerdictSize == 3

InVerdict == config.testSize = VerdictSize

MCConfigs ==
    {c \in Configs :
        IF c.testSize = VerdictSize
          THEN c.minTrain = 1 /\ c.step = None /\ ~c.rolling
          ELSE {c.minTrain, c.testSize, c.step, c.maxTrain} \subseteq PlanSizes \cup {None}}

\* All labels in time for the verdict.
MCInit ==
    /\ BaselineInit /\ config \in MCConfigs
    /\ InVerdict => \A i \in Positions : rows[i].resolved = rows[i].predicted + 1

\* What a part varies.  In the plan B1 says what B0 says, and nothing is
\* recalibrated of it; for the verdict nothing is revised or recalibrated.
MCInputs ==
    IF InVerdict
      THEN /\ \A i \in DOMAIN bundle : \E e \in {"yes", "no"} : bundle[i] = AsPlanned(i, e)
           /\ calibrator = {}
      ELSE /\ \A r \in records : r.score \in {9, 41}
           /\ \A r, q \in records :
                r.fold = q.fold /\ r.kind = 1 /\ q.kind = 0 => r.score = q.score
           /\ \A r \in candidate \cup UNION {c.fit : c \in calibrator} :
                r.kind # 1

MCSpec == MCInit /\ [][BaselineNext /\ MCInputs']_allVars
=============================================================================
