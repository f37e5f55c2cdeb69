------------------------- MODULE BaselineOOSProofs -------------------------
(***************************************************************************)
(* That neither what is predicted nor what is recalibrated looks ahead,    *)
(* for every dataset, every configuration and every revision of labels.    *)
(* The folds come from WalkForward, whose theorems apply because a run is  *)
(* a behaviour of WalkForward with more variables.                         *)
(***************************************************************************)
EXTENDS BaselineOOS, WalkForwardProofs, FiniteSetFacts

\* Planning is WalkForward's, and a run leaves what was planned alone.
THEOREM Planning == BaselineSpec => Spec
<1>1. BaselineInit => Init
    BY DEF BaselineInit
<1>2. [BaselineNext]_allVars => [Next]_vars
    BY DEF BaselineNext, Plan, StartRun, RunModel, Judge, FitCalibrator,
           Recalibrate, allVars
<1> QED
    BY <1>1, <1>2, PTL DEF BaselineSpec, Spec

\* The cutoff of a planned fold is before its test rows by the embargo.
LEMMA CutoffBeforeTests ==
    ASSUME rows \in Datasets, config \in Configs, testStart \in Nat,
           NEW f, Planned(f), NEW j \in f.test
    PROVE  /\ j \in Positions /\ f.train \subseteq Positions
           /\ f.cutoff \in Int
           /\ f.cutoff <= rows[j].predicted - config.embargo
<1>1. PICK s \in 0..testStart :
            s + config.testSize <= Len(rows) /\ f = Fold(s)
    BY DEF Planned
<1>2. s \in Nat /\ j \in (s + 1)..(s + config.testSize)
    BY <1>1 DEF Fold, TestRows
<1>3. s + 1 \in Positions /\ j \in Positions /\ s < Len(rows)
    <2>1. Len(rows) \in Nat /\ config.testSize \in Nat /\ config.testSize >= 1
        BY RowsType, ConfigType
    <2> QED
        BY <1>1, <1>2, <2>1 DEF Positions
<1>4. rows[s + 1].predicted <= rows[j].predicted
    <2>1. CASE j = s + 1
        BY <2>1, <1>3, RowsType
    <2>2. CASE s + 1 < j
        <3>1. rows[s + 1].predicted < rows[j].predicted
            BY <2>2, <1>3, RowsType
        <3> QED
            BY <3>1, <1>3, RowsType
    <2> QED
        BY <2>1, <2>2, <1>2
<1>5. f.cutoff = rows[s + 1].predicted - config.embargo
    BY <1>1 DEF Fold, Cutoff
<1>6. f.train \subseteq Positions
    BY <1>1, <1>2, FoldType DEF Folds
<1>7. /\ rows[s + 1].predicted \in Nat /\ rows[j].predicted \in Nat
      /\ config.embargo \in Nat
    BY <1>3, RowsType, ConfigType
<1> QED
    BY <1>3, <1>4, <1>5, <1>6, <1>7

\* The test rows of a planned fold are finitely many.
LEMMA TestsFinite ==
    ASSUME rows \in Datasets, config \in Configs, testStart \in Nat, NEW f, Planned(f)
    PROVE  IsFiniteSet(f.test)
<1>1. PICK s \in 0..testStart : f = Fold(s)
    BY DEF Planned
<1>2. f.test = (s + 1)..(s + config.testSize) /\ s \in Nat /\ config.testSize \in Nat
    BY <1>1, ConfigType DEF Fold, TestRows
<1> QED
    BY <1>2, FS_Interval
-----------------------------------------------------------------------------
\* A gapless beginning of the planned folds.
LEMMA PrefixOfFolds ==
    ASSUME WalkForwardInv, NEW given \in SUBSET DOMAIN folds, given # {},
           given = 1..Cardinality(given)
    PROVE  /\ SubSeq(folds, 1, Cardinality(given)) \in Seq(Folds)
           /\ Len(SubSeq(folds, 1, Cardinality(given))) = Cardinality(given)
           /\ Cardinality(given) \in 1..Len(folds)
           /\ \A n \in 1..Cardinality(given) :
                SubSeq(folds, 1, Cardinality(given))[n] = folds[n]
<1> DEFINE k == Cardinality(given)
<1>1. folds \in Seq(Folds) /\ DOMAIN folds = 1..Len(folds) /\ Len(folds) \in Nat
    BY DEF WalkForwardInv, TypeOK
<1>2. IsFiniteSet(1..Len(folds))
    BY <1>1, FS_Interval
<1>3. IsFiniteSet(given)
    BY <1>1, <1>2, FS_Subset
<1>4. k \in Nat
    BY <1>3, FS_CardinalityType
<1>5. k >= 1 /\ k \in given
    BY <1>4
<1> HIDE DEF k
<1>6. k \in 1..Len(folds)
    BY <1>1, <1>4, <1>5
<1> QED
    BY <1>1, <1>6 DEF k

\* The folds that a run begins with are some of the planned ones.
LEMMA StartKeeps ==
    ASSUME WalkForwardInv, RunInv, StartRun
    PROVE  RunInv'
<1>1. /\ UNCHANGED <<rows, config, testStart, folds, result>>
      /\ UNCHANGED <<records, calibrator, candidate>>
      /\ result = "returned" /\ records = {} /\ run' # "waiting"
    BY DEF StartRun, vars, RunInv
<1>3. candidate = {}
    BY <1>1 DEF RunInv
<1>4. bundle' \in [Positions -> Entries]
    <2>1. PICK event \in [Positions -> {"yes", "no"}], R \in SUBSET Positions :
            \E revised \in [R -> UNION {Revisions(i) : i \in R}] :
                /\ \A i \in R : revised[i] \in Revisions(i)
                /\ bundle' = [i \in Positions |->
                                IF i \in R THEN revised[i]
                                           ELSE AsPlanned(i, event[i])]
        BY DEF StartRun
    <2>2. PICK revised \in [R -> UNION {Revisions(i) : i \in R}] :
                /\ \A i \in R : revised[i] \in Revisions(i)
                /\ bundle' = [i \in Positions |->
                                IF i \in R THEN revised[i]
                                           ELSE AsPlanned(i, event[i])]
        BY <2>1
    <2>3. \A i \in Positions : AsPlanned(i, event[i]) \in Entries
        BY <2>1, RowsType DEF WalkForwardInv, TypeOK, AsPlanned, Entries
    <2>4. \A i \in R : Revisions(i) \subseteq Entries
        <3> SUFFICES ASSUME NEW i \in R, NEW e \in Revisions(i)
                     PROVE  e \in Entries
            OBVIOUS
        <3>1. CASE e = Missing
            BY <3>1 DEF Missing, Entries
        <3>2. CASE e \in [present : {TRUE}, complete : BOOLEAN,
                          resolved : Resolutions,
                          event : {"yes", "no", "absent"}]
            <4>1. e.present \in BOOLEAN /\ e.resolved \in Nat
                BY <3>2, BaselineAssumption
            <4> QED
                BY <3>2, <4>1 DEF Entries
        <3> QED
            BY <3>1, <3>2 DEF Revisions
    <2>5. \A i \in Positions : bundle'[i] \in Entries
        BY <2>2, <2>3, <2>4
    <2> QED
        BY <2>2, <2>5
<1>5. used' \in Seq(Folds) /\ \A n \in 1..Len(used') : Planned(used'[n])
    <2>1. folds \in Seq(Folds) /\ \A n \in 1..Len(folds) : Planned(folds[n])
        BY DEF WalkForwardInv, TypeOK
    <2>2. CASE UNCHANGED used
        BY <2>2 DEF RunInv
    <2>3. ASSUME NEW given \in SUBSET DOMAIN folds,
                 given # {}, given = 1..Cardinality(given),
                 used' = SubSeq(folds, 1, Cardinality(given))
          PROVE  used' \in Seq(Folds) /\ \A n \in 1..Len(used') : Planned(used'[n])
        BY <2>1, <2>3, PrefixOfFolds
    <2> QED
        BY <2>2, <2>3 DEF StartRun
<1>6. \A c \in calibrator : c.cutoff \in FitCutoffs /\ c.fit \subseteq records
    BY DEF RunInv
<1>7. (\A n \in 1..Len(used) : Planned(used[n]))'
    <2>1. ASSUME NEW CONSTANT f, Planned(f)
          PROVE  Planned(f)'
        BY <1>1, <2>1 DEF Planned, Fold, Cutoff, TrainRows, TestRows, Eligible
    <2> QED
        BY <1>5, <2>1
<1>8. (bundle \in [Positions -> Entries])' /\ (used \in Seq(Folds))'
    BY <1>1, <1>4, <1>5 DEF Positions, Folds
<1>9. records' = {} /\ candidate' = {} /\ run' # "waiting" /\ result' = "returned"
    BY <1>1, <1>3
<1>10. \A c \in calibrator' : c.cutoff \in FitCutoffs /\ c.fit \subseteq records'
    BY <1>1, <1>6
<1>11. \A c \in calibrator' : c.fit = {}
    BY <1>9, <1>10
<1> QED
    BY <1>7, <1>8, <1>9, <1>10, <1>11 DEF RunInv

\* Nothing is planned once a run has begun, and nothing is kept before.
LEMMA PlanKeeps ==
    ASSUME WalkForwardInv, RunInv, Plan
    PROVE  RunInv'
<1>1. run = "waiting" /\ run' = "waiting"
    BY DEF RunInv, Plan, runVars, Next, PlanFold, Finish
<1>2. used = <<>> /\ records = {} /\ candidate = {}
    BY <1>1 DEF RunInv
<1>3. \A c \in calibrator : c.cutoff \in FitCutoffs /\ c.fit = {}
    BY <1>2 DEF RunInv
<1>4. UNCHANGED <<used, records, candidate, calibrator>>
    BY DEF Plan, runVars
<1>5. used' \in Seq(Folds') /\ Len(used') = 0
    BY <1>2, <1>4
<1> QED
    BY <1>1, <1>2, <1>3, <1>4, <1>5 DEF RunInv

\* What the invariant says of folds, of records and of calibrators stays true
\* as long as the run's inputs stay.
LEMMA InputsKeep ==
    ASSUME UNCHANGED <<vars, bundle, used>>
    PROVE  /\ Positions' = Positions /\ Folds' = Folds
           /\ \A f : Planned(f) => Planned(f)'
           /\ \A f : Accepted(f) => Accepted(f)'
           /\ \A c, r : Applicable(c, r) => Applicable(c, r)'
BY DEF vars, Positions, Folds, Planned, Fold, Cutoff, TrainRows, TestRows,
       Eligible, Accepted, Applicable

\* A model is run on an accepted fold.
LEMMA RunModelKeeps ==
    ASSUME WalkForwardInv, RunInv, RunModel
    PROVE  RunInv'
<1>1. UNCHANGED <<vars, bundle, used, calibrator, candidate>>
      /\ run # "waiting" /\ run' # "waiting" /\ FoldOf(turn) \in 1..Len(used)
    BY DEF RunModel, RunInv
<1>2. PICK S : S = used[FoldOf(turn)].test
    OBVIOUS
<1>3. \A r \in records' : \/ r \in records
                          \/ /\ r.fold = FoldOf(turn) /\ r.row \in S
                             /\ r.resolved = bundle[r.row].resolved
                             /\ Accepted(used[FoldOf(turn)])
    BY <1>2 DEF RunModel
<1>4. \A i \in Positions : bundle[i].resolved \in Nat
    BY <1>1 DEF RunInv, Entries
<1>5. S \subseteq Positions
    BY <1>1, <1>2, CutoffBeforeTests DEF RunInv, WalkForwardInv, TypeOK
<1>6. \A r \in records' :
        /\ r.fold \in 1..Len(used) /\ r.row \in used[r.fold].test
        /\ r.resolved \in Nat /\ Accepted(used[r.fold])
    BY <1>1, <1>2, <1>3, <1>4, <1>5 DEF RunInv
<1>7. records \subseteq records'
    BY DEF RunModel
<1> QED
    BY <1>1, <1>6, <1>7, InputsKeep DEF RunInv, vars

\* Judging adds nothing that a score depends on.
LEMMA JudgeKeeps ==
    ASSUME RunInv, Judge
    PROVE  RunInv'
<1>1. UNCHANGED <<vars, bundle, used, records, calibrator, candidate>>
      /\ run # "waiting" /\ run' # "waiting"
    BY DEF Judge
<1> QED
    BY <1>1, InputsKeep DEF RunInv, vars

\* A calibrator is fitted to records resolved before its cutoff.
LEMMA FitKeeps ==
    ASSUME RunInv, FitCalibrator
    PROVE  RunInv'
<1>1. UNCHANGED <<vars, bundle, used, records, candidate, run>>
      /\ run # "waiting" /\ candidate = {}
    BY DEF FitCalibrator, RunInv
<1>2. \A c \in calibrator' :
        /\ c.cutoff \in FitCutoffs /\ c.fit \subseteq records
        /\ \A q \in c.fit : q.resolved < c.cutoff /\ rows[q.row].predicted < c.cutoff
    BY DEF FitCalibrator, Fittable
<1> QED
    BY <1>1, <1>2, InputsKeep DEF RunInv, vars

\* There is one calibrator, and what it is applied to comes after its cutoff.
LEMMA RecalibrateKeeps ==
    ASSUME RunInv, Recalibrate, \A c, d \in calibrator : c = d
    PROVE  RunInv'
<1>1. UNCHANGED <<vars, bundle, used, records, calibrator, run>>
    BY DEF Recalibrate
<1>2. /\ candidate' \subseteq records /\ calibrator # {}
      /\ \A r \in candidate', c \in calibrator : Applicable(c, r)
    BY DEF Recalibrate
<1> QED
    BY <1>1, <1>2, InputsKeep DEF RunInv, vars

\* The invariant holds in every reachable state.
THEOREM RunInvariant ==
    BaselineSpec => [](WalkForwardInv /\ RunInv /\ \A c, d \in calibrator : c = d)
<1> DEFINE One == \A c, d \in calibrator : c = d
<1>1. BaselineInit => RunInv /\ One
    BY DEF BaselineInit, RunInv, Folds
<1>2. WalkForwardInv /\ RunInv /\ One /\ [BaselineNext]_allVars => RunInv' /\ One'
    <2> SUFFICES ASSUME WalkForwardInv, RunInv, One, [BaselineNext]_allVars
                 PROVE  RunInv' /\ One'
        OBVIOUS
    <2>1. One'
        BY DEF BaselineNext, Plan, StartRun, RunModel, Judge, FitCalibrator,
               Recalibrate, allVars, runVars
    <2>2. CASE UNCHANGED allVars
        BY <2>2, InputsKeep DEF allVars, runVars, RunInv, vars
    <2> HIDE DEF One
    <2> QED
        BY <2>1, <2>2, PlanKeeps, StartKeeps, RunModelKeeps, JudgeKeeps,
           FitKeeps, RecalibrateKeeps DEF BaselineNext, One
<1> QED
    BY <1>1, <1>2, Planning, LoopInvariant, PTL DEF BaselineSpec

\* TrainedOnThePast for every instance: no score depends on a label that was
\* resolved within the embargo of its prediction, or later (_fold_rows).
THEOREM ScoresFromThePast == BaselineSpec => []TrainedOnThePast
<1>1. ASSUME WalkForwardInv, RunInv
      PROVE  TrainedOnThePast
    <2> SUFFICES ASSUME NEW r \in records, NEW i \in Learnt(r)
                 PROVE  bundle[i].resolved < rows[r.row].predicted - config.embargo
        BY DEF TrainedOnThePast
    <2>1. rows \in Datasets /\ config \in Configs /\ testStart \in Nat
        BY <1>1 DEF WalkForwardInv, TypeOK
    <2>2. /\ Planned(used[r.fold]) /\ r.row \in used[r.fold].test
          /\ Accepted(used[r.fold]) /\ run # "waiting"
        BY <1>1 DEF RunInv
    <2>3. /\ r.row \in Positions /\ i \in Positions
          /\ used[r.fold].cutoff \in Int
          /\ used[r.fold].cutoff <= rows[r.row].predicted - config.embargo
        BY <2>1, <2>2, CutoffBeforeTests DEF Learnt
    <2>4. bundle[i].resolved \in Nat
        BY <1>1, <2>2, <2>3 DEF RunInv, Entries
    <2>5. bundle[i].resolved < used[r.fold].cutoff
        BY <2>2 DEF Accepted, Learnt
    <2>6. rows[r.row].predicted \in Nat /\ config.embargo \in Nat
        BY <2>1, <2>3, RowsType, ConfigType
    <2> QED
        BY <2>3, <2>4, <2>5, <2>6
<1> QED
    BY <1>1, RunInvariant, PTL

\* CalibratedOnThePast for every instance: no recalibrated score depends on an
\* outcome known after its prediction, through its calibrator or through the
\* models whose scores the calibrator was fitted to (apply_platt_candidate).
THEOREM CalibrationFromThePast == BaselineSpec => []CalibratedOnThePast
<1>1. ASSUME WalkForwardInv, RunInv, TrainedOnThePast
      PROVE  CalibratedOnThePast
    <2> SUFFICES ASSUME NEW r \in candidate, NEW c \in calibrator, NEW q \in c.fit
                 PROVE  /\ q.resolved < rows[r.row].predicted
                        /\ \A i \in Learnt(q) : bundle[i].resolved < rows[r.row].predicted
                        /\ q.row # r.row
        BY DEF CalibratedOnThePast
    <2>1. rows \in Datasets /\ config \in Configs /\ testStart \in Nat
        BY <1>1 DEF WalkForwardInv, TypeOK
    <2>2. /\ r \in records /\ q \in records /\ c.cutoff \in FitCutoffs
          /\ q.resolved < c.cutoff /\ rows[q.row].predicted < c.cutoff
          /\ c.cutoff <= rows[r.row].predicted
        BY <1>1 DEF RunInv, Applicable
    <2>3. \A x \in records : /\ x.row \in Positions /\ Learnt(x) \subseteq Positions
                             /\ x.resolved \in Nat /\ run # "waiting"
        BY <1>1, <2>1, CutoffBeforeTests DEF RunInv, Learnt
    <2>4. /\ rows[r.row].predicted \in Nat /\ rows[q.row].predicted \in Nat
          /\ q.resolved \in Nat /\ c.cutoff \in Nat /\ config.embargo \in Nat
        BY <2>1, <2>2, <2>3, RowsType, ConfigType, BaselineAssumption
    <2>5. ASSUME NEW i \in Learnt(q)
          PROVE  bundle[i].resolved < rows[r.row].predicted
        <3>1. bundle[i].resolved < rows[q.row].predicted - config.embargo
            BY <1>1, <2>2 DEF TrainedOnThePast
        <3>2. bundle[i].resolved \in Nat
            BY <1>1, <2>2, <2>3 DEF RunInv, Entries
        <3> QED
            BY <2>2, <2>4, <3>1, <3>2
    <2> QED
        BY <2>2, <2>4, <2>5
<1> QED
    BY <1>1, RunInvariant, ScoresFromThePast, PTL
-----------------------------------------------------------------------------
(* The rounds of the loops over folds and kinds: the records are those of   *)
(* the rounds so far, each row of each round once.                          *)

RoundInv ==
    /\ turn \in Nat /\ IsFiniteSet(records)
    /\ run = "waiting" => turn = 0
    /\ run # "returned" => challenger = {}
    /\ run = "returned" => FoldOf(turn) > Len(used)
    /\ \A m, n \in 1..Len(used) : m < n =>
        \A i \in used[m].test, j \in used[n].test : i < j
    /\ \A r \in records :
        /\ \E m \in 0..(turn - 1) : r.fold = FoldOf(m) /\ r.kind = KindOf(m)
        /\ r.event = bundle[r.row].event /\ r.resolved = bundle[r.row].resolved
        /\ r.event \in {"yes", "no"} /\ r.score \in Scores
    /\ \A m \in 0..(turn - 1) : FoldOf(m) \in 1..Len(used) =>
        \A i \in used[FoldOf(m)].test :
            \E r \in records : r.fold = FoldOf(m) /\ r.kind = KindOf(m) /\ r.row = i
    /\ \A r, q \in records :
        r.fold = q.fold /\ r.kind = q.kind /\ r.row = q.row => r = q

\* The kinds are a sequence without repetitions, and B0 is one of them.
LEMMA KindsType ==
    /\ Len(Kinds) \in Nat \ {0} /\ DOMAIN Kinds = 1..Len(Kinds)
    /\ \A i, j \in 1..Len(Kinds) : Kinds[i] = Kinds[j] => i = j
    /\ \A k \in KindsRun : k \in 0..4 /\ \E j \in 1..Len(Kinds) : k = Kinds[j]
    /\ B0 \in KindsRun
<1>1. Kinds \in Seq(0..4) /\ IsInjective(Kinds) /\ B0 \in Range(Kinds)
    BY BaselineAssumption
<1>2. DOMAIN Kinds = 1..Len(Kinds) /\ Len(Kinds) \in Nat
    BY <1>1
<1>3. \A k \in KindsRun : k \in 0..4 /\ \E j \in 1..Len(Kinds) : k = Kinds[j]
    BY <1>1, <1>2 DEF KindsRun, Range
<1> QED
    BY <1>1, <1>2, <1>3 DEF IsInjective, KindsRun

\* Rounds count off the kinds of a fold, then go to the next fold.
LEMMA Rounds ==
    /\ \A m \in Nat : FoldOf(m) \in Nat \ {0} /\ KindOf(m) \in KindsRun
    /\ \A m, n \in Nat : FoldOf(m) = FoldOf(n) /\ KindOf(m) = KindOf(n) => m = n
    /\ \A f \in Nat \ {0}, k \in KindsRun, n \in Nat : f < FoldOf(n) =>
        \E m \in 0..(n - 1) : FoldOf(m) = f /\ KindOf(m) = k
<1> DEFINE L == Len(Kinds)
<1>1. L \in Nat \ {0}
    BY KindsType
<1> HIDE DEF L
<1>2. \A m \in Nat : /\ m % L \in 0..(L - 1) /\ m \div L \in Nat
                     /\ m = L * (m \div L) + (m % L)
    BY <1>1
<1>3. \A m \in Nat : FoldOf(m) = (m \div L) + 1 /\ KindOf(m) = Kinds[(m % L) + 1]
    BY DEF FoldOf, KindOf, L
<1>4. ASSUME NEW m \in Nat
      PROVE  FoldOf(m) \in Nat \ {0} /\ KindOf(m) \in KindsRun
    <2>1. m \div L \in Nat /\ (m % L) + 1 \in 1..L
        BY <1>1, <1>2
    <2>2. Kinds[(m % L) + 1] \in KindsRun
        BY <2>1, KindsType DEF KindsRun, Range, L
    <2> QED
        BY <1>3, <2>1, <2>2
<1>5. ASSUME NEW m \in Nat, NEW n \in Nat,
             FoldOf(m) = FoldOf(n), KindOf(m) = KindOf(n)
      PROVE  m = n
    <2>1. m % L \in 0..(L - 1) /\ n % L \in 0..(L - 1)
          /\ m \div L \in Nat /\ n \div L \in Nat
        BY <1>2
    <2>2. m \div L = n \div L
        BY <1>3, <1>5, <2>1
    <2>3. (m % L) + 1 = (n % L) + 1
        <3>1. (m % L) + 1 \in 1..L /\ (n % L) + 1 \in 1..L
            BY <1>1, <2>1
        <3>2. Kinds[(m % L) + 1] = Kinds[(n % L) + 1]
            BY <1>3, <1>5
        <3> HIDE <2>1
        <3> QED
            BY <3>1, <3>2, KindsType DEF L
    <2>4. m % L = n % L
        BY <2>1, <2>3
    <2> QED
        BY <1>2, <2>2, <2>4
<1>6. ASSUME NEW f \in Nat \ {0}, NEW k \in KindsRun, NEW n \in Nat, f < FoldOf(n)
      PROVE  \E m \in 0..(n - 1) : FoldOf(m) = f /\ KindOf(m) = k
    <2>1. PICK j \in 1..L : k = Kinds[j]
        BY KindsType DEF L
    <2>2. PICK g \in Nat : f = g + 1
        <3>1. f - 1 \in Nat /\ f = (f - 1) + 1
            OBVIOUS
        <3> QED
            BY <3>1
    <2> DEFINE d == n \div L
               m == L * g + (j - 1)
    <2>3. d \in Nat /\ n = L * d + (n % L) /\ n % L \in 0..(L - 1) /\ FoldOf(n) = d + 1
        BY <1>2, <1>3
    <2> HIDE DEF d
    <2>4. g < d /\ j - 1 \in 0..(L - 1)
        BY <1>1, <1>6, <2>2, <2>3
    <2>5. L * g \in Nat /\ L * d \in Nat /\ L * g + L <= L * d
        BY <1>1, <2>4, <2>3
    <2>6. m \in 0..(n - 1)
        BY <1>1, <2>4, <2>5, <2>3
    <2>7. m % L = j - 1 /\ m \div L = g
        BY <1>1, <2>4
    <2>8. m \in Nat
        BY <2>6
    <2>9. FoldOf(m) = g + 1 /\ KindOf(m) = Kinds[(j - 1) + 1]
        BY <1>3, <2>7, <2>8
    <2> QED
        BY <2>1, <2>2, <2>6, <2>9
<1> QED
    BY <1>4, <1>5, <1>6

\* Nothing that the rounds are described by changes.
LEMMA RoundsStay ==
    ASSUME RoundInv, UNCHANGED <<bundle, used, turn, records, challenger, run>>
    PROVE  RoundInv'
BY DEF RoundInv, FoldOf, KindOf

\* A run starts before its first round, with the first of the planned folds.
LEMMA StartRounds ==
    ASSUME WalkForwardInv, RunInv, RoundInv, StartRun
    PROVE  RoundInv'
<1>1. /\ records = {} /\ used = <<>> /\ turn = 0 /\ challenger = {}
      /\ UNCHANGED <<turn, records, challenger>>
      /\ run' \in {"running", "raised"}
    BY DEF StartRun, RunInv, RoundInv
<1>2. \A m, n \in 1..Len(used') : m < n =>
        \A i \in used'[m].test, j \in used'[n].test : i < j
    <2>1. CASE UNCHANGED used
        BY <2>1 DEF RoundInv
    <2>2. ASSUME NEW given \in SUBSET DOMAIN folds,
                 given # {}, given = 1..Cardinality(given),
                 used' = SubSeq(folds, 1, Cardinality(given))
          PROVE  \A m, n \in 1..Len(used') : m < n =>
                    \A i \in used'[m].test, j \in used'[n].test : i < j
        <3>1. Len(used') \in 0..Len(folds) /\ \A n \in 1..Len(used') : used'[n] = folds[n]
            BY <2>2, PrefixOfFolds
        <3> QED
            BY <3>1 DEF WalkForwardInv, TestsForward
    <2> QED
        BY <2>1, <2>2 DEF StartRun
<1>3. records' = {} /\ turn' = 0 /\ challenger' = {} /\ 0..(turn' - 1) = {}
    BY <1>1
<1> QED
    BY <1>1, <1>2, <1>3, FS_EmptySet DEF RoundInv

\* A round adds the test rows of its fold, for its kind.
LEMMA RunModelRounds ==
    ASSUME WalkForwardInv, RunInv, RoundInv, RunModel
    PROVE  RoundInv'
<1> DEFINE f == FoldOf(turn)
           k == KindOf(turn)
           S == used[f].test
<1>1. /\ UNCHANGED <<bundle, used, challenger>> /\ turn \in Nat
      /\ run = "running" /\ run' \in {"running", "raised"} /\ f \in 1..Len(used)
      /\ f \in Nat /\ challenger = {}
    BY Rounds DEF RunModel, RunInv, RoundInv
<1>2. CASE UNCHANGED <<turn, records>>
    BY <1>1, <1>2 DEF RoundInv, FoldOf, KindOf
<1>3. CASE /\ Accepted(used[f]) /\ Computable(used[f], k)
           /\ \E score \in ScoresOf(S, k) :
                records' = records \cup
                        {[fold |-> f, kind |-> k, row |-> i,
                          score |-> score[i], resolved |-> bundle[i].resolved,
                          event |-> bundle[i].event] : i \in S}
           /\ turn' = turn + 1
    <2>1. PICK score \in ScoresOf(S, k) :
                records' = records \cup
                        {[fold |-> f, kind |-> k, row |-> i,
                          score |-> score[i], resolved |-> bundle[i].resolved,
                          event |-> bundle[i].event] : i \in S}
        BY <1>3
    <2> DEFINE Of(i) == [fold |-> f, kind |-> k, row |-> i,
                         score |-> score[i], resolved |-> bundle[i].resolved,
                         event |-> bundle[i].event]
               New == {Of(i) : i \in S}
    <2>2. records' = records \cup New /\ score \in [S -> Scores]
        BY <2>1 DEF ScoresOf
    <2>3. \A i \in S : bundle[i].event \in {"yes", "no"}
        <3>1. S \subseteq Positions /\ bundle \in [Positions -> Entries]
            BY <1>1, CutoffBeforeTests DEF RunInv, WalkForwardInv, TypeOK
        <3>2. \A i \in S : bundle[i].event # "absent" /\ bundle[i] \in Entries
            BY <1>3, <3>1 DEF Computable
        <3> QED
            BY <3>2 DEF Entries
    <2>4. IsFiniteSet(New)
        <3>1. IsFiniteSet(S)
            BY <1>1, TestsFinite DEF RunInv, WalkForwardInv, TypeOK
        <3>2. /\ [i \in S |-> Of(i)] \in [S -> New]
              /\ \A t \in New : \E i \in S : [j \in S |-> Of(j)][i] = t
            OBVIOUS
        <3> HIDE DEF New, Of, S
        <3> QED
            BY <3>1, <3>2, FiniteImage
    <2>5. \A r \in New : /\ r.fold = f /\ r.kind = k /\ r.row \in S /\ r = Of(r.row)
                         /\ r.event = bundle[r.row].event
                         /\ r.resolved = bundle[r.row].resolved
                         /\ r.event \in {"yes", "no"} /\ r.score \in Scores
        BY <2>2, <2>3
    <2>6. \A i \in S : \E r \in New : r.fold = f /\ r.kind = k /\ r.row = i
        <3> SUFFICES ASSUME NEW i \in S
                     PROVE  \E r \in New : r.fold = f /\ r.kind = k /\ r.row = i
            OBVIOUS
        <3>1. Of(i) \in New /\ Of(i).fold = f /\ Of(i).kind = k /\ Of(i).row = i
            OBVIOUS
        <3> QED
            BY <3>1
    <2> HIDE DEF New, Of
    <2>7. IsFiniteSet(records')
        BY <2>2, <2>4, FS_Union DEF RoundInv
    <2>8. \A r \in records' :
            /\ \E m \in 0..(turn' - 1) : r.fold = FoldOf(m) /\ r.kind = KindOf(m)
            /\ r.event = bundle[r.row].event /\ r.resolved = bundle[r.row].resolved
            /\ r.event \in {"yes", "no"} /\ r.score \in Scores
        BY <1>1, <1>3, <2>2, <2>5 DEF RoundInv
    <2>9. \A m \in 0..(turn' - 1) : FoldOf(m) \in 1..Len(used) =>
            \A i \in used[FoldOf(m)].test :
                \E r \in records' : r.fold = FoldOf(m) /\ r.kind = KindOf(m) /\ r.row = i
        <3> SUFFICES ASSUME NEW m \in 0..(turn' - 1), FoldOf(m) \in 1..Len(used),
                            NEW i \in used[FoldOf(m)].test
                     PROVE  \E r \in records' :
                                r.fold = FoldOf(m) /\ r.kind = KindOf(m) /\ r.row = i
            OBVIOUS
        <3>1. CASE m \in 0..(turn - 1)
            BY <2>2, <3>1 DEF RoundInv
        <3>2. CASE m = turn
            BY <2>2, <2>6, <3>2
        <3> QED
            BY <1>1, <1>3, <3>1, <3>2
    <2>10. \A r, q \in records' :
            r.fold = q.fold /\ r.kind = q.kind /\ r.row = q.row => r = q
        <3>1. \A r \in records : r.fold # f \/ r.kind # k
            <4> SUFFICES ASSUME NEW r \in records, r.fold = f, r.kind = k PROVE FALSE
                OBVIOUS
            <4>1. PICK m \in 0..(turn - 1) : FoldOf(turn) = FoldOf(m) /\ KindOf(turn) = KindOf(m)
                BY DEF RoundInv
            <4> QED
                BY <1>1, <4>1, Rounds
        <3>2. \A r, q \in New : r.row = q.row => r = q
            BY <2>5
        <3> HIDE DEF f, k
        <3> QED
            BY <2>2, <2>5, <3>1, <3>2 DEF RoundInv
    <2>11. turn' \in Nat
        BY <1>1, <1>3
    <2> QED
        BY <1>1, <2>7, <2>8, <2>9, <2>10, <2>11 DEF RoundInv, FoldOf, KindOf
<1> QED
    BY <1>2, <1>3 DEF RunModel

\* A run returns when no fold is left; only then is there a challenger.
LEMMA JudgeRounds ==
    ASSUME RunInv, RoundInv, Judge
    PROVE  RoundInv'
<1>1. /\ UNCHANGED <<bundle, used, turn, records>> /\ run' = "returned"
      /\ used \in Seq(Folds) /\ turn \in Nat /\ FoldOf(turn) \notin 1..Len(used)
    BY DEF Judge, RunInv, RoundInv
<1>2. FoldOf(turn) > Len(used)
    BY <1>1, Rounds
<1> QED
    BY <1>1, <1>2 DEF RoundInv, FoldOf, KindOf

\* The records are those of the rounds in every reachable state.
THEOREM RoundInvariant == BaselineSpec => []RoundInv
<1>1. BaselineInit => RoundInv
    <2> SUFFICES ASSUME BaselineInit PROVE RoundInv
        OBVIOUS
    <2>1. /\ turn = 0 /\ records = {} /\ run = "waiting" /\ challenger = {}
          /\ Len(used) = 0 /\ 0..(turn - 1) = {}
        BY DEF BaselineInit
    <2> QED
        BY <2>1, FS_EmptySet DEF RoundInv
<1>2. WalkForwardInv /\ RunInv /\ RoundInv /\ [BaselineNext]_allVars => RoundInv'
    <2> SUFFICES ASSUME WalkForwardInv, RunInv, RoundInv, [BaselineNext]_allVars
                 PROVE  RoundInv'
        OBVIOUS
    <2>1. CASE Plan \/ Recalibrate \/ UNCHANGED allVars
        BY <2>1, RoundsStay DEF Plan, Recalibrate, allVars, runVars
    <2>2. CASE FitCalibrator
        BY <2>2, RoundsStay DEF FitCalibrator
    <2> QED
        BY <2>1, <2>2, StartRounds, RunModelRounds, JudgeRounds DEF BaselineNext
<1> QED
    BY <1>1, <1>2, RunInvariant, PTL DEF BaselineSpec

\* Once the rounds are over, each kind has one record of each test row.
LEMMA RecordOf ==
    ASSUME WalkForwardInv, RunInv, RoundInv, run = "returned", NEW k \in KindsRun,
           NEW n \in 1..Len(used), NEW i \in used[n].test
    PROVE  \E r \in Sample(k) :
                /\ r.row = i /\ r.fold = n
                /\ r.event = bundle[i].event /\ r.resolved = bundle[i].resolved
                /\ \A other \in Sample(k) : other.row = i => other = r
<1>1. n \in Nat \ {0} /\ n < FoldOf(turn) /\ turn \in Nat
    <2>1. /\ Len(used) \in Nat /\ n \in 1..Len(used)
          /\ turn \in Nat /\ FoldOf(turn) > Len(used)
        BY DEF RunInv, RoundInv
    <2>2. FoldOf(turn) \in Nat
        BY <2>1, Rounds
    <2> QED
        BY <2>1, <2>2
<1>2. PICK m \in 0..(turn - 1) : FoldOf(m) = n /\ KindOf(m) = k
    BY <1>1, Rounds
<1>3. PICK r \in records : r.fold = n /\ r.kind = k /\ r.row = i
    BY <1>2 DEF RoundInv
<1>4. ASSUME NEW other \in Sample(k), other.row = i
      PROVE  other = r
    <2>1. other \in records /\ other.kind = k
        BY DEF Sample
    <2>2. other.fold \in 1..Len(used) /\ i \in used[other.fold].test
        BY <1>4, <2>1 DEF RunInv
    <2>3. ~(other.fold < n) /\ ~(n < other.fold)
        <3>1. i \in Int
            BY <2>2, CutoffBeforeTests DEF RunInv, WalkForwardInv, TypeOK, Positions
        <3> QED
            BY <2>2, <3>1 DEF RoundInv
    <2>4. other.fold = n
        BY <1>1, <2>2, <2>3
    <2> QED
        BY <1>3, <1>4, <2>1, <2>4 DEF RoundInv
<1> QED
    BY <1>3, <1>4 DEF Sample, RoundInv

\* JudgedAlike for every instance: each kind was tested once on every test
\* row of every fold, on the same outcomes (run_baseline_oos_factory).
THEOREM ModelsJudgedAlike == BaselineSpec => []JudgedAlike
<1>1. WalkForwardInv /\ RunInv /\ RoundInv => JudgedAlike
    BY RecordOf DEF JudgedAlike
<1> QED
    BY <1>1, RunInvariant, RoundInvariant, PTL

\* A planned fold is accepted, and every model can be computed on it, if the
\* rows are handed over as they were planned.
LEMMA AsPlannedAccepted ==
    ASSUME rows \in Datasets, config \in Configs, testStart \in Nat,
           NEW f, Planned(f), NEW kind,
           \A i \in Positions : \E e \in {"yes", "no"} : bundle[i] = AsPlanned(i, e)
    PROVE  Accepted(f) /\ Computable(f, kind)
<1>1. PICK s \in 0..testStart :
            s + config.testSize <= Len(rows) /\ f = Fold(s)
    BY DEF Planned
<1>2. f.train \subseteq Positions /\ f.test \subseteq Positions
    BY <1>1, FoldType DEF Folds
<1>3. \A i \in Positions : /\ bundle[i].present /\ bundle[i].complete
                          /\ bundle[i].event # "absent"
                          /\ bundle[i].resolved = rows[i].resolved
    <2> SUFFICES ASSUME NEW i \in Positions
                 PROVE  /\ bundle[i].present /\ bundle[i].complete
                        /\ bundle[i].event # "absent"
                        /\ bundle[i].resolved = rows[i].resolved
        OBVIOUS
    <2>1. PICK e \in {"yes", "no"} : bundle[i] = AsPlanned(i, e)
        OBVIOUS
    <2>2. bundle[i].present = TRUE /\ bundle[i].complete = TRUE
        BY <2>1 DEF AsPlanned
    <2>3. bundle[i].event # "absent" /\ bundle[i].resolved = rows[i].resolved
        BY <2>1 DEF AsPlanned
    <2> QED
        BY <2>2, <2>3, Zenon
<1>4. f.train \subseteq Eligible(s) /\ f.cutoff = Cutoff(s)
    BY <1>1 DEF Fold, TrainRows
<1>5. \A i \in f.train : rows[i].resolved < f.cutoff
    BY <1>4 DEF Eligible
<1> QED
    BY <1>2, <1>3, <1>5 DEF Accepted, Computable

\* PlannedRunsAccepted for every instance: folds that start at the first one,
\* handed over with the rows they were planned for, are never refused
\* (_validate_folds, _fold_rows).
THEOREM PlannedRunsNeverRefused == BaselineSpec => []PlannedRunsAccepted
<1>1. BaselineInit => PlannedRunsAccepted
    BY DEF BaselineInit, PlannedRunsAccepted
<1>2. WalkForwardInv /\ RunInv /\ PlannedRunsAccepted /\ [BaselineNext]_allVars
        => PlannedRunsAccepted'
    <2> SUFFICES ASSUME WalkForwardInv, RunInv, PlannedRunsAccepted,
                        [BaselineNext]_allVars, run' = "raised"
                 PROVE  \/ used' = <<>>
                        \/ \E i \in Positions' : \A e \in {"yes", "no"} :
                            bundle'[i] # AsPlanned(i, e)'
        BY DEF PlannedRunsAccepted
    <2>1. CASE run = "raised"
        <3>1. UNCHANGED <<used, bundle, rows>>
            BY <2>1 DEF BaselineNext, Plan, StartRun, RunModel, Judge,
                        FitCalibrator, Recalibrate, allVars, runVars, vars,
                        Next, PlanFold, Finish
        <3> QED
            BY <2>1, <3>1 DEF PlannedRunsAccepted, Positions, AsPlanned
    <2>2. CASE StartRun
        <3>1. used = <<>> /\ UNCHANGED used
            BY <2>2 DEF StartRun, RunInv
        <3> QED
            BY <3>1
    <2>3. CASE RunModel
        <3> DEFINE f == used[FoldOf(turn)]
        <3>1. /\ ~(Accepted(f) /\ Computable(f, KindOf(turn))) /\ Planned(f)
              /\ UNCHANGED <<bundle, rows>>
            BY <2>3 DEF RunModel, RunInv, vars
        <3>2. \E i \in Positions : \A e \in {"yes", "no"} : bundle[i] # AsPlanned(i, e)
            BY <3>1, AsPlannedAccepted DEF WalkForwardInv, TypeOK
        <3> QED
            BY <3>1, <3>2 DEF Positions, AsPlanned
    <2> QED
        BY <2>1, <2>2, <2>3
           DEF BaselineNext, Plan, Judge, FitCalibrator, Recalibrate, allVars,
               runVars
<1> QED
    BY <1>1, <1>2, RunInvariant, PTL DEF BaselineSpec
-----------------------------------------------------------------------------
(* The sums that models are compared by.  A sum over a set is one of        *)
(* FiniteSetFacts, with the values that the operator gives.                *)

\* Sums of squared errors are natural numbers.
LEMMA SquaredErrorsSum ==
    ASSUME NEW S, IsFiniteSet(S), \A r \in S : SquaredError(r) \in Nat
    PROVE  MapThenSumSet(SquaredError, S) \in Nat
<1> DEFINE f == [r \in S |-> SquaredError(r)]
           Solves(g) ==
               g = [s \in SUBSET S |->
                     IF s = {} THEN 0
                     ELSE SquaredError(CHOOSE r \in s : TRUE)
                          + g[s \ {CHOOSE r \in s : TRUE}]]
           sums == CHOOSE g : Solves(g)
<1>1. ASSUME NEW g
      PROVE  Solves(g) <=> SumsOf(f, S, g)
    <2>1. \A s \in SUBSET S : s # {} => f[Chosen(s)] = SquaredError(Chosen(s))
        BY DEF Chosen
    <2>2. [s \in SUBSET S |-> IF s = {} THEN 0
                              ELSE SquaredError(Chosen(s)) + g[s \ {Chosen(s)}]]
          = [s \in SUBSET S |-> SumStep(f, g, s)]
        BY <2>1 DEF SumStep
    <2> QED
        BY <2>2 DEF SumsOf, Chosen
<1>2. \E g : SumsOf(f, S, g)
    <2>1. \A r \in S : f[r] \in Nat
        OBVIOUS
    <2> HIDE DEF f
    <2> QED
        BY <2>1, SumsExist
<1>3. Solves(sums)
    <2>1. \E g : Solves(g)
        <3> HIDE DEF f, Solves
        <3> QED
            BY <1>1, <1>2
    <2> QED
        BY <2>1
<1>4. MapThenSumSet(SquaredError, S) = sums[S]
    BY DEF MapThenSumSet, MapThenFoldSet
<1>5. SumsOf(f, S, sums)
    <2> HIDE DEF sums, Solves, f
    <2> QED
        BY <1>1, <1>3
<1>6. \A r \in S : f[r] \in Nat
    OBVIOUS
<1> HIDE DEF f, sums
<1>7. sums[S] \in Nat
    BY <1>5, <1>6, SumsAreNatural
<1> QED
    BY <1>4, <1>7

\* Sums of log losses are natural numbers.
LEMMA LogLossesSum ==
    ASSUME NEW S, IsFiniteSet(S), \A r \in S : LogLoss(r) \in Nat
    PROVE  MapThenSumSet(LogLoss, S) \in Nat
<1> DEFINE f == [r \in S |-> LogLoss(r)]
           Solves(g) ==
               g = [s \in SUBSET S |->
                     IF s = {} THEN 0
                     ELSE LogLoss(CHOOSE r \in s : TRUE)
                          + g[s \ {CHOOSE r \in s : TRUE}]]
           sums == CHOOSE g : Solves(g)
<1>1. ASSUME NEW g
      PROVE  Solves(g) <=> SumsOf(f, S, g)
    <2>1. \A s \in SUBSET S : s # {} => f[Chosen(s)] = LogLoss(Chosen(s))
        BY DEF Chosen
    <2>2. [s \in SUBSET S |-> IF s = {} THEN 0
                              ELSE LogLoss(Chosen(s)) + g[s \ {Chosen(s)}]]
          = [s \in SUBSET S |-> SumStep(f, g, s)]
        BY <2>1 DEF SumStep
    <2> QED
        BY <2>2 DEF SumsOf, Chosen
<1>2. \E g : SumsOf(f, S, g)
    <2>1. \A r \in S : f[r] \in Nat
        OBVIOUS
    <2> HIDE DEF f
    <2> QED
        BY <2>1, SumsExist
<1>3. Solves(sums)
    <2>1. \E g : Solves(g)
        <3> HIDE DEF f, Solves
        <3> QED
            BY <1>1, <1>2
    <2> QED
        BY <2>1
<1>4. MapThenSumSet(LogLoss, S) = sums[S]
    BY DEF MapThenSumSet, MapThenFoldSet
<1>5. SumsOf(f, S, sums)
    <2> HIDE DEF sums, Solves, f
    <2> QED
        BY <1>1, <1>3
<1>6. \A r \in S : f[r] \in Nat
    OBVIOUS
<1> HIDE DEF f, sums
<1>7. sums[S] \in Nat
    BY <1>5, <1>6, SumsAreNatural
<1> QED
    BY <1>4, <1>7

\* The errors of a prediction are natural numbers.
LEMMA ErrorsType ==
    ASSUME NEW r, r.event \in {"yes", "no"}, r.score \in Scores
    PROVE  SquaredError(r) \in Nat /\ LogLoss(r) \in Nat
<1>1. /\ Whole \in Nat /\ \A x \in Scores : x \in 0..Whole /\ Whole - x \in Scores
      /\ \A x \in Scores : Loss[x] \in Nat
    BY BaselineAssumption
<1> DEFINE d == IF r.event = "yes" THEN Whole - r.score ELSE r.score
<1>2. d \in Nat
    BY <1>1
<1>3. SquaredError(r) = d * d
    BY DEF SquaredError
<1>4. LogLoss(r) \in Nat
    BY <1>1 DEF LogLoss
<1> HIDE DEF d
<1> QED
    BY <1>2, <1>3, <1>4

\* What a kind is judged by: its sums are numbers, over a finite sample.
LEMMA SampleType ==
    ASSUME RoundInv, NEW k
    PROVE  /\ IsFiniteSet(Sample(k)) /\ Cardinality(Sample(k)) \in Nat
           /\ Brier(k) \in Nat /\ TotalLoss(k) \in Nat
           /\ \A r \in Sample(k) : r.event \in {"yes", "no"}
<1>1. IsFiniteSet(Sample(k)) /\ Cardinality(Sample(k)) \in Nat
    BY FS_Subset, FS_CardinalityType DEF RoundInv, Sample
<1>2. \A r \in Sample(k) : r.event \in {"yes", "no"} /\ r.score \in Scores
    BY DEF RoundInv, Sample
<1>3. \A r \in Sample(k) : SquaredError(r) \in Nat /\ LogLoss(r) \in Nat
    BY <1>2, ErrorsType
<1>4. Brier(k) \in Nat
    BY <1>1, <1>3, SquaredErrorsSum DEF Brier
<1>5. TotalLoss(k) \in Nat
    BY <1>1, <1>3, LogLossesSum DEF TotalLoss
<1> QED
    BY <1>1, <1>2, <1>4, <1>5

\* The samples of two kinds are equally large, once the rounds are over.
LEMMA SamplesAlike ==
    ASSUME WalkForwardInv, RunInv, RoundInv, run = "returned",
           NEW j \in KindsRun, NEW k \in KindsRun
    PROVE  /\ Cardinality(Sample(j)) <= Cardinality(Sample(k))
           /\ \A r \in Sample(j) : \E q \in Sample(k) : q.row = r.row
<1>1. ASSUME NEW r \in Sample(j)
      PROVE  /\ \E q \in Sample(k) : q.row = r.row
             /\ \A other \in Sample(j) : other.row = r.row => other = r
    <2>1. r.fold \in 1..Len(used) /\ r.row \in used[r.fold].test
        BY DEF Sample, RunInv
    <2>2. \E q \in Sample(k) : q.row = r.row
        BY <2>1, RecordOf
    <2>3. PICK s \in Sample(j) : \A other \in Sample(j) : other.row = r.row => other = s
        BY <2>1, RecordOf
    <2> QED
        BY <2>2, <2>3
<1> DEFINE Partner(r) == CHOOSE q \in Sample(k) : q.row = r.row
           partners == [r \in Sample(j) |-> Partner(r)]
<1>2. \A r \in Sample(j) : Partner(r) \in Sample(k) /\ Partner(r).row = r.row
    BY <1>1
<1>3. /\ partners \in [Sample(j) -> Sample(k)]
      /\ \A x, y \in Sample(j) : partners[x] = partners[y] => x = y
    BY <1>1, <1>2
<1>4. IsFiniteSet(Sample(k))
    BY SampleType
<1> HIDE DEF partners
<1> QED
    BY <1>1, <1>3, <1>4, NoLarger

\* Sums stay while the records stay.
LEMMA SumsStay ==
    ASSUME UNCHANGED records, NEW k
    PROVE  /\ (Brier(k))' = Brier(k) /\ (TotalLoss(k))' = TotalLoss(k)
           /\ Sample(k)' = Sample(k)
<1>1. Sample(k)' = Sample(k)
    BY DEF Sample
<1>2. (Brier(k))' = Brier(k)
    BY <1>1 DEF Brier, MapThenSumSet, MapThenFoldSet
<1>3. (TotalLoss(k))' = TotalLoss(k)
    BY <1>1 DEF TotalLoss, MapThenSumSet, MapThenFoldSet
<1> QED
    BY <1>1, <1>2, <1>3

\* And with the sums what models are judged by.
LEMMA JudgedStays ==
    ASSUME UNCHANGED records, NEW j, NEW k
    PROVE  /\ SkillState(k)' = SkillState(k)
           /\ Better(j, k)' <=> Better(j, k)
<1>1. /\ (Brier(k))' = Brier(k) /\ (TotalLoss(k))' = TotalLoss(k)
      /\ (Brier(j))' = Brier(j) /\ (TotalLoss(j))' = TotalLoss(j)
      /\ (Brier(B0))' = Brier(B0) /\ (TotalLoss(B0))' = TotalLoss(B0)
      /\ Sample(k)' = Sample(k) /\ Sample(j)' = Sample(j) /\ Sample(B0)' = Sample(B0)
    BY SumsStay
<1>2. /\ BrierLess(B0, k)' <=> BrierLess(B0, k)
      /\ LossLess(B0, k)' <=> LossLess(B0, k)
      /\ Better(j, k)' <=> Better(j, k)
    BY <1>1 DEF Better, BrierLess, LossLess
<1>3. Happened(Sample(k))' = Happened(Sample(k))
    BY <1>1 DEF Happened
<1>4. SkillState(k)' = SkillState(k)
    BY <1>1, <1>2, <1>3 DEF SkillState
<1> QED
    BY <1>2, <1>4

\* What is known of the skills of a run that returned: they are what the
\* models are judged to be, and B0 is the reference.
SkillsInv ==
    run = "returned" =>
        /\ skills \in [KindsRun -> SkillStates]
        /\ \A k \in KindsRun : skills[k] = SkillState(k)
        /\ skills[B0] = "REFERENCE_BASELINE"

\* A run that returned has the skill state it was judged to have for every
\* kind it ran, and B0 is the reference in it.
THEOREM SkillsInvariant == BaselineSpec => []SkillsInv
<1>1. BaselineInit => SkillsInv
    BY DEF BaselineInit, SkillsInv
<1>2. RoundInv /\ SkillsInv /\ [BaselineNext]_allVars => SkillsInv'
    <2> SUFFICES ASSUME RoundInv, SkillsInv, [BaselineNext]_allVars
                 PROVE  SkillsInv'
        OBVIOUS
    <2>1. CASE Judge
        <3>1. skills' = [k \in KindsRun |-> SkillState(k)] /\ UNCHANGED records
            BY <2>1 DEF Judge
        <3>2. \A k \in KindsRun : SkillState(k) \in SkillStates
            BY DEF SkillState, SkillStates
        <3>3. B0 \in KindsRun /\ SkillState(B0) = "REFERENCE_BASELINE"
            BY KindsType DEF SkillState
        <3>4. \A k \in KindsRun : skills'[k] = SkillState(k)'
            BY <3>1, JudgedStays
        <3> QED
            BY <3>1, <3>2, <3>3, <3>4 DEF SkillsInv
    <2>2. CASE RunModel \/ StartRun
        <3>1. run' # "returned"
            BY <2>2 DEF RunModel, StartRun
        <3> QED
            BY <3>1 DEF SkillsInv
    <2>3. CASE UNCHANGED <<records, skills, run>>
        <3>1. \A k \in KindsRun : SkillState(k)' = SkillState(k)
            BY <2>3, JudgedStays
        <3> QED
            BY <2>3, <3>1 DEF SkillsInv
    <2> QED
        BY <2>1, <2>2, <2>3
           DEF BaselineNext, Plan, FitCalibrator, Recalibrate, allVars, runVars
<1> QED
    BY <1>1, <1>2, RoundInvariant, PTL DEF BaselineSpec

\* A challenger was eligible and better than any other that was.
ChallengerInv ==
    \A k \in challenger :
        /\ k \in KindsRun /\ SkillState(k) = "ELIGIBLE_CHALLENGER"
        /\ \A j \in KindsRun \ {k} :
            SkillState(j) = "ELIGIBLE_CHALLENGER" => Better(k, j)

\* What was found of a challenger depends on the records alone.
LEMMA ChallengerStays ==
    ASSUME ChallengerInv, UNCHANGED <<records, challenger>>
    PROVE  ChallengerInv'
BY JudgedStays DEF ChallengerInv

\* The judgement makes a challenger of an eligible kind that beats the others.
LEMMA JudgeChallenges ==
    ASSUME Judge
    PROVE  ChallengerInv'
<1>1. /\ UNCHANGED records
      /\ \A k \in challenger' :
            /\ k \in KindsRun /\ SkillState(k) = "ELIGIBLE_CHALLENGER"
            /\ \A j \in KindsRun \ {k} :
                SkillState(j) = "ELIGIBLE_CHALLENGER" => Better(k, j)
    BY DEF Judge
<1> QED
    BY <1>1, JudgedStays DEF ChallengerInv

\* Of two kinds at most one is better.
LEMMA OneIsBetter ==
    ASSUME RoundInv, NEW k \in KindsRun, NEW j \in KindsRun, Better(k, j), Better(j, k)
    PROVE  FALSE
<1> DEFINE bk == Brier(k) * Cardinality(Sample(j))
           bj == Brier(j) * Cardinality(Sample(k))
           lk == TotalLoss(k) * Cardinality(Sample(j))
           lj == TotalLoss(j) * Cardinality(Sample(k))
<1>1. bk \in Int /\ bj \in Int /\ lk \in Int /\ lj \in Int /\ k \in Int /\ j \in Int
    <2>1. /\ Brier(k) \in Nat /\ Brier(j) \in Nat
          /\ TotalLoss(k) \in Nat /\ TotalLoss(j) \in Nat
          /\ Cardinality(Sample(k)) \in Nat /\ Cardinality(Sample(j)) \in Nat
        BY SampleType
    <2>2. k \in 0..4 /\ j \in 0..4
        BY KindsType
    <2> QED
        BY <2>1, <2>2
<1>2. /\ bk < bj \/ (~(bj < bk) /\ (lk < lj \/ (~(lj < lk) /\ k < j)))
      /\ bj < bk \/ (~(bk < bj) /\ (lj < lk \/ (~(lk < lj) /\ j < k)))
    BY DEF Better, BrierLess, LossLess
<1> HIDE DEF bk, bj, lk, lj
<1> QED
    BY <1>1, <1>2

\* Means over equally many rows compare as their sums do.
LEMMA SumsForMeans ==
    ASSUME NEW a \in Nat, NEW b \in Nat, NEW n \in Nat, n # 0
    PROVE  a * n < b * n <=> a < b
OBVIOUS

\* Records of different rows are as many as their rows.
LEMMA RowsCounted ==
    ASSUME NEW S, IsFiniteSet(S), \A x, y \in S : x.row = y.row => x = y
    PROVE  Cardinality(RowsOf(S)) = Cardinality(S)
<1> DEFINE rowOf == [r \in S |-> r.row]
<1>1. rowOf \in [S -> RowsOf(S)]
    BY DEF RowsOf
<1>2. /\ \A x, y \in S : rowOf[x] = rowOf[y] => x = y
      /\ \A i \in RowsOf(S) : \E r \in S : rowOf[r] = i
    BY DEF RowsOf
<1> HIDE DEF rowOf
<1> QED
    BY <1>1, <1>2, AsLarge

\* An eligible kind was tested on enough rows, and on enough of either class.
LEMMA EligibleCounted ==
    ASSUME WalkForwardInv, RunInv, RoundInv, run = "returned",
           NEW k \in KindsRun, SkillState(k) = "ELIGIBLE_CHALLENGER"
    PROVE  /\ Cardinality(RowsOf(Sample(k))) >= MinSample
           /\ \A e \in {"yes", "no"} :
                Cardinality(RowsOf(OfEvent(Sample(k), e))) >= MinClass
<1>1. /\ Cardinality(Sample(k)) >= MinSample
      /\ Cardinality(Happened(Sample(k))) >= MinClass
      /\ Cardinality(Sample(k) \ Happened(Sample(k))) >= MinClass
    BY DEF SkillState
<1>2. /\ OfEvent(Sample(k), "yes") = Happened(Sample(k))
      /\ OfEvent(Sample(k), "no") = Sample(k) \ Happened(Sample(k))
    BY SampleType DEF OfEvent, Happened
<1>3. \A x, y \in Sample(k) : x.row = y.row => x = y
    <2> SUFFICES ASSUME NEW x \in Sample(k), NEW y \in Sample(k), x.row = y.row
                 PROVE  x = y
        OBVIOUS
    <2>1. x.fold \in 1..Len(used) /\ x.row \in used[x.fold].test
        BY DEF Sample, RunInv
    <2> QED
        BY <2>1, RecordOf
<1>4. ASSUME NEW S \in SUBSET Sample(k)
      PROVE  Cardinality(RowsOf(S)) = Cardinality(S)
    <2>1. IsFiniteSet(S)
        BY SampleType, FS_Subset
    <2> QED
        BY <1>3, <2>1, RowsCounted
<1>5. /\ OfEvent(Sample(k), "yes") \in SUBSET Sample(k)
      /\ OfEvent(Sample(k), "no") \in SUBSET Sample(k)
    BY DEF OfEvent
<1> QED
    BY <1>1, <1>2, <1>4, <1>5

\* An eligible kind did no worse than B0, and both were tested on the same rows.
LEMMA EligibleNoWorse ==
    ASSUME WalkForwardInv, RunInv, RoundInv, run = "returned",
           NEW k \in KindsRun, SkillState(k) = "ELIGIBLE_CHALLENGER"
    PROVE  /\ k # B0 /\ Brier(k) <= Brier(B0) /\ TotalLoss(k) <= TotalLoss(B0)
           /\ {r \in Sample(B0) : r.row \in RowsOf(Sample(k))} = Sample(B0)
<1> DEFINE n == Cardinality(Sample(k))
<1>1. k # B0 /\ ~BrierLess(B0, k) /\ ~LossLess(B0, k) /\ n >= MinSample
    BY DEF SkillState
<1>2. B0 \in KindsRun /\ MinSample \in Nat \ {0}
    BY KindsType, BaselineAssumption
<1>3. /\ n \in Nat /\ Cardinality(Sample(B0)) \in Nat
      /\ Brier(k) \in Nat /\ Brier(B0) \in Nat
      /\ TotalLoss(k) \in Nat /\ TotalLoss(B0) \in Nat
    BY SampleType
<1>4. Cardinality(Sample(B0)) = n
    BY <1>2, <1>3, SamplesAlike
<1>5. /\ ~(Brier(B0) * n < Brier(k) * n)
      /\ ~(TotalLoss(B0) * n < TotalLoss(k) * n)
    BY <1>1, <1>4 DEF BrierLess, LossLess
<1>6. \A r \in Sample(B0) : r.row \in RowsOf(Sample(k))
    BY <1>2, SamplesAlike DEF RowsOf
<1> HIDE DEF n
<1>7. n # 0
    BY <1>1, <1>2, <1>3
<1>8. Brier(k) <= Brier(B0) /\ TotalLoss(k) <= TotalLoss(B0)
    BY <1>3, <1>5, <1>7, SumsForMeans
<1> QED
    BY <1>1, <1>6, <1>8

\* The better of two kinds comes first by squared errors and then log loss.
LEMMA BetterComesFirst ==
    ASSUME WalkForwardInv, RunInv, RoundInv, run = "returned",
           NEW k \in KindsRun, NEW j \in KindsRun, Better(k, j),
           SkillState(k) = "ELIGIBLE_CHALLENGER"
    PROVE  \/ Brier(k) < Brier(j)
           \/ Brier(k) = Brier(j) /\ TotalLoss(k) <= TotalLoss(j)
<1> DEFINE n == Cardinality(Sample(k))
<1>1. n >= MinSample /\ MinSample \in Nat \ {0}
    BY BaselineAssumption DEF SkillState
<1>2. /\ n \in Nat /\ Cardinality(Sample(j)) \in Nat
      /\ Brier(k) \in Nat /\ Brier(j) \in Nat
      /\ TotalLoss(k) \in Nat /\ TotalLoss(j) \in Nat
    BY SampleType
<1>3. Cardinality(Sample(j)) = n
    BY <1>2, SamplesAlike
<1>4. \/ Brier(k) * n < Brier(j) * n
      \/ /\ ~(Brier(j) * n < Brier(k) * n)
         /\ ~(TotalLoss(j) * n < TotalLoss(k) * n)
    <2>1. BrierLess(k, j) \/ (~BrierLess(j, k) /\ (LossLess(k, j) \/ ~LossLess(j, k)))
        BY DEF Better
    <2>2. ASSUME LossLess(k, j) PROVE ~(TotalLoss(j) * n < TotalLoss(k) * n)
        <3>1. TotalLoss(k) * n < TotalLoss(j) * n
            BY <1>3, <2>2 DEF LossLess
        <3> HIDE DEF n
        <3> QED
            BY <1>2, <3>1
    <2> QED
        BY <1>3, <2>1, <2>2 DEF BrierLess, LossLess
<1> HIDE DEF n
<1>5. n # 0
    BY <1>1, <1>2
<1>6. Brier(k) < Brier(j) \/ (~(Brier(j) < Brier(k)) /\ ~(TotalLoss(j) < TotalLoss(k)))
    BY <1>2, <1>4, <1>5, SumsForMeans
<1> QED
    BY <1>2, <1>6

\* ChallengerEarned for every instance: a development challenger was tested on
\* the required number of rows and of rows of either class, each counted once;
\* over the very rows B0 was tested on it made no larger squared errors and no
\* larger log loss than B0, ties accepted; no eligible kind comes before it;
\* and it is one kind at most (_skill_entry, development_challenger).
THEOREM ChallengersEarned == BaselineSpec => []ChallengerEarned
<1>1. BaselineInit => ChallengerInv
    BY DEF BaselineInit, ChallengerInv
<1>2. RoundInv /\ ChallengerInv /\ [BaselineNext]_allVars => ChallengerInv'
    <2> SUFFICES ASSUME RoundInv, ChallengerInv, [BaselineNext]_allVars
                 PROVE  ChallengerInv'
        OBVIOUS
    <2>1. CASE RunModel
        BY <2>1 DEF RunModel, RoundInv, ChallengerInv
    <2>2. CASE Judge
        BY <2>2, JudgeChallenges
    <2> QED
        BY <2>1, <2>2, ChallengerStays
           DEF BaselineNext, Plan, StartRun, FitCalibrator, Recalibrate,
               allVars, runVars
<1>3. ASSUME WalkForwardInv, RunInv, RoundInv, SkillsInv, ChallengerInv
      PROVE  ChallengerEarned
    <2> SUFFICES ASSUME NEW k \in challenger
                 PROVE  /\ challenger = {k} /\ k # B0
                        /\ Cardinality(RowsOf(Sample(k))) >= MinSample
                        /\ \A e \in {"yes", "no"} :
                            Cardinality(RowsOf(OfEvent(Sample(k), e))) >= MinClass
                        /\ MapThenSumSet(SquaredError, Sample(k)) <=
                           MapThenSumSet(SquaredError,
                             {r \in Sample(B0) : r.row \in RowsOf(Sample(k))})
                        /\ MapThenSumSet(LogLoss, Sample(k)) <=
                           MapThenSumSet(LogLoss,
                             {r \in Sample(B0) : r.row \in RowsOf(Sample(k))})
                        /\ \A j \in KindsRun : skills[j] = "ELIGIBLE_CHALLENGER" =>
                            \/ Brier(k) < Brier(j)
                            \/ Brier(k) = Brier(j) /\ TotalLoss(k) <= TotalLoss(j)
        BY DEF ChallengerEarned
    <2>1. /\ k \in KindsRun /\ run = "returned" /\ challenger \subseteq KindsRun
          /\ SkillState(k) = "ELIGIBLE_CHALLENGER"
        BY <1>3 DEF ChallengerInv, RoundInv
    <2>2. challenger = {k}
        BY <1>3, OneIsBetter DEF ChallengerInv
    <2>3. /\ Cardinality(RowsOf(Sample(k))) >= MinSample
          /\ \A e \in {"yes", "no"} :
                Cardinality(RowsOf(OfEvent(Sample(k), e))) >= MinClass
        BY <1>3, <2>1, EligibleCounted
    <2>4. /\ k # B0 /\ Brier(k) <= Brier(B0) /\ TotalLoss(k) <= TotalLoss(B0)
          /\ {r \in Sample(B0) : r.row \in RowsOf(Sample(k))} = Sample(B0)
        BY <1>3, <2>1, EligibleNoWorse
    <2>5. ASSUME NEW j \in KindsRun, skills[j] = "ELIGIBLE_CHALLENGER"
          PROVE  \/ Brier(k) < Brier(j)
                 \/ Brier(k) = Brier(j) /\ TotalLoss(k) <= TotalLoss(j)
        <3>1. SkillState(j) = "ELIGIBLE_CHALLENGER"
            BY <1>3, <2>1, <2>5 DEF SkillsInv
        <3>2. CASE j = k
            BY <1>3, <3>2, SampleType
        <3>3. CASE j # k
            BY <1>3, <2>1, <2>5, <3>1, <3>3, BetterComesFirst DEF ChallengerInv
        <3> QED
            BY <3>2, <3>3
    <2> QED
        BY <2>2, <2>3, <2>4, <2>5 DEF Brier, TotalLoss
<1> QED
    BY <1>1, <1>2, <1>3, RunInvariant, RoundInvariant, SkillsInvariant, PTL
       DEF BaselineSpec
=============================================================================
