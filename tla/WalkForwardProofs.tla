------------------------- MODULE WalkForwardProofs -------------------------
(***************************************************************************)
(* That no walk-forward fold looks ahead, for every dataset and every      *)
(* configuration.  A fold is a function of where its test rows begin; the  *)
(* invariant is that each fold is the one planned for its beginning, and   *)
(* that the beginnings are at least test_size apart.                       *)
(***************************************************************************)
EXTENDS WalkForward, FiniteSetTheorems, TLAPS

\* The rows are a dataset, also while folds are planned.
LEMMA RowsType ==
    ASSUME rows \in Datasets
    PROVE  /\ rows \in Seq([predicted : Nat, resolved : Nat])
           /\ \A i, j \in Positions : i < j => rows[i].predicted < rows[j].predicted
           /\ \A i \in Positions : rows[i].predicted \in Nat /\ rows[i].resolved \in Nat
           /\ Len(rows) \in Nat
<1>1. IsDataset(rows)
  BY WalkForwardAssumption
<1>2. rows \in Seq([predicted : Nat, resolved : Nat]) /\ Len(rows) \in Nat
  BY <1>1 DEF IsDataset
<1>3. \A i \in Positions : rows[i] \in [predicted : Nat, resolved : Nat]
  <2>1. \A S : rows \in Seq(S) => \A i \in 1..Len(rows) : rows[i] \in S
    OBVIOUS
  <2>2. QED
    BY <2>1, <1>2 DEF Positions
<1>4. \A i, j \in Positions : i < j => rows[i].predicted < rows[j].predicted
  BY <1>1 DEF IsDataset, Positions
<1>5. QED
  BY <1>2, <1>3, <1>4

\* Sizes are positive, and a step is never shorter than the test rows.
LEMMA ConfigType ==
    ASSUME config \in Configs
    PROVE  /\ config.testSize \in Nat /\ config.testSize >= 1
           /\ config.minTrain \in Nat /\ config.minTrain >= 1
           /\ config.maxTrain \in Nat
           /\ config.embargo \in Nat
           /\ EffectiveStep(config) \in Nat
           /\ EffectiveStep(config) >= config.testSize
<1>1. config \in Options
  BY DEF Configs
<1>2. /\ config.minTrain \in Nat /\ config.testSize \in Nat
      /\ config.step \in Nat /\ config.maxTrain \in Nat
      /\ config.embargo \in Nat
  <2>1. /\ config.minTrain \in Sizes /\ config.testSize \in Sizes
        /\ config.step \in Sizes \cup {0} /\ config.maxTrain \in Sizes \cup {0}
        /\ config.embargo \in Embargoes
    BY <1>1 DEF Options, None
  <2>2. /\ \A n \in Sizes : n \in Nat
        /\ \A n \in Sizes \cup {0} : n \in Nat
        /\ \A n \in Embargoes : n \in Nat
    BY WalkForwardAssumption
  <2>3. QED
    BY <2>1, <2>2, Zenon
<1>3. EffectiveStep(config) \in Nat
  BY <1>2 DEF EffectiveStep
<1>4. /\ config.minTrain >= 1 /\ config.testSize >= 1
      /\ EffectiveStep(config) >= config.testSize
  BY DEF Configs
<1>5. QED
  BY <1>2, <1>3, <1>4

\* The rows eligible for a fold are rows before its test rows, and later
\* folds have them too.
LEMMA EligibleGrows ==
    ASSUME rows \in Datasets, config \in Configs,
           NEW s \in Nat, NEW t \in Nat, s <= t, t < Len(rows)
    PROVE  /\ Cutoff(s) \in Int /\ Cutoff(s) <= Cutoff(t)
           /\ Eligible(s) \subseteq Eligible(t)
           /\ Eligible(s) \subseteq 1..s
<1>1. s + 1 \in Positions /\ t + 1 \in Positions
  BY RowsType DEF Positions
<1>2. rows[s + 1].predicted <= rows[t + 1].predicted
  <2>1. CASE s = t
    BY <2>1, <1>1, RowsType
  <2>2. CASE s < t
    <3>1. s + 1 < t + 1
      BY <2>2
    <3>2. rows[s + 1].predicted < rows[t + 1].predicted
      BY <3>1, <1>1, RowsType
    <3>3. QED
      BY <3>2, <1>1, RowsType
  <2>3. QED
    BY <2>1, <2>2
<1>3. Cutoff(s) \in Int /\ Cutoff(t) \in Int /\ Cutoff(s) <= Cutoff(t)
  <2>1. rows[s + 1].predicted \in Nat /\ rows[t + 1].predicted \in Nat
    BY <1>1, RowsType
  <2>2. config.embargo \in Nat
    BY ConfigType
  <2>3. QED
    BY <2>1, <2>2, <1>2 DEF Cutoff
<1>4. ASSUME NEW i \in Eligible(s)
      PROVE  i \in Eligible(t) /\ i \in 1..s
  <2>1. i \in 1..s /\ i \in 1..t /\ rows[i].resolved < Cutoff(s)
    BY DEF Eligible
  <2>2. rows[i].resolved \in Nat
    BY <2>1, RowsType DEF Positions
  <2>3. QED
    BY <2>1, <2>2, <1>3 DEF Eligible
<1>5. QED
  BY <1>3, <1>4

\* Eligible rows are finitely many.
LEMMA EligibleFinite ==
    ASSUME NEW s \in Nat
    PROVE  /\ IsFiniteSet(Eligible(s))
           /\ Cardinality(Eligible(s)) \in 0..s
           /\ \A i : /\ IsFiniteSet(NotOlder(Eligible(s), i))
                     /\ Cardinality(NotOlder(Eligible(s), i)) \in Nat
<1>1. IsFiniteSet(1..s) /\ Cardinality(1..s) = s
  BY FS_Interval
<1>2. Eligible(s) \subseteq 1..s
  BY DEF Eligible
<1>3. IsFiniteSet(Eligible(s)) /\ Cardinality(Eligible(s)) <= s
  BY <1>1, <1>2, FS_Subset
<1>4. Cardinality(Eligible(s)) \in Nat
  BY <1>3, FS_CardinalityType
<1>5. ASSUME NEW i
      PROVE  /\ IsFiniteSet(NotOlder(Eligible(s), i))
             /\ Cardinality(NotOlder(Eligible(s), i)) \in Nat
  <2>1. NotOlder(Eligible(s), i) \subseteq Eligible(s)
    BY DEF NotOlder
  <2>2. QED
    BY <2>1, <1>3, FS_Subset, FS_CardinalityType
<1>6. QED
  BY <1>3, <1>4, <1>5

\* A fold within the rows is typed, and its training rows were eligible.
LEMMA FoldType ==
    ASSUME rows \in Datasets, config \in Configs,
           NEW s \in Nat, s + config.testSize <= Len(rows)
    PROVE  Fold(s) \in Folds /\ Fold(s).train \subseteq Eligible(s)
<1>1. s < Len(rows)
  BY ConfigType, RowsType
<1>2. Cutoff(s) \in Int /\ Eligible(s) \subseteq 1..s
  BY <1>1, EligibleGrows
<1>3. TrainRows(s) \subseteq Eligible(s)
  BY DEF TrainRows
<1>4. TrainRows(s) \in SUBSET Positions
  BY <1>1, <1>2, <1>3, RowsType DEF Positions
<1>5. TestRows(s) \in SUBSET Positions
  <2>1. /\ config.testSize \in Nat /\ Len(rows) \in Nat
        /\ s + config.testSize <= Len(rows)
    BY ConfigType, RowsType
  <2>2. QED
    BY <2>1 DEF TestRows, Positions
<1>6. s - Cardinality(Eligible(s)) \in Nat
  BY EligibleFinite
<1>7. QED
  BY <1>2, <1>3, <1>4, <1>5, <1>6 DEF Fold, Folds
-----------------------------------------------------------------------------
\* Before the first fold there is nothing to keep.
LEMMA InitInv == Init => WalkForwardInv
BY ConfigType DEF Init, WalkForwardInv, TypeOK, TestsForward

\* Planning a fold, skipping one for want of training rows, and finishing.
LEMMA NextInv == WalkForwardInv /\ [Next]_vars => WalkForwardInv'
<1> SUFFICES ASSUME WalkForwardInv, [Next]_vars
             PROVE  WalkForwardInv'
  OBVIOUS
<1> USE DEF WalkForwardInv
<1>1. TypeOK
  OBVIOUS
<1>2. CASE PlanFold
  <2>1. /\ UNCHANGED <<rows, config, result>>
        /\ testStart + config.testSize <= Len(rows)
        /\ testStart' = testStart + EffectiveStep(config)
    BY <1>2 DEF PlanFold
  <2>2. /\ testStart \in Nat /\ testStart' \in Nat
        /\ testStart + config.testSize <= testStart'
        /\ testStart <= testStart'
    BY <2>1, <1>1, ConfigType DEF TypeOK
  <2>3. \A s : Fold(s)' = Fold(s)
    BY <2>1 DEF Fold, Cutoff, TrainRows, TestRows, Eligible
  <2> DEFINE Kept(f) == \E s \in 0..testStart' :
                          /\ s + config.testSize <= testStart'
                          /\ s + config.testSize <= Len(rows)
                          /\ f = Fold(s)
  <2>4. ASSUME NEW n \in 1..Len(folds)
        PROVE  Kept(folds[n])
    <3>1. PICK s \in 0..testStart :
                  /\ s + config.testSize <= testStart
                  /\ s + config.testSize <= Len(rows)
                  /\ folds[n] = Fold(s)
      BY DEF Planned
    <3>2. s \in 0..testStart' /\ s + config.testSize <= testStart'
      BY <3>1, <2>2, <1>1, ConfigType DEF TypeOK
    <3>3. QED
      BY <3>1, <3>2
  <2>9. ASSUME \A n \in 1..Len(folds') : Kept(folds'[n])
        PROVE  (\A n \in 1..Len(folds) : Planned(folds[n]))'
    BY <2>1, <2>3, <2>9 DEF Planned
  <2>5. Folds' = Folds
    BY <2>1 DEF Folds, Positions
  <2>6. CASE UNCHANGED folds
    <3>1. TypeOK'
      BY <1>1, <2>1, <2>2, <2>5, <2>6 DEF TypeOK
    <3>2. TestsForward'
      BY <2>6 DEF TestsForward
    <3>3. (\A n \in 1..Len(folds) : Planned(folds[n]))'
      BY <2>4, <2>6, <2>9
    <3>4. QED
      BY <3>1, <3>2, <3>3
  <2>7. CASE folds' = Append(folds, Fold(testStart))
    <3>1. /\ Len(folds') = Len(folds) + 1 /\ Len(folds) \in Nat
          /\ \A n \in 1..Len(folds) : folds'[n] = folds[n]
          /\ folds'[Len(folds) + 1] = Fold(testStart)
      BY <2>7, <1>1 DEF TypeOK
    <3>2. Fold(testStart) \in Folds
      BY <2>1, <1>1, FoldType DEF TypeOK
    <3>3. TypeOK'
      BY <1>1, <2>1, <2>2, <2>5, <2>7, <3>2 DEF TypeOK
    <3>4. Kept(Fold(testStart))
      <4>1. testStart \in 0..testStart'
        BY <2>2
      <4>2. QED
        BY <4>1, <2>1, <2>2
    <3>5. ASSUME NEW n \in 1..Len(folds')
          PROVE  Kept(folds'[n])
      <4>1. CASE n = Len(folds) + 1
        BY <4>1, <3>1, <3>4
      <4>2. CASE n \in 1..Len(folds)
        BY <4>2, <3>1, <2>4
      <4>3. QED
        BY <4>1, <4>2, <3>1
    <3>6. ASSUME NEW m \in 1..Len(folds), NEW i \in folds[m].test
          PROVE  i \in Int /\ i <= testStart
      <4>1. PICK s \in 0..testStart :
                    s + config.testSize <= testStart /\ folds[m] = Fold(s)
        BY DEF Planned
      <4>2. i \in (s + 1)..(s + config.testSize)
        BY <4>1 DEF Fold, TestRows
      <4>3. QED
        BY <4>1, <4>2, <2>2, <1>1, ConfigType DEF TypeOK
    <3>7. TestsForward'
      <4> SUFFICES ASSUME NEW m \in 1..Len(folds'), NEW n \in 1..Len(folds'),
                          m < n,
                          NEW i \in folds'[m].test, NEW j \in folds'[n].test
                   PROVE  i < j
        BY DEF TestsForward
      <4>1. m \in 1..Len(folds) /\ folds'[m] = folds[m]
        BY <3>1
      <4>2. CASE n \in 1..Len(folds)
        BY <4>1, <4>2, <3>1 DEF TestsForward
      <4>3. CASE n = Len(folds) + 1
        <5>1. j \in (testStart + 1)..(testStart + config.testSize)
          BY <4>3, <3>1 DEF Fold, TestRows
        <5>2. QED
          BY <5>1, <4>1, <3>6, <2>2, <1>1, ConfigType DEF TypeOK
      <4>4. QED
        BY <4>2, <4>3, <3>1
    <3>8. QED
      BY <3>3, <3>5, <3>7, <2>9
  <2>8. QED
    BY <2>6, <2>7, <1>2 DEF PlanFold
<1>3. ASSUME UNCHANGED <<rows, config, testStart, folds>>,
             result' \in {"planning", "returned", "raised"}
      PROVE  WalkForwardInv'
  <2>1. \A s : Fold(s)' = Fold(s)
    BY <1>3 DEF Fold, Cutoff, TrainRows, TestRows, Eligible
  <2>2. TypeOK'
    BY <1>1, <1>3 DEF TypeOK, Folds, Positions
  <2>3. (\A n \in 1..Len(folds) : Planned(folds[n]))'
    BY <1>3, <2>1 DEF Planned
  <2>4. TestsForward'
    BY <1>3 DEF TestsForward
  <2>5. QED
    BY <2>2, <2>3, <2>4
<1>4. CASE Finish
  BY <1>3, <1>4 DEF Finish
<1>5. CASE UNCHANGED vars
  BY <1>1, <1>3, <1>5 DEF vars, TypeOK
<1>6. QED
  BY <1>2, <1>4, <1>5 DEF Next

\* The loop's invariant holds in every reachable state.
THEOREM LoopInvariant == Spec => []WalkForwardInv
BY InitInv, NextInv, PTL DEF Spec

\* No row is tested twice and test rows come in order.
THEOREM TestsInOrder == Spec => []TestsForward
<1>1. WalkForwardInv => TestsForward
  BY DEF WalkForwardInv
<1>2. QED
  BY <1>1, LoopInvariant, PTL

\* No model is tested on a prediction that does not come, by more than the
\* embargo, after every label it was trained on was resolved.
THEOREM NoLookAhead == Spec => []NoLeakage
<1>1. ASSUME WalkForwardInv
      PROVE  NoLeakage
  <2> SUFFICES ASSUME NEW n \in 1..Len(folds),
                      NEW i \in folds[n].train, NEW j \in folds[n].test
               PROVE  rows[i].resolved < rows[j].predicted - config.embargo
    BY DEF NoLeakage
  <2>1. rows \in Datasets /\ config \in Configs /\ testStart \in Nat
    BY <1>1 DEF WalkForwardInv, TypeOK
  <2>2. PICK s \in 0..testStart :
                s + config.testSize <= Len(rows) /\ folds[n] = Fold(s)
    BY <1>1 DEF WalkForwardInv, Planned
  <2>3. s \in Nat
    BY <2>1, <2>2
  <2>4. i \in Eligible(s)
    BY <2>1, <2>2, <2>3, FoldType
  <2>5. j \in (s + 1)..(s + config.testSize)
    BY <2>2 DEF Fold, TestRows
  <2>6. s + 1 \in Positions /\ j \in Positions /\ s < Len(rows)
    <3>1. /\ Len(rows) \in Nat
          /\ config.testSize \in Nat /\ config.testSize >= 1
      BY <2>1, RowsType, ConfigType
    <3>2. QED
      BY <3>1, <2>2, <2>3, <2>5 DEF Positions
  <2>7. rows[s + 1].predicted <= rows[j].predicted
    <3>1. CASE j = s + 1
      BY <3>1, <2>1, <2>6, RowsType
    <3>2. CASE s + 1 < j
      <4>1. rows[s + 1].predicted < rows[j].predicted
        BY <3>2, <2>1, <2>6, RowsType
      <4>2. QED
        BY <4>1, <2>1, <2>6, RowsType
    <3>3. QED
      BY <3>1, <3>2, <2>3, <2>5
  <2>8. i \in 1..s /\ rows[i].resolved < rows[s + 1].predicted - config.embargo
    BY <2>4 DEF Eligible, Cutoff
  <2>9. i \in Positions
    BY <2>8, <2>1, <2>3, <2>6, RowsType DEF Positions
  <2>10. /\ rows[i].resolved \in Nat /\ rows[j].predicted \in Nat
         /\ rows[s + 1].predicted \in Nat /\ config.embargo \in Nat
    BY <2>1, <2>6, <2>9, RowsType, ConfigType
  <2>11. QED
    BY <2>7, <2>8, <2>10
<1>2. QED
  BY <1>1, LoopInvariant, PTL

\* What a rolling window drops never comes back, and is always the oldest of
\* what was known.
THEOREM WindowMovesForward == Spec => []WindowForward
<1>1. ASSUME WalkForwardInv
      PROVE  WindowForward
  <2> SUFFICES ASSUME NEW m \in 1..Len(folds), NEW n \in 1..Len(folds), m <= n,
                      NEW i \in Known(folds[m]) \ folds[m].train
               PROVE  /\ config.rolling
                      /\ \A k \in folds[m].train : i < k
                      /\ i \notin folds[n].train
    BY DEF WindowForward
  <2>1. /\ rows \in Datasets /\ config \in Configs /\ testStart \in Nat
        /\ Len(folds) \in Nat
    BY <1>1 DEF WalkForwardInv, TypeOK
  <2>2. PICK s \in 0..testStart :
                s + config.testSize <= Len(rows) /\ folds[m] = Fold(s)
    BY <1>1 DEF WalkForwardInv, Planned
  <2>3. PICK t \in 0..testStart :
                t + config.testSize <= Len(rows) /\ folds[n] = Fold(t)
    BY <1>1 DEF WalkForwardInv, Planned
  <2>4. s \in Nat /\ t \in Nat /\ s < Len(rows) /\ t < Len(rows)
    <3>1. /\ Len(rows) \in Nat
          /\ config.testSize \in Nat /\ config.testSize >= 1
      BY <2>1, RowsType, ConfigType
    <3>2. QED
      BY <3>1, <2>1, <2>2, <2>3
  <2>5. s + 1 \in folds[m].test /\ t + 1 \in folds[n].test
    BY <2>1, <2>2, <2>3, <2>4, ConfigType DEF Fold, TestRows
  <2>6. s <= t
    <3>1. CASE m = n
      <4>1. t + 1 \in (s + 1)..(s + config.testSize)
        BY <3>1, <2>2, <2>5 DEF Fold, TestRows
      <4>2. QED
        BY <4>1, <2>4
    <3>2. CASE m < n
      <4>1. s + 1 < t + 1
        BY <3>2, <2>5, <1>1 DEF WalkForwardInv, TestsForward
      <4>2. QED
        BY <4>1, <2>4
    <3>3. QED
      BY <3>1, <3>2, <2>1
  <2>7. Eligible(s) \subseteq Eligible(t) /\ Eligible(s) \subseteq 1..s
    BY <2>1, <2>4, <2>6, EligibleGrows
  <2>8. i \in Eligible(s) /\ i \notin TrainRows(s)
    <3>1. i \in Positions /\ rows[i].resolved < Cutoff(s) /\ i < s + 1
      BY <2>2, <2>5 DEF Known, Fold
    <3>2. i \in 1..s
      BY <3>1, <2>1, <2>4, RowsType DEF Positions
    <3>3. QED
      BY <3>1, <3>2, <2>2 DEF Eligible, Fold
  <2>9. config.rolling
    BY <2>8 DEF TrainRows
  <2>10. ~(Cardinality(NotOlder(Eligible(s), i)) <= config.maxTrain)
    BY <2>8, <2>9 DEF TrainRows
  <2>11. ASSUME NEW T, NotOlder(Eligible(s), i) \subseteq T, IsFiniteSet(T),
                Cardinality(T) \in Nat
         PROVE  ~(Cardinality(T) <= config.maxTrain)
    <3>1. Cardinality(NotOlder(Eligible(s), i)) <= Cardinality(T)
      BY <2>11, FS_Subset
    <3>2. Cardinality(NotOlder(Eligible(s), i)) \in Nat /\ config.maxTrain \in Nat
      BY <2>1, <2>4, EligibleFinite, ConfigType
    <3>3. QED
      BY <3>1, <3>2, <2>10, <2>11
  <2>12. ASSUME NEW k \in folds[m].train
         PROVE  i < k
    <3>1. k \in Eligible(s)
      BY <2>2 DEF Fold, TrainRows
    <3>2. Cardinality(NotOlder(Eligible(s), k)) <= config.maxTrain
      BY <2>2, <2>9 DEF Fold, TrainRows
    <3>3. ~(NotOlder(Eligible(s), i) \subseteq NotOlder(Eligible(s), k))
      BY <3>2, <2>4, <2>11, EligibleFinite
    <3>4. PICK l \in Eligible(s) : l >= i /\ ~(l >= k)
      BY <3>3 DEF NotOlder
    <3>5. i \in Nat /\ k \in Nat /\ l \in Nat
      BY <3>1, <3>4, <2>4, <2>7, <2>8
    <3>6. QED
      BY <3>4, <3>5
  <2>13. ASSUME i \in folds[n].train
         PROVE  FALSE
    <3>1. Cardinality(NotOlder(Eligible(t), i)) <= config.maxTrain
      BY <2>13, <2>3, <2>9 DEF Fold, TrainRows
    <3>2. NotOlder(Eligible(s), i) \subseteq NotOlder(Eligible(t), i)
      BY <2>7 DEF NotOlder
    <3>3. QED
      BY <3>1, <3>2, <2>4, <2>11, EligibleFinite
  <2>14. QED
    BY <2>9, <2>12, <2>13
<1>2. QED
  BY <1>1, LoopInvariant, PTL
=============================================================================
