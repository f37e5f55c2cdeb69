----------------------- MODULE AnalogChallengerProofs -----------------------
(***************************************************************************)
(* That the analogs of a prediction were known when it was made, for every *)
(* dataset, policy, relabeling and way to find what is nearest; and that   *)
(* the value read for a missing signal decides no regime.                  *)
(***************************************************************************)
EXTENDS AnalogChallenger, BaselineOOSProofs

\* A challenge only reads what the baseline run left.
THEOREM ChallengeReads == ChallengeSpec => BaselineSpec
<1>1. ChallengeInit => BaselineInit
    BY DEF ChallengeInit
<1>2. [ChallengeNext]_<<allVars, challengeVars>> => [BaselineNext]_allVars
    BY DEF ChallengeNext, StartChallenge, ChallengeFold, JudgeChallenge, allVars
<1> QED
    BY <1>1, <1>2, PTL DEF ChallengeSpec, BaselineSpec
-----------------------------------------------------------------------------
\* Whatever is found nearest was a candidate.
LEMMA AnswersAreCandidates ==
    ASSUME NEW searches, NEW answers \in Answers(searches),
           NEW search \in searches
    PROVE  answers[search].states \subseteq search.candidates
<1>1. answers[search] \in AnswersTo(search)
    BY DEF Answers
<1>2. PICK S \in kSubset(search.k, search.candidates) :
            answers[search] \in [states : {S}, first : S]
    BY <1>1 DEF AnswersTo
<1>3. S \subseteq search.candidates
    BY DEF kSubset
<1> QED
    BY <1>2, <1>3

\* The rows behind the score of a row are training rows predicted before it.
LEMMA MatchesArePrior ==
    ASSUME NEW f, NEW i \in f.test,
           NEW answers \in Answers(UNION {SearchesFor(f, j) : j \in f.test}),
           Answered(f, i, answers),
           NEW m \in {s.row : s \in BaseAnswer(f, i, answers).states}
    PROVE  m \in f.train /\ rows[m].predicted < rows[i].predicted
<1> DEFINE search == Search(State(i), History(f), policy.base)
<1>1. search \in UNION {SearchesFor(f, j) : j \in f.test}
    BY DEF Answered, BaseReady, SearchesFor
<1>2. BaseAnswer(f, i, answers).states \subseteq search.candidates
    BY <1>1, AnswersAreCandidates DEF BaseAnswer
<1>3. PICK s \in search.candidates : m = s.row
    BY <1>2
<1>4. s \in History(f) /\ s.time < State(i).time
    BY <1>3 DEF Search, Candidates
<1>5. PICK j \in f.train : s = State(j)
    BY <1>4 DEF History
<1> QED
    BY <1>3, <1>4, <1>5 DEF State, StateOf

\* The inductive invariant: a prediction was made of prior training rows of a
\* fold of the baseline run that can be read with the labels handed over.
AnalogsInv ==
    /\ challenge = "waiting" => analogs = {}
    /\ challenge # "waiting" => run = "returned"
    /\ challenge = "running" \/ analogs # {} => handed \in [Positions -> Entries]
    /\ tested \in Nat
    /\ \A a \in analogs :
        /\ a.fold \in 1..Len(used) /\ a.row \in used[a.fold].test
        /\ Readable(used[a.fold])
        /\ \A i \in a.matched : /\ i \in used[a.fold].train
                                /\ rows[i].predicted < rows[a.row].predicted

\* The labels handed over are labels.
LEMMA StartChallengeKeeps ==
    ASSUME WalkForwardInv, RunInv, AnalogsInv, StartChallenge
    PROVE  AnalogsInv'
<1>1. /\ UNCHANGED allVars /\ UNCHANGED <<analogs, tested>>
      /\ challenge = "waiting" /\ challenge' # "waiting" /\ run = "returned"
    BY DEF StartChallenge
<1>2. analogs = {} /\ analogs' = {} /\ run' = "returned" /\ Positions' = Positions
    BY <1>1 DEF AnalogsInv, allVars, vars, runVars, Positions
<1>3. bundle \in [Positions -> Entries]
    BY <1>1 DEF RunInv
<1>4. ASSUME challenge' = "running"
      PROVE  handed' \in [Positions -> Entries]
    <2>1. PICK R \in SUBSET Positions :
            \E changed \in [R -> UNION {Relabelings(i) : i \in R}] :
                /\ \A i \in R : changed[i] \in Relabelings(i)
                /\ handed' = [i \in Positions |->
                                IF i \in R THEN changed[i] ELSE bundle[i]]
        BY <1>4 DEF StartChallenge
    <2>2. PICK changed :
                /\ \A i \in R : changed[i] \in Relabelings(i)
                /\ handed' = [i \in Positions |->
                                IF i \in R THEN changed[i] ELSE bundle[i]]
        BY <2>1
    <2>3. \A i \in R : Relabelings(i) \subseteq Entries
        <3> SUFFICES ASSUME NEW i \in R, NEW e \in Revisions(i)
                     PROVE  e \in Entries
            BY DEF Relabelings
        <3>1. CASE e = Missing
            BY <3>1 DEF Missing, Entries
        <3>2. CASE e \in [present : {TRUE}, complete : BOOLEAN,
                          resolved : Resolutions,
                          event : {"yes", "no", "absent"}]
            <4>1. e.present \in BOOLEAN /\ e.resolved \in Nat
                BY <3>2, BaselineAssumption
            <4> QED
                BY <3>2, <4>1 DEF Entries
        <3> QED
            BY <3>1, <3>2 DEF Revisions
    <2> QED
        BY <1>3, <2>2, <2>3
<1> QED
    BY <1>1, <1>2, <1>4 DEF AnalogsInv

\* What a step of the challenger does to its counters.
LEMMA ChallengeFoldCounts ==
    ASSUME ChallengeFold
    PROVE  \/ tested' = tested + 1 /\ challenge' = challenge
           \/ tested' = tested /\ challenge' = "raised"
<1> DEFINE f == used[tested + 1]
<1>1. CASE \E answers \in Answers(UNION {SearchesFor(f, i) : i \in f.test}) :
                TestFold(f, answers)
    <2>1. PICK answers : TestFold(f, answers)
        BY <1>1
    <2> QED
        BY <2>1, Zenon DEF TestFold
<1>2. CASE challenge' = "raised" /\ UNCHANGED <<tested, analogs, suppressed>>
    BY <1>2
<1> QED
    BY <1>1, <1>2, Zenon DEF ChallengeFold

\* A fold is read, or the challenge raises and keeps what it has.
LEMMA ChallengeFoldKeeps ==
    ASSUME RunInv, AnalogsInv, ChallengeFold
    PROVE  AnalogsInv'
<1> DEFINE f == used[tested + 1]
<1>1. /\ UNCHANGED allVars /\ UNCHANGED <<handed, profile, policy>>
      /\ challenge = "running" /\ challenge' \in {"running", "raised"}
      /\ run = "returned" /\ handed \in [Positions -> Entries]
      /\ tested \in Nat /\ tested + 1 \in 1..Len(used)
    <2>1. used \in Seq(Folds) /\ Len(used) \in Nat
        BY DEF RunInv
    <2>2. /\ UNCHANGED allVars /\ UNCHANGED <<handed, profile, policy>>
          /\ challenge = "running" /\ tested < Len(used)
        BY Zenon DEF ChallengeFold
    <2>3. challenge' \in {"running", "raised"}
        BY <2>2, ChallengeFoldCounts
    <2>4. run = "returned" /\ handed \in [Positions -> Entries] /\ tested \in Nat
        BY <2>2 DEF AnalogsInv
    <2>5. tested + 1 \in 1..Len(used)
        BY <2>1, <2>2, <2>4
    <2> QED
        BY <2>2, <2>3, <2>4, <2>5
<1>2. /\ \A g : Readable(g) => Readable(g)'
      /\ Positions' = Positions /\ used' = used /\ rows' = rows /\ run' = run
    BY <1>1 DEF allVars, vars, runVars, Positions, Readable
<1>3. tested' \in Nat
    BY <1>1, ChallengeFoldCounts
<1>4. CASE UNCHANGED analogs
    BY <1>1, <1>2, <1>3, <1>4 DEF AnalogsInv
<1>5. CASE ~UNCHANGED analogs
    <2>1. PICK answers \in Answers(UNION {SearchesFor(f, i) : i \in f.test}) :
                TestFold(f, answers)
        BY <1>5 DEF ChallengeFold
    <2>2. Readable(f)
        BY <1>5 DEF ChallengeFold
    <2>3. PICK score : analogs' = analogs \cup
            {PredictionOf(f, i, answers, score[i]) :
                i \in {j \in f.test : Answered(f, j, answers)}}
        BY <1>5, <2>1 DEF TestFold
    <2>4. ASSUME NEW a \in analogs', a \notin analogs
          PROVE  /\ a.fold = tested + 1 /\ a.row \in f.test
                 /\ \A m \in a.matched : /\ m \in f.train
                                         /\ rows[m].predicted < rows[a.row].predicted
        <3>1. PICK i \in f.test :
                /\ Answered(f, i, answers)
                /\ a = PredictionOf(f, i, answers, score[i])
            BY <2>3, <2>4
        <3>2. /\ a.fold = tested + 1 /\ a.row = i
              /\ a.matched = {s.row : s \in BaseAnswer(f, i, answers).states}
            BY <3>1 DEF PredictionOf
        <3> QED
            BY <3>1, <3>2, MatchesArePrior
    <2> QED
        BY <1>1, <1>2, <1>3, <2>2, <2>4 DEF AnalogsInv
<1> QED
    BY <1>4, <1>5

\* The verdict and the steps of the baseline run leave predictions alone.
LEMMA OthersKeep ==
    ASSUME AnalogsInv,
           \/ JudgeChallenge
           \/ BaselineNext /\ challenge = "waiting" /\ UNCHANGED challengeVars
           \/ UNCHANGED <<allVars, challengeVars>>
    PROVE  AnalogsInv'
<1>1. CASE JudgeChallenge
    <2>1. /\ UNCHANGED <<rows, used, run, handed, tested, analogs>>
          /\ challenge = "running" /\ challenge' # "waiting"
        BY <1>1 DEF JudgeChallenge, allVars, vars, runVars
    <2>2. /\ \A g : Readable(g) => Readable(g)'
          /\ Positions' = Positions
        BY <2>1 DEF Readable, Positions
    <2> QED
        BY <2>1, <2>2 DEF AnalogsInv
<1>2. CASE BaselineNext /\ challenge = "waiting" /\ UNCHANGED challengeVars
    BY <1>2 DEF AnalogsInv, challengeVars
<1>3. CASE UNCHANGED <<allVars, challengeVars>>
    BY <1>3 DEF AnalogsInv, allVars, challengeVars, vars, runVars, Readable,
                Positions, Entries
<1> QED
    BY <1>1, <1>2, <1>3

\* Whatever labels are handed over and whatever the policy, every prediction is
\* of a test row of a fold in use, from rows of its training part that could be
\* read: the inductive invariant of run_regime_analog_oos_challenger.
THEOREM AnalogsInvariant ==
    ChallengeSpec => [](WalkForwardInv /\ RunInv /\ AnalogsInv)
<1>1. ChallengeInit => AnalogsInv
    BY DEF ChallengeInit, AnalogsInv
<1>2. /\ WalkForwardInv /\ RunInv /\ AnalogsInv
      /\ [ChallengeNext]_<<allVars, challengeVars>>
      => AnalogsInv'
    BY StartChallengeKeeps, ChallengeFoldKeeps, OthersKeep DEF ChallengeNext
<1> QED
    BY <1>1, <1>2, ChallengeReads, RunInvariant, PTL DEF ChallengeSpec

\* AnalogsKnown for every instance: no score is made of a row that was
\* predicted later, or whose label as handed over was resolved within the
\* embargo of the prediction or later (_fold_rows, _eligible_candidates).
THEOREM AnalogsFromThePast == ChallengeSpec => []AnalogsKnown
<1>1. ASSUME WalkForwardInv, RunInv, AnalogsInv
      PROVE  AnalogsKnown
    <2> SUFFICES ASSUME NEW a \in analogs, NEW i \in a.matched
                 PROVE  /\ i \in used[a.fold].train
                        /\ rows[i].predicted < rows[a.row].predicted
                        /\ handed[i].resolved < rows[a.row].predicted - config.embargo
        BY DEF AnalogsKnown
    <2>1. rows \in Datasets /\ config \in Configs /\ testStart \in Nat
        BY <1>1 DEF WalkForwardInv, TypeOK
    <2>2. /\ Planned(used[a.fold]) /\ a.row \in used[a.fold].test
          /\ Readable(used[a.fold]) /\ handed \in [Positions -> Entries]
          /\ i \in used[a.fold].train
          /\ rows[i].predicted < rows[a.row].predicted
        BY <1>1 DEF RunInv, AnalogsInv
    <2>3. /\ a.row \in Positions /\ i \in Positions
          /\ used[a.fold].cutoff \in Int
          /\ used[a.fold].cutoff <= rows[a.row].predicted - config.embargo
        BY <2>1, <2>2, CutoffBeforeTests
    <2>4. handed[i].resolved \in Nat
        BY <2>2, <2>3 DEF Entries
    <2>5. handed[i].resolved < used[a.fold].cutoff
        BY <2>2 DEF Readable
    <2>6. rows[a.row].predicted \in Nat /\ config.embargo \in Nat
        BY <2>1, <2>3, RowsType, ConfigType
    <2> QED
        BY <2>2, <2>3, <2>4, <2>5, <2>6
<1> QED
    BY <1>1, AnalogsInvariant, PTL
-----------------------------------------------------------------------------
(* The rows of the folds tested so far: each has one prediction or is       *)
(* suppressed.                                                             *)

TestedInv ==
    /\ challenge = "waiting" =>
        /\ tested = 0 /\ analogs = {} /\ suppressed = {} /\ profile = <<>>
    /\ challenge # "waiting" => tested <= Len(used)
    /\ challenge \in {"running", "returned"} => policy \in ChallengePolicies
    /\ challenge = "returned" => tested = Len(used)
    /\ challenge # "returned" => comparator = {} /\ verdict = "none"
    /\ comparator \subseteq KindsRun
    /\ IsFiniteSet(analogs) /\ IsFiniteSet(suppressed)
    /\ AnalogRows \cup suppressed = UNION {used[n].test : n \in 1..tested}
    /\ AnalogRows \cap suppressed = {}
    /\ \A a \in analogs :
        /\ a.row \in used[a.fold].test /\ State(a.row).regime # "NO_DATA"
        /\ Cardinality(a.matched) = policy.base.k
        /\ a.event = handed[a.row].event /\ a.resolved = handed[a.row].resolved
        /\ a.event \in {"yes", "no"} /\ a.score \in Scores
    /\ \A a, b \in analogs : a.row = b.row => a = b

\* The rows of the history of a fold are those of its states, of k of which
\* an answer is made.
LEMMA MatchesAreK ==
    ASSUME WalkForwardInv, RunInv, NEW n \in 1..Len(used), NEW f, f = used[n],
           NEW i \in f.test,
           NEW answers \in Answers(UNION {SearchesFor(f, j) : j \in f.test}),
           Answered(f, i, answers), NEW score
    PROVE  Cardinality(PredictionOf(f, i, answers, score).matched) = policy.base.k
<1> DEFINE search == Search(State(i), History(f), policy.base)
           S == answers[search].states
           R == {s.row : s \in S}
           row == [s \in S |-> s.row]
<1>1. search \in UNION {SearchesFor(f, j) : j \in f.test}
    BY DEF Answered, BaseReady, SearchesFor
<1>2. answers[search] \in AnswersTo(search)
    BY <1>1 DEF Answers
<1>3. PICK K \in kSubset(search.k, search.candidates) :
            answers[search] \in [states : {K}, first : K]
    BY <1>2 DEF AnswersTo
<1>4. S = K /\ Cardinality(K) = policy.base.k /\ K \subseteq History(f)
    <2>1. search.k = policy.base.k /\ search.candidates \subseteq History(f)
        BY DEF Search, Candidates
    <2> QED
        BY <1>3, <2>1 DEF kSubset
<1>5. \A s \in S : s = State(s.row) /\ s.row \in f.train
    BY <1>4 DEF History, State, StateOf
<1>6. IsFiniteSet(S)
    <2>1. IsFiniteSet(f.train)
        <3>1. f.train \subseteq Positions /\ Len(rows) \in Nat
            <4>1. used[n] \in Folds
                BY DEF RunInv
            <4>2. Len(rows) \in Nat
                BY RowsType DEF WalkForwardInv, TypeOK
            <4> QED
                BY <4>1, <4>2 DEF Folds
        <3>2. IsFiniteSet(Positions)
            BY <3>1, FS_Interval DEF Positions
        <3> QED
            BY <3>1, <3>2, FS_Subset
    <2>2. IsFiniteSet(History(f))
        <3> DEFINE h == [j \in f.train |-> State(j)]
        <3>1. h \in [f.train -> History(f)] /\ \A t \in History(f) : \E j \in f.train : h[j] = t
            BY DEF History
        <3> HIDE DEF h
        <3> QED
            BY <2>1, <3>1, FiniteImage
    <2> QED
        BY <1>4, <2>2, FS_Subset
<1>7. /\ row \in [S -> R]
      /\ \A x, y \in S : row[x] = row[y] => x = y
      /\ \A t \in R : \E x \in S : row[x] = t
    <2>1. \A x, y \in S : row[x] = row[y] => x = y
        <3> SUFFICES ASSUME NEW x \in S, NEW y \in S, x.row = y.row PROVE x = y
            OBVIOUS
        <3> QED
            BY <1>5
    <2> QED
        BY <2>1
<1>8. Cardinality(R) = Cardinality(S)
    <2> HIDE DEF row, R, S
    <2> QED
        BY <1>6, <1>7, AsLarge
<1>9. PredictionOf(f, i, answers, score).matched = R
    BY DEF PredictionOf, BaseAnswer
<1> QED
    BY <1>4, <1>8, <1>9

\* Nothing that the tested rows are described by changes.
LEMMA TestedStays ==
    ASSUME TestedInv, UNCHANGED <<rows, used, challengeVars>>
    PROVE  TestedInv'
<1>1. \A i : State(i)' = State(i)
    BY DEF State, challengeVars
<1>2. AnalogRows' = AnalogRows
    BY DEF AnalogRows, challengeVars
<1> QED
    BY <1>1, <1>2 DEF TestedInv, challengeVars

\* A challenge starts before the first fold.
LEMMA StartTests ==
    ASSUME RunInv, TestedInv, StartChallenge
    PROVE  TestedInv'
<1>1. /\ UNCHANGED <<used, tested, analogs, suppressed, comparator, verdict>>
      /\ challenge' \in {"running", "raised"} /\ tested = 0 /\ analogs = {}
      /\ suppressed = {} /\ comparator = {} /\ verdict = "none"
      /\ challenge' = "running" => policy' \in ChallengePolicies
    BY DEF StartChallenge, TestedInv, allVars, runVars
<1>2. AnalogRows' = {} /\ UNION {used'[n].test : n \in 1..tested'} = {} /\ tested' <= Len(used')
    <2>1. 1..tested' = {} /\ Len(used) \in Nat
        BY <1>1 DEF RunInv
    <2> QED
        BY <1>1, <2>1 DEF AnalogRows
<1> QED
    BY <1>1, <1>2, FS_EmptySet DEF TestedInv

\* A fold is tested whose rows are none of those before.
LEMMA FoldTests ==
    ASSUME WalkForwardInv, RunInv, RoundInv, AnalogsInv, TestedInv, ChallengeFold
    PROVE  TestedInv'
<1> DEFINE f == used[tested + 1]
           Before == UNION {used[n].test : n \in 1..tested}
<1>1. /\ UNCHANGED allVars /\ UNCHANGED <<profile, handed, policy, comparator, verdict>>
      /\ challenge = "running" /\ tested < Len(used)
    BY Zenon DEF ChallengeFold
<1>2. /\ handed \in [Positions -> Entries] /\ tested \in Nat /\ Len(used) \in Nat
      /\ tested + 1 \in 1..Len(used) /\ comparator = {} /\ verdict = "none"
    BY <1>1 DEF AnalogsInv, RunInv, TestedInv
<1>3. UNCHANGED <<rows, used>> /\ \A i : State(i)' = State(i)
    BY <1>1 DEF allVars, vars, runVars, State
<1>4. CASE challenge' = "raised" /\ UNCHANGED <<tested, analogs, suppressed>>
    <2>1. AnalogRows' = AnalogRows
        BY <1>4 DEF AnalogRows
    <2> HIDE DEF f, Before
    <2> QED
        BY <1>1, <1>2, <1>3, <1>4, <2>1 DEF TestedInv
<1>5. CASE \E answers \in Answers(UNION {SearchesFor(f, i) : i \in f.test}) :
            /\ TestFold(f, answers) /\ challenge' # "raised"
    <2>1. PICK answers \in Answers(UNION {SearchesFor(f, i) : i \in f.test}) :
            TestFold(f, answers) /\ challenge' # "raised"
        BY <1>5
    <2> DEFINE P == {i \in f.test : Answered(f, i, answers)}
    <2>2. /\ \A i \in P : handed[i].event # "absent"
          /\ \E score \in [P -> Scores] :
                analogs' = analogs \cup
                    {PredictionOf(f, i, answers, score[i]) : i \in P}
          /\ suppressed' = suppressed \cup (f.test \ P)
          /\ tested' = tested + 1 /\ challenge' = "running"
        BY <1>1, <2>1, Zenon DEF TestFold
    <2>3. PICK score \in [P -> Scores] :
            analogs' = analogs \cup {PredictionOf(f, i, answers, score[i]) : i \in P}
        BY <2>2
    <2> DEFINE New == {PredictionOf(f, i, answers, score[i]) : i \in P}
    <2>4. f.test \subseteq Positions /\ IsFiniteSet(f.test)
        BY <1>2, CutoffBeforeTests, TestsFinite DEF RunInv, WalkForwardInv, TypeOK
    <2>5. P \subseteq f.test /\ IsFiniteSet(P) /\ IsFiniteSet(f.test \ P)
        BY <2>4, FS_Subset
    <2>6. ASSUME NEW a \in New
          PROVE  /\ a.fold = tested + 1 /\ a.row \in P
                 /\ a = PredictionOf(f, a.row, answers, score[a.row])
                 /\ State(a.row).regime # "NO_DATA"
                 /\ Cardinality(a.matched) = policy.base.k
                 /\ a.event = handed[a.row].event /\ a.resolved = handed[a.row].resolved
                 /\ a.event \in {"yes", "no"} /\ a.score \in Scores
        <3>1. PICK i \in P : a = PredictionOf(f, i, answers, score[i])
            OBVIOUS
        <3>2. /\ a.fold = tested + 1 /\ a.row = i /\ a.score = score[i]
              /\ a.event = handed[i].event /\ a.resolved = handed[i].resolved
            BY <3>1 DEF PredictionOf
        <3>3. Answered(f, i, answers) /\ i \in f.test
            OBVIOUS
        <3>4. Cardinality(a.matched) = policy.base.k
            <4>1. f = used[tested + 1]
                OBVIOUS
            <4> HIDE DEF f, P, New
            <4> QED
                BY <1>2, <3>1, <3>3, <4>1, MatchesAreK
        <3>5. State(i).regime # "NO_DATA"
            BY <3>3 DEF Answered, BaseReady, Ready
        <3>6. a.event \in {"yes", "no"}
            <4>1. handed[i] \in Entries /\ handed[i].event # "absent"
                BY <1>2, <2>2, <2>4, <3>3
            <4> QED
                BY <3>2, <4>1 DEF Entries
        <3> QED
            BY <3>1, <3>2, <3>4, <3>5, <3>6
    <2>7. \A i \in P : \E a \in New : a.row = i
        <3> SUFFICES ASSUME NEW i \in P PROVE \E a \in New : a.row = i
            OBVIOUS
        <3>1. PredictionOf(f, i, answers, score[i]).row = i
            BY DEF PredictionOf
        <3> QED
            BY <3>1
    <2>8. IsFiniteSet(New)
        <3> DEFINE g == [i \in P |-> PredictionOf(f, i, answers, score[i])]
        <3>1. g \in [P -> New] /\ \A a \in New : \E i \in P : g[i] = a
            OBVIOUS
        <3> HIDE DEF g, New, P
        <3> QED
            BY <2>5, <3>1, FiniteImage
    <2>9. Before \cap f.test = {}
        <3> SUFFICES ASSUME NEW n \in 1..tested, NEW i \in used[n].test, i \in f.test
                     PROVE  FALSE
            OBVIOUS
        <3>1. n \in 1..Len(used) /\ n < tested + 1 /\ i \in Int
            BY <1>2, <2>4 DEF Positions
        <3> QED
            BY <1>2, <3>1 DEF RoundInv
    <2>10. UNION {used[n].test : n \in 1..tested'} = Before \cup f.test
        <3>1. 1..tested' = 1..tested \cup {tested + 1}
            BY <1>2, <2>2
        <3> QED
            BY <3>1
    <2> HIDE DEF New, P, Before, f
    <2>11. AnalogRows' = AnalogRows \cup P
        BY <2>3, <2>6, <2>7 DEF AnalogRows, New
    <2>12. AnalogRows \cup suppressed = Before
        BY DEF TestedInv, Before
    <2>13. IsFiniteSet(analogs') /\ IsFiniteSet(suppressed')
        BY <2>2, <2>3, <2>5, <2>8, FS_Union DEF TestedInv, New
    <2>14. /\ AnalogRows' \cup suppressed' = Before \cup f.test
           /\ AnalogRows' \cap suppressed' = {}
        BY <2>2, <2>5, <2>9, <2>11, <2>12 DEF TestedInv
    <2>15. \A a, b \in analogs' : a.row = b.row => a = b
        <3>1. \A a \in analogs : a.row \notin P
            BY <2>5, <2>9, <2>12 DEF AnalogRows
        <3>2. \A a \in New : a.row \in P /\ a = PredictionOf(f, a.row, answers, score[a.row])
            BY <2>6 DEF f
        <3> QED
            BY <2>3, <3>1, <3>2 DEF TestedInv, New
    <2>16. \A a \in analogs' :
            /\ a.row \in used[a.fold].test /\ State(a.row).regime # "NO_DATA"
            /\ Cardinality(a.matched) = policy.base.k
            /\ a.event = handed[a.row].event /\ a.resolved = handed[a.row].resolved
            /\ a.event \in {"yes", "no"} /\ a.score \in Scores
        <3> SUFFICES ASSUME NEW a \in analogs'
                     PROVE  /\ a.row \in used[a.fold].test /\ State(a.row).regime # "NO_DATA"
                            /\ Cardinality(a.matched) = policy.base.k
                            /\ a.event = handed[a.row].event
                            /\ a.resolved = handed[a.row].resolved
                            /\ a.event \in {"yes", "no"} /\ a.score \in Scores
            OBVIOUS
        <3>1. CASE a \in analogs
            BY <3>1 DEF TestedInv
        <3>2. CASE a \in New
            BY <3>2, <2>5, <2>6 DEF f
        <3> QED
            BY <2>3, <3>1, <3>2 DEF New
    <2>17. tested' <= Len(used)
        BY <1>2, <2>2
    <2> QED
        BY <1>1, <1>2, <1>3, <2>2, <2>10, <2>13, <2>14, <2>15, <2>16, <2>17
           DEF TestedInv
<1> QED
    BY <1>4, <1>5, Zenon DEF ChallengeFold, TestFold

\* The verdict comes after the last fold.
LEMMA JudgeChallengeTests ==
    ASSUME TestedInv, JudgeChallenge
    PROVE  TestedInv'
<1>1. /\ UNCHANGED <<rows, used, profile, handed, policy, tested, analogs, suppressed>>
      /\ challenge = "running" /\ tested = Len(used)
      /\ challenge' \in {"returned", "raised"}
      /\ challenge' = "raised" => UNCHANGED <<comparator, verdict>>
    BY DEF JudgeChallenge, allVars, vars, runVars
<1>2. comparator = {} /\ verdict = "none"
    BY <1>1 DEF TestedInv
<1>3. comparator' \subseteq KindsRun
    BY <1>2 DEF JudgeChallenge, Comparable
<1>4. \A i : State(i)' = State(i)
    BY <1>1 DEF State
<1>5. AnalogRows' = AnalogRows
    BY <1>1 DEF AnalogRows
<1> QED
    BY <1>1, <1>2, <1>3, <1>4, <1>5 DEF TestedInv

\* While no challenge has begun, nothing was tested, whatever is planned.
LEMMA WaitingTests ==
    ASSUME TestedInv, challenge = "waiting", UNCHANGED challengeVars
    PROVE  TestedInv'
<1>1. /\ UNCHANGED <<tested, analogs, suppressed, profile, comparator, verdict, challenge>>
      /\ tested = 0 /\ analogs = {} /\ suppressed = {}
    BY DEF TestedInv, challengeVars
<1>2. AnalogRows' = {} /\ UNION {used'[n].test : n \in 1..tested'} = {}
    <2>1. 1..tested' = {}
        BY <1>1
    <2> QED
        BY <1>1, <2>1 DEF AnalogRows
<1> QED
    BY <1>1, <1>2 DEF TestedInv

\* The rows of the folds tested so far, in every reachable state.
THEOREM TestedInvariant == ChallengeSpec => []TestedInv
<1>1. ChallengeInit => TestedInv
    <2> SUFFICES ASSUME ChallengeInit PROVE TestedInv
        OBVIOUS
    <2>1. /\ tested = 0 /\ analogs = {} /\ suppressed = {} /\ profile = <<>>
          /\ comparator = {} /\ verdict = "none" /\ challenge = "waiting"
        BY DEF ChallengeInit
    <2>2. AnalogRows = {} /\ UNION {used[n].test : n \in 1..tested} = {}
        <3>1. 1..tested = {}
            BY <2>1
        <3> QED
            BY <2>1, <3>1 DEF AnalogRows
    <2> QED
        BY <2>1, <2>2, FS_EmptySet DEF TestedInv
<1>2. /\ WalkForwardInv /\ RunInv /\ RoundInv /\ AnalogsInv /\ TestedInv
      /\ [ChallengeNext]_<<allVars, challengeVars>>
      => TestedInv'
    <2> SUFFICES ASSUME WalkForwardInv, RunInv, RoundInv, AnalogsInv, TestedInv,
                        [ChallengeNext]_<<allVars, challengeVars>>
                 PROVE  TestedInv'
        OBVIOUS
    <2>1. CASE UNCHANGED <<allVars, challengeVars>>
        <3>1. UNCHANGED <<rows, used, challengeVars>>
            BY <2>1 DEF allVars, vars, runVars
        <3> QED
            BY <3>1, TestedStays
    <2> QED
        BY <2>1, WaitingTests, StartTests, FoldTests, JudgeChallengeTests
           DEF ChallengeNext
<1>3. ChallengeSpec => []RoundInv
    BY ChallengeReads, RoundInvariant, PTL
<1> QED
    BY <1>1, <1>2, <1>3, AnalogsInvariant, PTL DEF ChallengeSpec

\* There are as many predictions as rows that have one.
LEMMA OnePerRow ==
    ASSUME TestedInv
    PROVE  /\ IsFiniteSet(AnalogRows) /\ Cardinality(AnalogRows) = Cardinality(analogs)
           /\ Cardinality(analogs) \in Nat /\ Cardinality(suppressed) \in Nat
<1> DEFINE row == [a \in analogs |-> a.row]
<1>1. /\ row \in [analogs -> AnalogRows]
      /\ \A x, y \in analogs : row[x] = row[y] => x = y
      /\ \A t \in AnalogRows : \E a \in analogs : row[a] = t
    BY DEF AnalogRows, TestedInv
<1>2. IsFiniteSet(analogs) /\ IsFiniteSet(suppressed)
    BY DEF TestedInv
<1> HIDE DEF row
<1> QED
    BY <1>1, <1>2, AsLarge, FS_CardinalityType

\* PredictedOrSuppressed for every instance: every test row of every fold has
\* one prediction, made of k rows, or is suppressed (predictions,
\* suppressions).
THEOREM EachRowPredictedOrSuppressed == ChallengeSpec => []PredictedOrSuppressed
<1>1. ASSUME RunInv, AnalogsInv, TestedInv
      PROVE  PredictedOrSuppressed
    <2> SUFFICES ASSUME challenge = "returned"
                 PROVE  PredictedOrSuppressed
        BY DEF PredictedOrSuppressed
    <2>1. DOMAIN used = 1..Len(used) /\ tested = Len(used)
        BY <1>1 DEF RunInv, TestedInv
    <2> QED
        BY <1>1, <2>1, OnePerRow DEF PredictedOrSuppressed, TestedInv
<1> QED
    BY <1>1, AnalogsInvariant, TestedInvariant, PTL

\* The records of a kind on the rows with a prediction: one for each.
LEMMA ComparedRows ==
    ASSUME WalkForwardInv, RunInv, RoundInv, AnalogsInv, TestedInv,
           challenge # "waiting", NEW k \in KindsRun
    PROVE  /\ {r.row : r \in ComparedSample(k)} = AnalogRows
           /\ IsFiniteSet(ComparedSample(k))
           /\ Cardinality(ComparedSample(k)) = Cardinality(analogs)
           /\ \A r \in ComparedSample(k) :
                r.event = bundle[r.row].event /\ r.resolved = bundle[r.row].resolved
<1>1. run = "returned" /\ tested <= Len(used) /\ tested \in Nat /\ Len(used) \in Nat
    BY DEF AnalogsInv, TestedInv, RunInv
<1>2. ASSUME NEW i \in AnalogRows
      PROVE  \E r \in ComparedSample(k) : /\ r.row = i
                                         /\ \A q \in ComparedSample(k) : q.row = i => q = r
    <2>1. PICK n \in 1..tested : i \in used[n].test
        BY DEF TestedInv
    <2>2. n \in 1..Len(used)
        BY <1>1, <2>1
    <2>3. PICK r \in Sample(k) : r.row = i /\ \A q \in Sample(k) : q.row = i => q = r
        BY <1>1, <2>1, <2>2, RecordOf
    <2> QED
        BY <2>3 DEF ComparedSample
<1>3. {r.row : r \in ComparedSample(k)} = AnalogRows
    <2>1. \A r \in ComparedSample(k) : r.row \in AnalogRows
        BY DEF ComparedSample
    <2> QED
        BY <1>2, <2>1
<1>4. IsFiniteSet(ComparedSample(k))
    BY SampleType, FS_Subset DEF ComparedSample
<1> DEFINE row == [r \in ComparedSample(k) |-> r.row]
<1>5. /\ row \in [ComparedSample(k) -> AnalogRows]
      /\ \A x, y \in ComparedSample(k) : row[x] = row[y] => x = y
      /\ \A t \in AnalogRows : \E r \in ComparedSample(k) : row[r] = t
    BY <1>2, <1>3
<1>6. Cardinality(AnalogRows) = Cardinality(ComparedSample(k))
    <2> HIDE DEF row
    <2> QED
        BY <1>4, <1>5, AsLarge
<1>7. Cardinality(ComparedSample(k)) = Cardinality(analogs)
    BY <1>6, OnePerRow
<1>8. \A r \in ComparedSample(k) :
        r.event = bundle[r.row].event /\ r.resolved = bundle[r.row].resolved
    BY DEF ComparedSample, Sample, RoundInv
<1> QED
    BY <1>3, <1>4, <1>7, <1>8

\* ComparedOnSameRows for every instance: the baseline that the analogs are
\* compared with is judged on exactly their rows, once each, and on the same
\* outcome unless the row was relabeled (_baseline_evidence_on_subset).
THEOREM ComparisonIsFair == ChallengeSpec => []ComparedOnSameRows
<1>1. ASSUME WalkForwardInv, RunInv, RoundInv, AnalogsInv, TestedInv
      PROVE  ComparedOnSameRows
    <2> SUFFICES ASSUME NEW k \in comparator
                 PROVE  /\ {r.row : r \in ComparedSample(k)} = AnalogRows
                        /\ Cardinality(ComparedSample(k)) = Cardinality(analogs)
                        /\ \A r \in ComparedSample(k), a \in analogs :
                            r.row = a.row /\ handed[a.row] = bundle[a.row] =>
                                r.event = a.event /\ r.resolved = a.resolved
        BY DEF ComparedOnSameRows
    <2>1. k \in KindsRun /\ challenge # "waiting"
        BY <1>1 DEF TestedInv
    <2>2. \A a \in analogs :
            a.event = handed[a.row].event /\ a.resolved = handed[a.row].resolved
        BY <1>1 DEF TestedInv
    <2> QED
        BY <1>1, <2>1, <2>2, ComparedRows
<1>2. ChallengeSpec => []RoundInv
    BY ChallengeReads, RoundInvariant, PTL
<1> QED
    BY <1>1, <1>2, AnalogsInvariant, TestedInvariant, PTL

\* With labels as they were planned and no signals named, a fold can be read
\* and searched.
LEMMA PlannedFoldsAreFine ==
    ASSUME rows \in Datasets, config \in Configs, testStart \in Nat,
           NEW f, Planned(f), policy \in ChallengePolicies, policy.base.keys = {},
           \A i \in Positions : \E e \in {"yes", "no"} : handed[i] = AsPlanned(i, e)
    PROVE  /\ Readable(f) /\ \A i \in f.test : ~Unsearchable(f, i)
           /\ \A i \in f.test : handed[i].event # "absent"
<1>1. PICK s \in 0..testStart :
            s + config.testSize <= Len(rows) /\ f = Fold(s)
    BY DEF Planned
<1>2. f.train \subseteq Positions /\ f.test \subseteq Positions
    BY <1>1, FoldType DEF Folds
<1>3. \A i \in Positions : /\ handed[i].present /\ handed[i].event # "absent"
                          /\ handed[i].resolved = rows[i].resolved
    <2> SUFFICES ASSUME NEW i \in Positions
                 PROVE  /\ handed[i].present /\ handed[i].event # "absent"
                        /\ handed[i].resolved = rows[i].resolved
        OBVIOUS
    <2>1. PICK e \in {"yes", "no"} : handed[i] = AsPlanned(i, e)
        OBVIOUS
    <2>2. handed[i].present = TRUE
        BY <2>1 DEF AsPlanned
    <2>3. handed[i].event # "absent" /\ handed[i].resolved = rows[i].resolved
        BY <2>1 DEF AsPlanned
    <2> QED
        BY <2>2, <2>3, Zenon
<1>4. f.train \subseteq Eligible(s) /\ f.cutoff = Cutoff(s)
    BY <1>1 DEF Fold, TrainRows
<1>5. \A i \in f.train : rows[i].resolved < f.cutoff
    BY <1>4 DEF Eligible
<1>6. Readable(f)
    BY <1>2, <1>3, <1>5 DEF Readable
<1>7. \A i \in f.test : ~Unsearchable(f, i)
    <2>1. \A c \in Scenarios(policy) : c.keys = {}
        <3>1. policy.base \in AnalogConfigs
            BY ChallengeAssumption DEF IsPolicy
        <3>2. "keys" \in DOMAIN policy.base
            BY <3>1 DEF AnalogConfigs
        <3>3. \A m, e, l, u : Variation(policy.base, m, e, l, u).keys = {}
            BY <3>2 DEF Variation
        <3> QED
            BY <3>3 DEF Scenarios, ScenarioAt
    <2>2. ~ScenarioRaises(policy)
        BY <2>1 DEF ScenarioRaises
    <2>3. \A query : ~SearchRaises(query, policy.base)
        BY DEF SearchRaises, SelectedSignals
    <2> QED
        BY <2>2, <2>3 DEF Unsearchable
<1> QED
    BY <1>2, <1>3, <1>6, <1>7

\* AlwaysComparable for every instance: with the folds and labels of the
\* baseline run, and searches that name no signals, the challenger never
\* raises (run_regime_analog_oos_challenger).
THEOREM ChallengeNeverRaises == ChallengeSpec => []AlwaysComparable
<1> DEFINE Changed == \E i \in Positions : \A e \in {"yes", "no"} : handed[i] # AsPlanned(i, e)
<1>1. ChallengeInit => AlwaysComparable
    BY DEF ChallengeInit, AlwaysComparable
<1>2. /\ WalkForwardInv /\ RunInv /\ RoundInv /\ SkillsInv /\ AnalogsInv /\ TestedInv
      /\ AlwaysComparable /\ [ChallengeNext]_<<allVars, challengeVars>>
      => AlwaysComparable'
    <2> SUFFICES ASSUME WalkForwardInv, RunInv, RoundInv, SkillsInv, AnalogsInv,
                        TestedInv, AlwaysComparable,
                        [ChallengeNext]_<<allVars, challengeVars>>,
                        challenge' = "raised"
                 PROVE  profile' = <<>> \/ policy'.base.keys # {} \/ Changed'
        BY DEF AlwaysComparable
    <2>1. CASE challenge = "raised"
        <3>1. UNCHANGED <<rows, profile, policy, handed>>
            BY <2>1 DEF ChallengeNext, StartChallenge, ChallengeFold,
                        JudgeChallenge, allVars, vars, challengeVars
        <3> QED
            BY <2>1, <3>1 DEF AlwaysComparable, Positions, AsPlanned
    <2>2. CASE StartChallenge
        BY <2>2 DEF StartChallenge, TestedInv
    <2>3. CASE ChallengeFold
        <3> DEFINE f == used[tested + 1]
        <3>1. /\ UNCHANGED <<rows, profile, policy, handed>>
              /\ challenge = "running" /\ tested < Len(used)
            BY <2>3, Zenon DEF ChallengeFold, allVars, vars
        <3>2. Planned(f) /\ policy \in ChallengePolicies
            BY <3>1 DEF RunInv, AnalogsInv, TestedInv
        <3>3. \/ ~(Readable(f) /\ \A i \in f.test : ~Unsearchable(f, i))
              \/ \E i \in f.test : handed[i].event = "absent"
            <4>1. CASE \E answers \in Answers(UNION {SearchesFor(f, i) : i \in f.test}) :
                        TestFold(f, answers)
                <5>1. PICK answers : TestFold(f, answers)
                    BY <4>1
                <5>2. \E i \in {j \in f.test : Answered(f, j, answers)} :
                        handed[i].event = "absent"
                    BY <3>1, <5>1 DEF TestFold
                <5> QED
                    BY <5>2
            <4>2. CASE ~(Readable(f) /\ \A i \in f.test : ~Unsearchable(f, i))
                BY <4>2
            <4> QED
                BY <2>3, <4>1, <4>2, Zenon DEF ChallengeFold
        <3>4. policy.base.keys # {} \/ Changed
            BY <3>2, <3>3, PlannedFoldsAreFine DEF WalkForwardInv, TypeOK
        <3> QED
            BY <3>1, <3>4 DEF Positions, AsPlanned
    <2>4. CASE JudgeChallenge
        <3>1. challenge = "running" /\ challenge # "waiting" /\ run = "returned"
            BY <2>4 DEF JudgeChallenge, AnalogsInv
        <3>2. analogs # {} /\ Comparable = {}
            BY <2>4 DEF JudgeChallenge
        <3>3. B0 \in KindsRun /\ ComparedSample(B0) = {}
            BY <3>1, <3>2, KindsType DEF Comparable, SkillsInv
        <3>4. AnalogRows = {}
            BY <3>1, <3>3, ComparedRows
        <3> QED
            BY <3>2, <3>4 DEF AnalogRows
    <2> QED
        BY <2>1, <2>2, <2>3, <2>4 DEF ChallengeNext, challengeVars
<1>3. ChallengeSpec => []RoundInv /\ []SkillsInv
    BY ChallengeReads, RoundInvariant, SkillsInvariant, PTL
<1> QED
    BY <1>1, <1>2, <1>3, AnalogsInvariant, TestedInvariant, PTL DEF ChallengeSpec
-----------------------------------------------------------------------------
(* The verdict. *)

\* What the verdict is about stays while the predictions and records stay.
LEMMA SquaresStay ==
    ASSUME UNCHANGED <<records, analogs>>, NEW k
    PROVE  /\ ComparedSample(k)' = ComparedSample(k)
           /\ Squares(ComparedSample(k))' = Squares(ComparedSample(k))
           /\ Losses(ComparedSample(k))' = Losses(ComparedSample(k))
           /\ Squares(analogs)' = Squares(analogs) /\ Losses(analogs)' = Losses(analogs)
<1>1. ComparedSample(k)' = ComparedSample(k)
    BY DEF ComparedSample, Sample, AnalogRows
<1>2. Squares(ComparedSample(k))' = Squares(ComparedSample(k))
    BY <1>1 DEF Squares, MapThenSumSet, MapThenFoldSet
<1>3. Losses(ComparedSample(k))' = Losses(ComparedSample(k))
    BY <1>1 DEF Losses, MapThenSumSet, MapThenFoldSet
<1>4. Squares(analogs)' = Squares(analogs)
    BY DEF Squares, MapThenSumSet, MapThenFoldSet
<1>5. Losses(analogs)' = Losses(analogs)
    BY DEF Losses, MapThenSumSet, MapThenFoldSet
<1> QED
    BY <1>1, <1>2, <1>3, <1>4, <1>5

\* What is judged depends on the records, the lists and the policy alone.
LEMMA VerdictStays ==
    ASSUME UNCHANGED <<records, analogs, skills, suppressed, policy>>
    PROVE  /\ Comparable' = Comparable /\ Insufficient' = Insufficient
           /\ \A j, k : (Ahead(j, k)' <=> Ahead(j, k)) /\ (Worse(k)' <=> Worse(k))
<1>1. Comparable' = Comparable
    BY SquaresStay DEF Comparable
<1>2. Insufficient' = Insufficient
    BY DEF Insufficient, Happened
<1>3. ASSUME NEW j, NEW k
      PROVE  (Ahead(j, k)' <=> Ahead(j, k)) /\ (Worse(k)' <=> Worse(k))
    <2>1. /\ ComparedSample(k)' = ComparedSample(k) /\ ComparedSample(j)' = ComparedSample(j)
          /\ Squares(ComparedSample(k))' = Squares(ComparedSample(k))
          /\ Squares(ComparedSample(j))' = Squares(ComparedSample(j))
          /\ Losses(ComparedSample(k))' = Losses(ComparedSample(k))
          /\ Losses(ComparedSample(j))' = Losses(ComparedSample(j))
          /\ Squares(analogs)' = Squares(analogs) /\ Losses(analogs)' = Losses(analogs)
        BY SquaresStay
    <2> QED
        BY <2>1 DEF Ahead, Worse, SquaresLess, LossesLess
<1> QED
    BY <1>1, <1>2, <1>3

\* What an eligible challenger was found to be.
VerdictInv ==
    verdict = "ELIGIBLE_REGIME_CHALLENGER" =>
        /\ analogs # {} /\ ~Insufficient
        /\ \E k \in Comparable :
            /\ comparator = {k} /\ ~Worse(k)
            /\ \A j \in Comparable \ {k} : Ahead(k, j)

\* An ELIGIBLE verdict was given to analogs that met the samples and were not
\* worse than the comparator, and it stays.
THEOREM VerdictInvariant == ChallengeSpec => []VerdictInv
<1>1. ChallengeInit => VerdictInv
    BY DEF ChallengeInit, VerdictInv
<1>2. TestedInv /\ VerdictInv /\ [ChallengeNext]_<<allVars, challengeVars>> => VerdictInv'
    <2> SUFFICES ASSUME TestedInv, VerdictInv, [ChallengeNext]_<<allVars, challengeVars>>,
                        verdict' = "ELIGIBLE_REGIME_CHALLENGER"
                 PROVE  VerdictInv'
        BY DEF VerdictInv
    <2>1. CASE verdict = verdict'
        <3>1. challenge = "returned"
            BY <2>1 DEF TestedInv
        <3>2. UNCHANGED <<records, analogs, skills, suppressed, policy, comparator, verdict>>
            BY <3>1 DEF ChallengeNext, StartChallenge, ChallengeFold, JudgeChallenge,
                        allVars, runVars, challengeVars
        <3> QED
            BY <3>2, VerdictStays DEF VerdictInv
    <2>2. CASE verdict # verdict'
        <3>1. JudgeChallenge
            BY <2>2 DEF ChallengeNext, StartChallenge, ChallengeFold, challengeVars
        <3>2. /\ analogs # {} /\ ~Insufficient
              /\ \E k \in Comparable :
                    /\ comparator' = {k} /\ ~Worse(k)
                    /\ \A j \in Comparable \ {k} : Ahead(k, j)
            BY <2>2, <3>1 DEF JudgeChallenge
        <3>3. UNCHANGED <<records, analogs, skills, suppressed, policy>>
            BY <3>1 DEF JudgeChallenge, allVars, runVars
        <3> QED
            BY <3>2, <3>3, VerdictStays DEF VerdictInv
    <2> QED
        BY <2>1, <2>2
<1> QED
    BY <1>1, <1>2, TestedInvariant, PTL DEF ChallengeSpec

\* The sums that are compared are numbers.
LEMMA ComparedType ==
    ASSUME RoundInv, TestedInv, NEW k
    PROVE  /\ Squares(ComparedSample(k)) \in Nat /\ Losses(ComparedSample(k)) \in Nat
           /\ Squares(analogs) \in Nat /\ Losses(analogs) \in Nat
<1>1. /\ IsFiniteSet(ComparedSample(k))
      /\ \A r \in ComparedSample(k) : SquaredError(r) \in Nat /\ LogLoss(r) \in Nat
    <2>1. ComparedSample(k) \subseteq records
        BY DEF ComparedSample, Sample
    <2>2. \A r \in records : r.event \in {"yes", "no"} /\ r.score \in Scores
        BY DEF RoundInv
    <2>3. IsFiniteSet(ComparedSample(k))
        BY <2>1, FS_Subset DEF RoundInv
    <2> QED
        BY <2>1, <2>2, <2>3, ErrorsType
<1>2. /\ IsFiniteSet(analogs)
      /\ \A a \in analogs : SquaredError(a) \in Nat /\ LogLoss(a) \in Nat
    BY ErrorsType DEF TestedInv
<1>3. Squares(ComparedSample(k)) \in Nat /\ Squares(analogs) \in Nat
    BY <1>1, <1>2, SquaredErrorsSum DEF Squares
<1>4. Losses(ComparedSample(k)) \in Nat /\ Losses(analogs) \in Nat
    BY <1>1, <1>2, LogLossesSum DEF Losses
<1> QED
    BY <1>3, <1>4

\* Predictions that met the samples are of as many rows, of either class too.
LEMMA AnalogsCounted ==
    ASSUME TestedInv, policy \in ChallengePolicies, ~Insufficient
    PROVE  /\ Cardinality(AnalogRows) >= policy.minSample
           /\ \A e \in {"yes", "no"} :
                Cardinality(RowsOf(OfEvent(analogs, e))) >= policy.minClass
<1>1. /\ policy.minSample \in Nat /\ policy.minClass \in Nat
      /\ ~(Cardinality(analogs) < policy.minSample)
      /\ ~(Cardinality(Happened(analogs)) < policy.minClass)
      /\ ~(Cardinality(analogs \ Happened(analogs)) < policy.minClass)
    BY ChallengeAssumption DEF IsPolicy, Insufficient
<1>2. /\ OfEvent(analogs, "yes") = Happened(analogs)
      /\ OfEvent(analogs, "no") = analogs \ Happened(analogs)
    BY DEF TestedInv, OfEvent, Happened
<1>3. ASSUME NEW S \in SUBSET analogs
      PROVE  Cardinality(RowsOf(S)) = Cardinality(S) /\ Cardinality(S) \in Nat
    <2>1. IsFiniteSet(S) /\ \A x, y \in S : x.row = y.row => x = y
        BY FS_Subset DEF TestedInv
    <2> QED
        BY <2>1, RowsCounted, FS_CardinalityType
<1>4. /\ OfEvent(analogs, "yes") \in SUBSET analogs
      /\ OfEvent(analogs, "no") \in SUBSET analogs
    BY DEF OfEvent
<1>5. Cardinality(RowsOf(OfEvent(analogs, "yes"))) >= policy.minClass
    <2>1. /\ Cardinality(RowsOf(OfEvent(analogs, "yes"))) = Cardinality(Happened(analogs))
          /\ Cardinality(Happened(analogs)) \in Nat
        BY <1>2, <1>3, <1>4
    <2> QED
        BY <1>1, <2>1
<1>6. Cardinality(RowsOf(OfEvent(analogs, "no"))) >= policy.minClass
    <2>1. /\ Cardinality(RowsOf(OfEvent(analogs, "no"))) =
                Cardinality(analogs \ Happened(analogs))
          /\ Cardinality(analogs \ Happened(analogs)) \in Nat
        BY <1>2, <1>3, <1>4
    <2> QED
        BY <1>1, <2>1
<1> QED
    BY <1>1, <1>5, <1>6, OnePerRow

\* AnalogsEarned for every instance: an eligible challenger predicted as many
\* rows, and as many of either class, as its policy asks for; over those rows
\* it made no larger squared errors than any baseline that was not rejected,
\* and no larger log loss than the one it was compared with, ties accepted;
\* and it suppressed no larger share of the test rows than its policy allows
\* (RegimeAnalogSkillState).
THEOREM AnalogsEarnTheirVerdict == ChallengeSpec => []AnalogsEarned
<1>1. ASSUME WalkForwardInv, RunInv, RoundInv, SkillsInv, AnalogsInv, TestedInv, VerdictInv
      PROVE  AnalogsEarned
    <2> SUFFICES ASSUME verdict = "ELIGIBLE_REGIME_CHALLENGER"
                 PROVE  AnalogsEarned
        BY DEF AnalogsEarned
    <2>1. PICK c \in Comparable :
            /\ comparator = {c} /\ ~Worse(c)
            /\ \A j \in Comparable \ {c} : Ahead(c, j)
        BY <1>1 DEF VerdictInv
    <2>2. /\ analogs # {} /\ ~Insufficient /\ challenge = "returned" /\ c \in KindsRun
          /\ run = "returned" /\ tested = Len(used) /\ policy \in ChallengePolicies
        BY <1>1, <2>1 DEF VerdictInv, TestedInv, AnalogsInv, Comparable
    <2> DEFINE n == Cardinality(analogs)
    <2>3. n \in Nat \ {0}
        <3>1. IsFiniteSet(analogs)
            BY <1>1 DEF TestedInv
        <3> QED
            BY <2>2, <3>1, FS_EmptySet, FS_CardinalityType
    <2>4. \A k \in KindsRun : Cardinality(ComparedSample(k)) = n
        BY <1>1, <2>2, ComparedRows
    <2> HIDE DEF n
    <2>5. /\ Squares(analogs) <= Squares(ComparedSample(c))
          /\ Losses(analogs) <= Losses(ComparedSample(c))
        <3>1. /\ ~(Squares(ComparedSample(c)) * n < Squares(analogs) * n)
              /\ ~(Losses(ComparedSample(c)) * n < Losses(analogs) * n)
            BY <2>1, <2>2, <2>4 DEF Worse, SquaresLess, LossesLess, n
        <3> QED
            BY <1>1, <2>3, <3>1, ComparedType, SumsForMeans
    <2>6. ASSUME NEW k \in KindsRun, skills[k] # "REJECTED"
          PROVE  Squares(analogs) <= Squares(ComparedSample(k))
        <3>1. CASE k = c
            BY <2>5, <3>1
        <3>2. CASE k # c
            <4>1. skills[k] \in {"REFERENCE_BASELINE", "ELIGIBLE_CHALLENGER"}
                BY <1>1, <2>2, <2>6 DEF SkillsInv, SkillStates
            <4>2. ComparedSample(k) # {}
                <5>1. AnalogRows # {}
                    BY <2>2 DEF AnalogRows
                <5> QED
                    BY <1>1, <2>2, <5>1, ComparedRows
            <4>3. Ahead(c, k)
                BY <2>1, <3>2, <4>1, <4>2 DEF Comparable
            <4>4. \/ Squares(ComparedSample(c)) * n < Squares(ComparedSample(k)) * n
                  \/ ~(Squares(ComparedSample(k)) * n < Squares(ComparedSample(c)) * n)
                BY <2>2, <2>4, <4>3 DEF Ahead, SquaresLess
            <4>5. /\ Squares(ComparedSample(c)) \in Nat /\ Squares(ComparedSample(k)) \in Nat
                  /\ Squares(analogs) \in Nat
                BY <1>1, ComparedType
            <4>6. Squares(ComparedSample(c)) <= Squares(ComparedSample(k))
                BY <2>3, <4>4, <4>5, SumsForMeans
            <4> QED
                BY <2>5, <4>5, <4>6
        <3> QED
            BY <3>1, <3>2
    <2>7. /\ Cardinality(AnalogRows) >= policy.minSample
          /\ \A e \in {"yes", "no"} :
                Cardinality(RowsOf(OfEvent(analogs, e))) >= policy.minClass
        BY <1>1, <2>2, AnalogsCounted
    <2>8. c \in KindsRun /\ skills[c] # "REJECTED"
        BY <2>1 DEF Comparable
    <2>9. 100 * Cardinality(suppressed) <=
          policy.maxSuppressed * Cardinality(UNION {used[m].test : m \in DOMAIN used})
        <3>1. UNION {used[m].test : m \in DOMAIN used} = AnalogRows \cup suppressed
              /\ AnalogRows \cap suppressed = {}
            <4>1. DOMAIN used = 1..tested
                BY <1>1, <2>2 DEF RunInv
            <4> QED
                BY <1>1, <4>1 DEF TestedInv
        <3>2. Cardinality(AnalogRows \cup suppressed) = Cardinality(analogs) + Cardinality(suppressed)
            <4>1. IsFiniteSet(AnalogRows) /\ IsFiniteSet(suppressed)
                  /\ Cardinality(AnalogRows) = Cardinality(analogs)
                  /\ Cardinality(analogs) \in Nat /\ Cardinality(suppressed) \in Nat
                BY <1>1, OnePerRow DEF TestedInv
            <4>2. Cardinality(AnalogRows \cap suppressed) = 0
                BY <3>1, FS_EmptySet
            <4>3. Cardinality(AnalogRows \cup suppressed) =
                    Cardinality(AnalogRows) + Cardinality(suppressed)
                    - Cardinality(AnalogRows \cap suppressed)
                BY <4>1, FS_Union
            <4> QED
                BY <4>1, <4>2, <4>3
        <3>3. ~(100 * Cardinality(suppressed) >
                policy.maxSuppressed * (Cardinality(analogs) + Cardinality(suppressed)))
            BY <2>2 DEF Insufficient
        <3>4. policy.maxSuppressed \in Nat
            <4>1. {policy.minOverlap, policy.minAgreement, policy.maxSuppressed} \subseteq 0..100
                BY <2>2, ChallengeAssumption DEF IsPolicy
            <4> QED
                BY <4>1
        <3>5. Cardinality(analogs) \in Nat /\ Cardinality(suppressed) \in Nat
            BY <1>1, OnePerRow
        <3>6. policy.maxSuppressed * (Cardinality(analogs) + Cardinality(suppressed)) \in Nat
            BY <3>4, <3>5
        <3>7. 100 * Cardinality(suppressed) <=
              policy.maxSuppressed * (Cardinality(analogs) + Cardinality(suppressed))
            BY <3>3, <3>5, <3>6
        <3> QED
            BY <3>1, <3>2, <3>7
    <2> QED
        BY <2>1, <2>5, <2>6, <2>7, <2>8, <2>9
           DEF AnalogsEarned, Squares, Losses, ComparedSample
<1>2. ChallengeSpec => []RoundInv /\ []SkillsInv
    BY ChallengeReads, RoundInvariant, SkillsInvariant, PTL
<1> QED
    BY <1>1, <1>2, AnalogsInvariant, TestedInvariant, VerdictInvariant, PTL
-----------------------------------------------------------------------------
\* A rule applies or does not, whatever is read for a signal that is not there.
LEMMA RuleReadsWhatItHas ==
    ASSUME NEW n \in DOMAIN Rules, NEW signals, NEW d, NEW e
    PROVE  Applies(Rules[n], signals, d) <=> Applies(Rules[n], signals, e)
<1>1. \A s : s \in DOMAIN signals => Signal(signals, s, d) = Signal(signals, s, e)
    BY DEF Signal
<1>2. n \in 1..11
    BY DEF Rules
<1>3. CASE n \in 1..3
    BY <1>1, <1>3 DEF Applies, Rules, Has
<1>4. CASE n \in 4..6
    BY <1>1, <1>4 DEF Applies, Rules, Has
<1>5. CASE n \in 7..9
    BY <1>1, <1>5 DEF Applies, Rules, Has
<1>6. CASE n \in 10..11
    BY <1>1, <1>6 DEF Applies, Rules, Has
<1> QED
    BY <1>2, <1>3, <1>4, <1>5, <1>6

\* A regime is never the product of a default: each rule asks for the signals
\* it reads, so that the regime of a row is the same whatever _signal returns
\* for a signal that is missing (classify_regime).
THEOREM DefaultsDecideNothing ==
    ASSUME NEW signals, NEW d, NEW e
    PROVE  RegimeReading(signals, d) = RegimeReading(signals, e)
<1>1. Winning(signals, d) = Winning(signals, e)
    <2>1. \A n \in DOMAIN Rules : \A m \in 1..(n - 1) : m \in DOMAIN Rules
        BY DEF Rules
    <2> QED
        BY <2>1, RuleReadsWhatItHas DEF Winning
<1> QED
    BY <1>1 DEF RegimeReading
=============================================================================
