------------------------ MODULE ResearchRecordsProofs ------------------------
(***************************************************************************)
(* Proofs about the databases that research reads.                         *)
(*                                                                         *)
(* PointInTime: no prediction uses what was not public at its time, the    *)
(* newest revision that can be told is the one selected, and a strict      *)
(* replay of a settled time never changes, for every set of series, every  *)
(* length of the day and every order of publications, fetches and saves.   *)
(*                                                                         *)
(* OOSLedger: the outcomes of predictions are written once and agreed on,  *)
(* whatever the number of processes, predictions and labels and however    *)
(* their SELECTs and INSERTs interleave.                                   *)
(*                                                                         *)
(* ResearchStore: what a process was told it had saved is read back, for   *)
(* any number of processes that mean either store.                         *)
(***************************************************************************)
EXTENDS PointInTime, OOSLedger, ResearchStore, TLAPS

-----------------------------------------------------------------------------
(* PointInTime *)

\* What an observation says of its availability is what its source may say.
Stated(o) ==
    o.available \in StatedAvailability(o.precision, o.published_at, o.fetched_at)

\* The truth behind the catalog, on which the selection rests.
Truthful ==
    /\ \A s \in Series : \A i \in DOMAIN published[s] : published[s][i] <= clock
    /\ \A o \in catalog \cup inflight : Stated(o)

CatalogInv == CatalogTypeOK /\ Truthful
-----------------------------------------------------------------------------
\* A date ends after every instant of it.
LEMMA DateEnds ==
    ASSUME NEW t \in Nat, NEW d \in Nat \ {0}
    PROVE  /\ t \div d \in Nat
           /\ (t \div d + 1) * d \in Nat
           /\ t < (t \div d + 1) * d
<1>1. t \div d \in Nat
    OBVIOUS
<1>2. t = d * (t \div d) + (t % d) /\ 0 <= t % d /\ t % d < d
    OBVIOUS
<1>3. (t \div d + 1) * d = d * (t \div d) + d
    BY <1>1
<1> QED
    BY <1>1, <1>2, <1>3

\* No source states an availability before the publication.
LEMMA StatedShape ==
    ASSUME NEW precision \in Precisions, NEW t \in Nat, NEW f \in Nat,
           NEW stated \in StatedAvailability(precision, t, f), t <= f
    PROVE  /\ stated \in Nat
           /\ precision # "DATE_ONLY" => stated <= f
           /\ precision \in {"EXACT", "INFERRED_CONSERVATIVE"} => t <= stated
           /\ precision = "DATE_ONLY" => stated = t \div Day
<1>1. t \div Day \in Nat
    BY DateEnds, PointInTimeAssumption
<1> QED
    BY <1>1 DEF StatedAvailability, Precisions

\* The boundary the code computes is never before the publication.
LEMMA BoundaryAfterPublication ==
    ASSUME NEW o \in Observations, Stated(o), o.published_at <= o.fetched_at,
           HasBoundary(o)
    PROVE  Boundary(o) \in Nat /\ o.published_at <= Boundary(o)
<1>1. /\ o.precision \in Precisions /\ o.published_at \in Nat
      /\ o.fetched_at \in Nat /\ o.available \in Nat
    BY DEF Observations
<1>2. CASE o.precision = "DATE_ONLY"
    <2>1. o.available = o.published_at \div Day
        BY <1>1, <1>2, StatedShape DEF Stated
    <2>2. /\ (o.published_at \div Day + 1) * Day \in Nat
          /\ o.published_at < (o.published_at \div Day + 1) * Day
        BY <1>1, DateEnds, PointInTimeAssumption
    <2> QED
        BY <1>1, <1>2, <2>1, <2>2 DEF Boundary
<1>3. CASE o.precision # "DATE_ONLY"
    <2>1. o.precision \in {"EXACT", "INFERRED_CONSERVATIVE"}
        BY <1>1, <1>3 DEF HasBoundary, Precisions
    <2>2. o.published_at <= o.available
        BY <1>1, <2>1, StatedShape DEF Stated
    <2> QED
        BY <1>1, <1>3, <2>2 DEF Boundary
<1> QED
    BY <1>2, <1>3

\* The empty catalog satisfies the invariant.
LEMMA CatalogBegins == CatalogInit => CatalogInv
<1> SUFFICES ASSUME CatalogInit PROVE CatalogInv
    OBVIOUS
<1>1. published \in [Series -> Seq(Nat)]
    BY DEF CatalogInit
<1>2. \A s \in Series : DOMAIN published[s] = {}
    BY DEF CatalogInit
<1> QED
    BY <1>1, <1>2 DEF CatalogInit, CatalogInv, CatalogTypeOK, Truthful

\* A fetch keeps the invariant: what it records is of a published revision.
LEMMA FetchStep ==
    ASSUME CatalogInv, NEW s \in Series, NEW i \in DOMAIN published[s],
           Fetch(s, i)
    PROVE  CatalogInv'
<1>1. PICK stated \in StatedAvailability(source[s].precision, published[s][i],
                                        clock) :
         inflight' = inflight \cup
            {[series |-> s, published_at |-> published[s][i],
              available |-> stated, precision |-> source[s].precision,
              revision |-> IF source[s].sequenced THEN i ELSE 0,
              fetched_at |-> clock, basis |-> source[s].basis]}
    BY DEF Fetch
<1>2. UNCHANGED <<clock, source, published, catalog>>
    BY DEF Fetch
<1> DEFINE o == [series |-> s, published_at |-> published[s][i],
                 available |-> stated, precision |-> source[s].precision,
                 revision |-> IF source[s].sequenced THEN i ELSE 0,
                 fetched_at |-> clock, basis |-> source[s].basis]
<1>3. /\ published[s] \in Seq(Nat) /\ published[s][i] \in Nat
      /\ i \in Nat /\ clock \in Nat /\ published[s][i] <= clock
    <2>1. published[s] \in Seq(Nat) /\ clock \in Nat
        BY DEF CatalogInv, CatalogTypeOK
    <2>2. i \in Nat /\ published[s][i] \in Nat
        BY <2>1
    <2> QED
        BY <2>1, <2>2 DEF CatalogInv, Truthful
<1>4. source[s] \in [precision : Precisions, sequenced : BOOLEAN,
                     basis : BOOLEAN]
    BY PointInTimeAssumption DEF CatalogInv, CatalogTypeOK
<1>5. source[s].precision \in Precisions /\ source[s].basis \in BOOLEAN
    BY <1>4
<1>6. /\ stated \in Nat
      /\ source[s].precision # "DATE_ONLY" => stated <= clock
    BY <1>3, <1>5, StatedShape
<1>7. (IF source[s].sequenced THEN i ELSE 0) \in Nat
    BY <1>3
<1>8. o \in Observations
    BY <1>3, <1>5, <1>6, <1>7 DEF Observations
<1>9. /\ o.published_at <= o.fetched_at /\ o.fetched_at <= clock
      /\ o.precision # "DATE_ONLY" => o.available <= o.fetched_at
      /\ Stated(o)
    BY <1>1, <1>3, <1>6 DEF Stated
<1>10. catalog' \cup inflight' = catalog \cup inflight \cup {o}
    BY <1>1, <1>2
<1> HIDE DEF o
<1>11. CatalogTypeOK'
    BY <1>2, <1>8, <1>9, <1>10 DEF CatalogInv, CatalogTypeOK
<1>12. Truthful'
    BY <1>2, <1>9, <1>10 DEF CatalogInv, Truthful, Stated
<1> QED
    BY <1>11, <1>12 DEF CatalogInv

\* Every step keeps the invariant.
LEMMA CatalogStep == CatalogInv /\ [CatalogNext]_catalogVars => CatalogInv'
<1> SUFFICES ASSUME CatalogInv, [CatalogNext]_catalogVars PROVE CatalogInv'
    OBVIOUS
<1>1. CASE Tick
    <2>1. clock \in Nat /\ clock' = clock + 1
        BY <1>1 DEF Tick, CatalogInv, CatalogTypeOK
    <2>2. \A n \in Nat : n <= clock => n <= clock'
        BY <2>1
    <2>3. \A s \in Series : \A i \in DOMAIN published[s] : published[s][i] \in Nat
        BY DEF CatalogInv, CatalogTypeOK
    <2>4. \A o \in catalog \cup inflight : o.fetched_at \in Nat
        BY DEF CatalogInv, CatalogTypeOK, Observations
    <2>5. UNCHANGED <<source, published, inflight, catalog>>
        BY <1>1 DEF Tick
    <2>6. CatalogTypeOK'
        BY <2>1, <2>2, <2>4, <2>5 DEF CatalogInv, CatalogTypeOK
    <2>7. Truthful'
        BY <2>2, <2>3, <2>5 DEF CatalogInv, Truthful, Stated
    <2> QED
        BY <2>6, <2>7 DEF CatalogInv
<1>2. ASSUME NEW s \in Series, Publish(s)
      PROVE  CatalogInv'
    <2>1. UNCHANGED <<clock, source, inflight, catalog>>
        BY <1>2 DEF Publish
    <2>2. published[s] \in Seq(Nat) /\ clock \in Nat
        BY DEF CatalogInv, CatalogTypeOK
    <2>3. /\ published' = [published EXCEPT ![s] = Append(published[s], clock)]
          /\ Append(published[s], clock) \in Seq(Nat)
        BY <1>2, <2>2 DEF Publish
    <2>4. CatalogTypeOK'
        BY <2>1, <2>3 DEF CatalogInv, CatalogTypeOK
    <2>5. ASSUME NEW q \in Series, NEW i \in DOMAIN published'[q]
          PROVE  published'[q][i] <= clock
        <3>1. CASE q # s
            BY <2>3, <2>5, <3>1 DEF CatalogInv, CatalogTypeOK, Truthful
        <3>2. CASE q = s
            <4>1. published'[s] = Append(published[s], clock)
                BY <2>3 DEF CatalogInv, CatalogTypeOK
            <4>2. \A j \in DOMAIN published[s] : published[s][j] <= clock
                BY DEF CatalogInv, Truthful
            <4>3. \A j \in DOMAIN Append(published[s], clock) :
                    Append(published[s], clock)[j] <= clock
                BY <2>2, <4>2
            <4> QED
                BY <2>5, <3>2, <4>1, <4>3
        <3> QED
            BY <3>1, <3>2
    <2>6. Truthful'
        BY <2>1, <2>5 DEF CatalogInv, Truthful, Stated
    <2> QED
        BY <2>4, <2>6 DEF CatalogInv
<1>3. ASSUME NEW s \in Series, NEW i \in DOMAIN published[s], Fetch(s, i)
      PROVE  CatalogInv'
    BY <1>3, FetchStep
<1>4. ASSUME NEW o \in inflight, Save(o) \/ Lose(o)
      PROVE  CatalogInv'
    <2>1. /\ UNCHANGED <<clock, source, published>>
          /\ catalog' \cup inflight' \subseteq catalog \cup inflight
        BY <1>4 DEF Save, Lose
    <2> QED
        BY <2>1 DEF CatalogInv, CatalogTypeOK, Truthful, Stated
<1>5. CASE UNCHANGED catalogVars
    BY <1>5 DEF catalogVars, CatalogInv, CatalogTypeOK, Truthful, Stated
<1> QED
    BY <1>1, <1>2, <1>3, <1>4, <1>5 DEF CatalogNext

\* The inductive invariant holds for every instance.
THEOREM CatalogInvariant == CatalogSpec => []CatalogInv
BY CatalogBegins, CatalogStep, PTL DEF CatalogSpec

\* CatalogTypeOK for every instance.
THEOREM CatalogTyped == CatalogSpec => []CatalogTypeOK
<1>1. CatalogInv => CatalogTypeOK
    BY DEF CatalogInv
<1> QED
    BY <1>1, CatalogInvariant, PTL
-----------------------------------------------------------------------------
\* What is selected is an eligible row of the catalog.
LEMMA SelectedEligible ==
    ASSUME NEW t, NEW allow, NEW o \in Selected(t, allow)
    PROVE  o \in catalog /\ Eligible(o, t, allow)
BY DEF Selected, Best, Candidates

\* NothingFromTheFuture for every instance: a selected row was public at the
\* time of the prediction, dates included (select_as_of).
THEOREM NoFuture == CatalogSpec => []NothingFromTheFuture
<1>1. CatalogInv => NothingFromTheFuture
    <2> SUFFICES ASSUME CatalogInv, NEW t \in 0..clock, NEW allow \in BOOLEAN,
                        NEW o \in Selected(t, allow)
                 PROVE  o.published_at <= t
        BY DEF NothingFromTheFuture
    <2>1. o \in catalog /\ Available(o, t)
        BY SelectedEligible DEF Eligible, StrictReplay, ReconstructedPIT
    <2>2. /\ o \in Observations /\ Stated(o)
          /\ o.published_at <= o.fetched_at
        BY <2>1 DEF CatalogInv, CatalogTypeOK, Truthful
    <2>3. Boundary(o) \in Nat /\ o.published_at <= Boundary(o)
        BY <2>1, <2>2, BoundaryAfterPublication DEF Available
    <2>4. o.published_at \in Nat /\ clock \in Nat
        BY <2>2 DEF Observations, CatalogInv, CatalogTypeOK
    <2> QED
        BY <2>1, <2>3, <2>4 DEF Available
<1> QED
    BY <1>1, CatalogInvariant, PTL

\* Only a save changes the catalog, and it adds what was in flight.
LEMMA CatalogGrows ==
    ASSUME [CatalogNext]_catalogVars
    PROVE  catalog \subseteq catalog' /\ catalog' \subseteq catalog \cup inflight
<1>1. CASE CatalogNext
    BY <1>1 DEF CatalogNext, Tick, Publish, Fetch, Save, Lose
<1> QED
    BY <1>1 DEF catalogVars

\* SettledPast for every instance: what is fetched after t does not change a
\* strict replay at t (eligibility_at, select_as_of).
THEOREM ReplayStable == CatalogSpec => SettledPast
<1>1. ASSUME CatalogInv, [CatalogNext]_catalogVars, NEW t \in 0..clock,
             \A o \in inflight : o.fetched_at > t
      PROVE  /\ Selected(t, FALSE)' = Selected(t, FALSE)
             /\ Ambiguous(t, FALSE)' = Ambiguous(t, FALSE)
    <2>1. \A o \in inflight : ~Eligible(o, t, FALSE)
        <3> SUFFICES ASSUME NEW o \in inflight PROVE ~StrictReplay(o, t)
            BY DEF Eligible
        <3>1. o.fetched_at \in Nat /\ t \in Nat
            BY <1>1 DEF CatalogInv, CatalogTypeOK, Observations
        <3> QED
            BY <1>1, <3>1 DEF StrictReplay
    <2>2. \A s \in Series : Candidates(s, t, FALSE)' = Candidates(s, t, FALSE)
        BY <1>1, <2>1, CatalogGrows DEF Candidates
    <2>3. \A s \in Series : Best(s, t, FALSE)' = Best(s, t, FALSE)
        BY <2>2 DEF Best
    <2> QED
        BY <2>3 DEF Selected, Ambiguous
<1>2. CatalogInv /\ [CatalogNext]_catalogVars =>
        [\A t \in 0..clock :
            (t < clock /\ \A o \in inflight : o.fetched_at > t) =>
                /\ Selected(t, FALSE)' = Selected(t, FALSE)
                /\ Ambiguous(t, FALSE)' = Ambiguous(t, FALSE)]_catalogVars
    BY <1>1
<1> QED
    BY <1>2, CatalogInvariant, PTL DEF CatalogSpec, SettledPast

\* SnapshotHonest for every instance: a snapshot of selected rows is built,
\* and is strict exactly if the system had all of them (SourceSnapshot.build).
THEOREM HonestSnapshots == CatalogSpec => []SnapshotHonest
<1>1. CatalogInv => SnapshotHonest
    <2> SUFFICES ASSUME CatalogInv, NEW t \in 0..clock, NEW allow \in BOOLEAN,
                        Selected(t, allow) # {}
                 PROVE  LET rows == Selected(t, allow)
                        IN  /\ ~SnapshotRaises(rows, t, allow)
                            /\ SnapshotClass(rows, t, allow) = "STRICT_REPLAY"
                                <=> \A o \in rows : o.fetched_at <= t
        BY DEF SnapshotHonest
    <2>1. ASSUME NEW o \in Selected(t, allow)
          PROVE  /\ Eligible(o, t, TRUE)
                 /\ ~allow => ~ReconstructedPIT(o, t)
                 /\ ReconstructedPIT(o, t) <=> ~(o.fetched_at <= t)
        <3>1. Eligible(o, t, allow)
            BY SelectedEligible
        <3> QED
            BY <3>1 DEF Eligible, ReconstructedPIT, StrictReplay
    <2>2. ~SnapshotRaises(Selected(t, allow), t, allow)
        BY <2>1 DEF SnapshotRaises
    <2>3. SnapshotClass(Selected(t, allow), t, allow) = "STRICT_REPLAY" <=>
            \A o \in Selected(t, allow) : ~ReconstructedPIT(o, t)
        BY DEF SnapshotClass
    <2> QED
        BY <2>1, <2>2, <2>3
<1> QED
    BY <1>1, CatalogInvariant, PTL
-----------------------------------------------------------------------------
\* An observation is of a publication of its series, and numbered as that is
\* if its source numbers them.
OfSource(o) ==
    /\ o.series \in Series /\ o.precision = source[o.series].precision
    /\ source[o.series].sequenced =>
        /\ o.revision \in DOMAIN published[o.series]
        /\ published[o.series][o.revision] = o.published_at
    /\ ~source[o.series].sequenced => o.revision = 0

\* Revisions come out in the order of their numbers.
PublishedInOrder ==
    \A s \in Series : \A i, j \in DOMAIN published[s] :
        i <= j => published[s][i] <= published[s][j]

SourceInv ==
    /\ CatalogInv /\ PublishedInOrder
    /\ \A o \in catalog \cup inflight : OfSource(o)

\* A publication is the last of its series, and no other publication changes.
LEMMA PublishExtends ==
    ASSUME SourceInv, NEW s \in Series, Publish(s)
    PROVE  /\ PublishedInOrder'
           /\ \A o \in catalog \cup inflight : OfSource(o)'
<1>1. /\ published \in [Series -> Seq(Nat)] /\ clock \in Nat
      /\ published' = [published EXCEPT ![s] = Append(@, clock)]
      /\ UNCHANGED <<clock, source, inflight, catalog>>
    BY DEF SourceInv, CatalogInv, CatalogTypeOK, Publish
<1>2. \A r \in Series :
        /\ published[r] \in Seq(Nat) /\ published'[r] \in Seq(Nat)
        /\ DOMAIN published[r] \subseteq DOMAIN published'[r]
        /\ \A i \in DOMAIN published[r] : published'[r][i] = published[r][i]
        /\ \A i \in DOMAIN published'[r] \ DOMAIN published[r] :
            /\ published'[r][i] = clock
            /\ \A j \in DOMAIN published'[r] : j <= i
    <2> TAKE r \in Series
    <2>1. CASE r = s
        <3>1. published[s] \in Seq(Nat) /\ published'[s] = Append(published[s], clock)
            BY <1>1
        <3> QED
            BY <1>1, <2>1, <3>1
    <2>2. CASE r # s
        BY <1>1, <2>2
    <2> QED
        BY <2>1, <2>2
<1>3. PublishedInOrder'
    <2> SUFFICES ASSUME NEW r \in Series, NEW i \in DOMAIN published'[r],
                        NEW j \in DOMAIN published'[r], i <= j
                 PROVE  published'[r][i] <= published'[r][j]
        BY DEF PublishedInOrder
    <2>1. \A k \in DOMAIN published[r] :
            published[r][k] <= clock /\ published[r][k] \in Nat
        BY <1>2 DEF SourceInv, CatalogInv, Truthful
    <2>2. i \in Nat /\ j \in Nat
        BY <1>2
    <2>3. CASE j \in DOMAIN published[r] /\ i \in DOMAIN published[r]
        BY <1>2, <2>3 DEF SourceInv, PublishedInOrder
    <2>4. CASE j \notin DOMAIN published[r]
        BY <1>1, <1>2, <2>1, <2>4
    <2>5. CASE i \notin DOMAIN published[r]
        <3>1. i = j
            BY <1>2, <2>2, <2>5
        <3> QED
            BY <1>1, <1>2, <2>5, <3>1
    <2> QED
        BY <2>3, <2>4, <2>5
<1>4. ASSUME NEW o \in catalog \cup inflight
      PROVE  OfSource(o)'
    BY <1>1, <1>2 DEF SourceInv, OfSource
<1> QED
    BY <1>3, <1>4

\* What is fetched is of the revision that was fetched.
LEMMA FetchOfSource ==
    ASSUME SourceInv, NEW s \in Series, NEW i \in DOMAIN published[s],
           Fetch(s, i)
    PROVE  \A o \in (catalog \cup inflight)' : OfSource(o)'
<1>1. PICK stated \in StatedAvailability(source[s].precision, published[s][i],
                                        clock) :
         inflight' = inflight \cup
            {[series |-> s, published_at |-> published[s][i],
              available |-> stated, precision |-> source[s].precision,
              revision |-> IF source[s].sequenced THEN i ELSE 0,
              fetched_at |-> clock, basis |-> source[s].basis]}
    BY DEF Fetch
<1>2. UNCHANGED <<clock, source, published, catalog>>
    BY DEF Fetch
<1> DEFINE new == [series |-> s, published_at |-> published[s][i],
                   available |-> stated, precision |-> source[s].precision,
                   revision |-> IF source[s].sequenced THEN i ELSE 0,
                   fetched_at |-> clock, basis |-> source[s].basis]
<1>3. OfSource(new)
    BY DEF OfSource
<1>4. \A o \in (catalog \cup inflight)' : o \in catalog \cup inflight \/ o = new
    BY <1>1, <1>2
<1> HIDE DEF new
<1>5. \A o \in (catalog \cup inflight)' : OfSource(o)
    BY <1>3, <1>4 DEF SourceInv
<1> QED
    BY <1>2, <1>5 DEF OfSource

\* Every step keeps what observations have of their sources.
LEMMA SourceNext == SourceInv /\ [CatalogNext]_catalogVars => SourceInv'
<1> SUFFICES ASSUME SourceInv, [CatalogNext]_catalogVars PROVE SourceInv'
    OBVIOUS
<1>1. CatalogInv'
    BY CatalogStep DEF SourceInv
<1>2. ASSUME UNCHANGED <<source, published>>,
             (catalog \cup inflight)' \subseteq catalog \cup inflight
      PROVE  SourceInv'
    BY <1>1, <1>2 DEF SourceInv, PublishedInOrder, OfSource
<1>3. CASE Tick
    BY <1>2, <1>3 DEF Tick
<1>4. ASSUME NEW s \in Series, Publish(s) PROVE SourceInv'
    <2>1. catalog' = catalog /\ inflight' = inflight
        BY <1>4 DEF Publish
    <2> QED
        BY <1>1, <1>4, <2>1, PublishExtends DEF SourceInv
<1>5. ASSUME NEW s \in Series, NEW i \in DOMAIN published[s], Fetch(s, i)
      PROVE  SourceInv'
    <2>1. PublishedInOrder'
        BY <1>5 DEF Fetch, SourceInv, PublishedInOrder
    <2> QED
        BY <1>1, <1>5, <2>1, FetchOfSource DEF SourceInv
<1>6. ASSUME NEW o \in inflight, Save(o) \/ Lose(o) PROVE SourceInv'
    BY <1>2, <1>6 DEF Save, Lose
<1>7. CASE UNCHANGED catalogVars
    BY <1>2, <1>7 DEF catalogVars
<1> QED
    BY <1>3, <1>4, <1>5, <1>6, <1>7 DEF CatalogNext

\* The strengthened invariant holds for every instance.
THEOREM SourceInvariant == CatalogSpec => []SourceInv
<1>1. CatalogInit => SourceInv
    <2> SUFFICES ASSUME CatalogInit PROVE SourceInv
        OBVIOUS
    <2>1. \A s \in Series : DOMAIN published[s] = {}
        BY DEF CatalogInit
    <2> QED
        BY <2>1, CatalogBegins DEF CatalogInit, SourceInv, PublishedInOrder
<1> QED
    BY <1>1, SourceNext, PTL DEF CatalogSpec

\* An earlier day ends no later than a later one begins.
LEMMA EarlierDay ==
    ASSUME NEW t \in Nat, NEW u \in Nat, NEW d \in Nat \ {0},
           (t \div d + 1) * d < (u \div d + 1) * d
    PROVE  t <= u
<1>1. /\ t \div d \in Nat /\ u \div d \in Nat
      /\ t < (t \div d + 1) * d
    BY DateEnds
<1>2. u = d * (u \div d) + (u % d) /\ 0 <= u % d
    OBVIOUS
<1>3. \A a, b \in Nat : (a + 1) * d < (b + 1) * d => (a + 1) * d <= d * b
    <2> SUFFICES ASSUME NEW a \in Nat, NEW b \in Nat, (a + 1) * d < (b + 1) * d
                 PROVE  (a + 1) * d <= d * b
        OBVIOUS
    <2>1. a < b
        <3> SUFFICES ASSUME b <= a PROVE FALSE
            OBVIOUS
        <3>1. PICK n \in Nat : a = b + n
            BY a - b \in Nat, a = b + (a - b)
        <3>2. (a + 1) * d = (b + 1) * d + n * d /\ n * d >= 0
            BY <3>1
        <3> QED
            BY <3>2
    <2>2. PICK n \in Nat : b = a + 1 + n
        BY <2>1, b - a - 1 \in Nat, b = a + 1 + (b - a - 1)
    <2>3. d * b = (a + 1) * d + n * d /\ n * d >= 0
        BY <2>2
    <2> QED
        BY <2>3
<1>4. (t \div d + 1) * d <= d * (u \div d)
    BY <1>1, <1>3
<1> QED
    BY <1>1, <1>2, <1>4

\* LatestWhereOrdered for every instance: where a source gives exact times or
\* numbers its revisions, an old revision that was fetched late never wins
\* (_revision_rank, select_as_of).
THEOREM LatestSelected == CatalogSpec => []LatestWhereOrdered
<1>1. SourceInv => LatestWhereOrdered
    <2> SUFFICES ASSUME SourceInv, NEW s \in Series, NEW t \in 0..clock,
                        NEW allow \in BOOLEAN, NEW o \in Best(s, t, allow),
                        NEW q \in Candidates(s, t, allow), Ordered(o)
                 PROVE  q.published_at <= o.published_at
        BY DEF LatestWhereOrdered
    <2>1. /\ o \in catalog /\ o.series = s /\ Available(o, t)
          /\ q \in catalog /\ q.series = s /\ Available(q, t)
          /\ ~Outranks(q, o)
        BY DEF Best, Candidates, Eligible, StrictReplay, ReconstructedPIT
    <2>2. /\ OfSource(o) /\ OfSource(q) /\ o.precision = q.precision
          /\ o \in Observations /\ q \in Observations
          /\ Stated(o) /\ Stated(q)
          /\ o.published_at <= o.fetched_at /\ q.published_at <= q.fetched_at
        BY <2>1 DEF SourceInv, CatalogInv, CatalogTypeOK, Truthful, OfSource
    <2>3. /\ o.published_at \in Nat /\ q.published_at \in Nat
          /\ o.available \in Nat /\ q.available \in Nat
          /\ o.revision \in Nat /\ q.revision \in Nat
        BY <2>2 DEF Observations
    <2>4. Boundary(o) \in Nat /\ Boundary(q) \in Nat
        BY <2>1, <2>2, BoundaryAfterPublication DEF Available
    <2>5. \/ Boundary(q) < Boundary(o)
          \/ Boundary(q) = Boundary(o) /\ q.revision <= o.revision
        BY <2>1, <2>3, <2>4 DEF Outranks
    <2>6. CASE o.precision = "EXACT"
        <3>1. o.available = o.published_at /\ q.available = q.published_at
            BY <2>2, <2>6 DEF Stated, StatedAvailability
        <3> QED
            BY <2>2, <2>3, <2>5, <2>6, <3>1 DEF Boundary
    <2>7. CASE o.precision = "DATE_ONLY" /\ o.revision # 0
        <3>1. /\ Boundary(o) = (o.published_at \div Day + 1) * Day
              /\ Boundary(q) = (q.published_at \div Day + 1) * Day
            BY <2>2, <2>7 DEF Stated, StatedAvailability, Boundary
        <3>2. CASE Boundary(q) < Boundary(o)
            BY <2>3, <3>1, <3>2, EarlierDay, PointInTimeAssumption
        <3>3. CASE q.revision <= o.revision
            <4>1. /\ source[s].sequenced
                  /\ o.revision \in DOMAIN published[s]
                  /\ q.revision \in DOMAIN published[s]
                  /\ published[s][o.revision] = o.published_at
                  /\ published[s][q.revision] = q.published_at
                BY <2>1, <2>2, <2>7 DEF OfSource
            <4> QED
                BY <3>3, <4>1 DEF SourceInv, PublishedInOrder
        <3> QED
            BY <2>5, <3>2, <3>3
    <2> QED
        BY <2>6, <2>7 DEF Ordered
<1> QED
    BY <1>1, SourceInvariant, PTL
-----------------------------------------------------------------------------
(* OOSLedger *)

\* A prediction has one outcome, and the outcome has its prediction.
OneOutcome ==
    \A r, q \in outcomes : r.body.prediction = q.body.prediction => r = q
RowOf(q) == [id |-> q, body |-> q]
Grounded == \A r \in outcomes : RowOf(r.body.prediction) \in predictions

\* A save that is about to return, or has returned, is in the tables.
InFlight ==
    \A p \in Processes :
        /\ pc[p] = "prediction_saved" => arg[p] \in predictions
        /\ pc[p] = "outcome_saved" => arg[p] \in outcomes
Returned ==
    savedPredictions \subseteq predictions /\ savedOutcomes \subseteq outcomes

LedgerInv == TypeOK /\ OneOutcome /\ Grounded /\ InFlight /\ Returned
-----------------------------------------------------------------------------
\* An outcome was resolved for a prediction from a matching label.
LEMMA OutcomeShape ==
    ASSUME NEW o \in Outcomes
    PROVE  /\ o.prediction \in Predictions
           /\ o.label \in Labels
           /\ Resolvable(o.prediction, o.label)
           /\ o = Outcome(o.prediction, o.label)
<1>1. PICK pl \in Predictions \X Labels :
        Resolvable(pl[1], pl[2]) /\ o = Outcome(pl[1], pl[2])
    BY DEF Outcomes
<1>2. o.prediction = pl[1] /\ o.label = pl[2]
    BY <1>1 DEF Outcome
<1> QED
    BY <1>1, <1>2

\* A row of oos_outcomes holds an outcome under its own identity.
LEMMA RowShape ==
    ASSUME NEW r \in OutcomeRows
    PROVE  r.body \in Outcomes /\ r.id = r.body /\ r = RowOf(r.body)
BY DEF OutcomeRows, RowOf

\* The same for oos_predictions.
LEMMA PredictionRowShape ==
    ASSUME NEW r \in PredictionRows
    PROVE  r.body \in Predictions /\ r.id = r.body /\ r = RowOf(r.body)
BY DEF PredictionRows, RowOf

\* The empty ledger satisfies the invariant.
LEMMA LedgerBegins == Init => LedgerInv
BY DEF Init, LedgerInv, TypeOK, OneOutcome, Grounded, InFlight, Returned,
       Steps, PredictionSteps, OutcomeSteps

\* A step of process p that leaves the tables and the history alone keeps the
\* invariant if what p holds afterwards is what its next operation expects.
LEMMA LocalStep ==
    ASSUME LedgerInv, NEW p \in Processes, NEW step \in Steps, NEW obj,
           Goto(p, step, obj), UNCHANGED <<tables, damage, saved>>,
           obj \in {NoCall} \cup PredictionRows \cup OutcomeRows,
           step \in PredictionSteps => obj \in PredictionRows,
           step \in OutcomeSteps => obj \in OutcomeRows,
           step = "prediction_saved" => obj \in predictions,
           step = "outcome_saved" => obj \in outcomes
    PROVE  LedgerInv'
<1>1. /\ UNCHANGED <<predictions, outcomes>>
      /\ UNCHANGED <<damagedPredictions, damagedOutcomes>>
      /\ UNCHANGED <<savedPredictions, savedOutcomes>>
    BY DEF tables, damage, saved
<1>2. /\ pc' \in [Processes -> Steps]
      /\ arg' \in [Processes -> {NoCall} \cup PredictionRows \cup OutcomeRows]
      /\ pc'[p] = step /\ arg'[p] = obj
      /\ \A q \in Processes : q # p => pc'[q] = pc[q] /\ arg'[q] = arg[q]
    BY DEF Goto, LedgerInv, TypeOK
<1>3. TypeOK'
    BY <1>1, <1>2 DEF LedgerInv, TypeOK
<1>4. InFlight'
    BY <1>1, <1>2 DEF LedgerInv, InFlight
<1>5. OneOutcome' /\ Grounded' /\ Returned'
    BY <1>1 DEF LedgerInv, OneOutcome, Grounded, Returned
<1> QED
    BY <1>3, <1>4, <1>5 DEF LedgerInv

\* An exception keeps the invariant.
LEMMA RaiseStep ==
    ASSUME LedgerInv, NEW p \in Processes, Raise(p)
    PROVE  LedgerInv'
<1>1. Goto(p, "idle", NoCall) /\ UNCHANGED <<tables, damage, saved>>
    BY DEF Raise
<1>2. "idle" \in Steps \ (PredictionSteps \cup OutcomeSteps)
    BY DEF Steps, PredictionSteps, OutcomeSteps
<1> QED
    BY <1>1, <1>2, LocalStep

\* The SELECTs keep the invariant: an object on its way has the identity of
\* its payload, and one found in its table may be acknowledged.
LEMMA SelectSteps ==
    ASSUME LedgerInv, NEW p \in Processes,
           \/ \E obj \in PredictionObjects : SavePrediction(p, obj)
           \/ \E obj \in OutcomeObjects : SaveOutcome(p, obj)
           \/ SelectOutcome(p)
    PROVE  LedgerInv'
<1>0. /\ {"insert_prediction", "prediction_saved", "select_outcome",
          "insert_outcome", "outcome_saved", "idle"} \subseteq Steps
      /\ PredictionSteps = {"insert_prediction", "prediction_saved"}
      /\ OutcomeSteps = {"select_outcome", "insert_outcome", "outcome_saved"}
    BY DEF Steps, PredictionSteps, OutcomeSteps
<1>1. CASE \E obj \in PredictionObjects : SavePrediction(p, obj)
    <2>1. PICK obj \in PredictionObjects : SavePrediction(p, obj)
        BY <1>1
    <2>2. obj \in PredictionRows
        BY <2>1 DEF SavePrediction, ContentIdentityMatches,
                    PredictionObjects, PredictionRows
    <2>3. CASE Goto(p, "insert_prediction", obj)
        BY <1>0, <2>1, <2>2, <2>3, LocalStep DEF SavePrediction
    <2>4. CASE /\ Goto(p, "prediction_saved", obj)
               /\ \E r \in predictions : r.id = obj.id /\ r.body = obj.body
        <3>1. obj \in predictions
            BY <2>2, <2>4, PredictionRowShape DEF LedgerInv, TypeOK, RowOf
        <3> QED
            BY <1>0, <2>1, <2>2, <2>4, <3>1, LocalStep DEF SavePrediction
    <2> QED
        BY <2>1, <2>3, <2>4 DEF SavePrediction
<1>2. CASE \E obj \in OutcomeObjects : SaveOutcome(p, obj)
    <2>1. PICK obj \in OutcomeObjects : SaveOutcome(p, obj)
        BY <1>2
    <2>2. obj \in OutcomeRows
        BY <2>1 DEF SaveOutcome, ContentIdentityMatches, OutcomeObjects,
                    OutcomeRows
    <2> QED
        BY <1>0, <2>1, <2>2, LocalStep DEF SaveOutcome
<1>3. CASE SelectOutcome(p)
    <2>1. arg[p] \in OutcomeRows
        BY <1>0, <1>3 DEF SelectOutcome, LedgerInv, TypeOK
    <2>2. CASE Goto(p, "insert_outcome", arg[p])
        BY <1>0, <1>3, <2>1, <2>2, LocalStep DEF SelectOutcome
    <2>3. CASE arg[p] \in outcomes /\ Goto(p, "outcome_saved", arg[p])
        BY <1>0, <1>3, <2>1, <2>3, LocalStep DEF SelectOutcome
    <2>4. CASE Goto(p, "idle", NoCall)
        BY <1>0, <1>3, <2>4, LocalStep DEF SelectOutcome
    <2> QED
        BY <1>3, <2>2, <2>3, <2>4 DEF SelectOutcome, OutcomesOf
<1> QED
    BY <1>1, <1>2, <1>3

\* The facts about a step of p from insert to saved that the conjuncts of the
\* invariant share.
LEMMA CallStep ==
    ASSUME LedgerInv, NEW p \in Processes, NEW step \in Steps, NEW obj,
           obj \in {NoCall} \cup PredictionRows \cup OutcomeRows,
           Goto(p, step, obj)
    PROVE  /\ pc' \in [Processes -> Steps]
           /\ arg' \in [Processes -> {NoCall} \cup PredictionRows
                                       \cup OutcomeRows]
           /\ pc'[p] = step /\ arg'[p] = obj
           /\ \A q \in Processes : q # p => pc'[q] = pc[q] /\ arg'[q] = arg[q]
BY DEF Goto, LedgerInv, TypeOK

\* The INSERT of a prediction keeps the invariant.
LEMMA InsertPredictionStep ==
    ASSUME LedgerInv, NEW p \in Processes, InsertPrediction(p)
    PROVE  LedgerInv'
<1>0. /\ "prediction_saved" \in Steps
      /\ "insert_prediction" \in PredictionSteps
      /\ "prediction_saved" \in PredictionSteps \ OutcomeSteps
    BY DEF Steps, PredictionSteps, OutcomeSteps
<1>1. CASE Raise(p)
    BY <1>1, RaiseStep
<1>2. CASE /\ predictions' = predictions \cup {arg[p]}
           /\ Goto(p, "prediction_saved", arg[p])
           /\ UNCHANGED <<outcomes, damage, saved>>
    <2>1. arg[p] \in PredictionRows
        BY <1>0 DEF InsertPrediction, LedgerInv, TypeOK
    <2>2. /\ pc' \in [Processes -> Steps]
          /\ arg' \in [Processes -> {NoCall} \cup PredictionRows
                                      \cup OutcomeRows]
          /\ pc'[p] = "prediction_saved" /\ arg'[p] = arg[p]
          /\ \A q \in Processes : q # p => pc'[q] = pc[q] /\ arg'[q] = arg[q]
        BY <1>0, <1>2, <2>1, CallStep
    <2>3. /\ UNCHANGED <<outcomes, damagedPredictions, damagedOutcomes>>
          /\ UNCHANGED <<savedPredictions, savedOutcomes>>
        BY <1>2 DEF damage, saved
    <2>4. TypeOK'
        BY <1>0, <1>2, <2>1, <2>2, <2>3 DEF LedgerInv, TypeOK
    <2>5. InFlight'
        BY <1>2, <2>2, <2>3 DEF LedgerInv, InFlight
    <2>6. OneOutcome' /\ Grounded' /\ Returned'
        BY <1>2, <2>3 DEF LedgerInv, OneOutcome, Grounded, Returned
    <2> QED
        BY <2>4, <2>5, <2>6 DEF LedgerInv
<1> QED
    BY <1>1, <1>2 DEF InsertPrediction

\* The INSERT of an outcome keeps the invariant: it commits only if the
\* prediction is stored and has no outcome.
LEMMA InsertOutcomeStep ==
    ASSUME LedgerInv, NEW p \in Processes, InsertOutcome(p)
    PROVE  LedgerInv'
<1>0. /\ "outcome_saved" \in Steps
      /\ "insert_outcome" \in OutcomeSteps
      /\ "outcome_saved" \in OutcomeSteps \ PredictionSteps
    BY DEF Steps, PredictionSteps, OutcomeSteps
<1>1. CASE Raise(p)
    BY <1>1, RaiseStep
<1>2. CASE /\ OutcomesOf(arg[p].body.prediction) = {}
           /\ \E r \in predictions : r.id = arg[p].body.prediction
           /\ outcomes' = outcomes \cup {arg[p]}
           /\ Goto(p, "outcome_saved", arg[p])
           /\ UNCHANGED <<predictions, damage, saved>>
    <2>1. arg[p] \in OutcomeRows
        BY <1>0 DEF InsertOutcome, LedgerInv, TypeOK
    <2>2. /\ pc' \in [Processes -> Steps]
          /\ arg' \in [Processes -> {NoCall} \cup PredictionRows
                                      \cup OutcomeRows]
          /\ pc'[p] = "outcome_saved" /\ arg'[p] = arg[p]
          /\ \A q \in Processes : q # p => pc'[q] = pc[q] /\ arg'[q] = arg[q]
        BY <1>0, <1>2, <2>1, CallStep
    <2>3. /\ UNCHANGED <<predictions, damagedPredictions, damagedOutcomes>>
          /\ UNCHANGED <<savedPredictions, savedOutcomes>>
        BY <1>2 DEF damage, saved
    <2>4. TypeOK'
        BY <1>0, <1>2, <2>1, <2>2, <2>3 DEF LedgerInv, TypeOK
    <2>5. InFlight'
        BY <1>2, <2>2, <2>3 DEF LedgerInv, InFlight
    <2>6. OneOutcome'
        BY <1>2 DEF LedgerInv, OneOutcome, OutcomesOf
    <2>7. Grounded'
        <3>1. PICK r \in predictions : r.id = arg[p].body.prediction
            BY <1>2
        <3>2. r = RowOf(arg[p].body.prediction)
            BY <3>1, PredictionRowShape DEF LedgerInv, TypeOK
        <3> QED
            BY <1>2, <2>3, <3>2 DEF LedgerInv, Grounded, RowOf
    <2>8. Returned'
        BY <1>2, <2>3 DEF LedgerInv, Returned
    <2> QED
        BY <2>4, <2>5, <2>6, <2>7, <2>8 DEF LedgerInv
<1> QED
    BY <1>1, <1>2 DEF InsertOutcome

\* A save that returns keeps the invariant.
LEMMA ReturnSteps ==
    ASSUME LedgerInv, NEW p \in Processes,
           ReturnPrediction(p) \/ ReturnOutcome(p)
    PROVE  LedgerInv'
<1>0. "idle" \in Steps \ (PredictionSteps \cup OutcomeSteps)
    BY DEF Steps, PredictionSteps, OutcomeSteps
<1>1. /\ pc' \in [Processes -> Steps]
      /\ arg' \in [Processes -> {NoCall} \cup PredictionRows
                                  \cup OutcomeRows]
      /\ pc'[p] = "idle"
      /\ \A q \in Processes : q # p => pc'[q] = pc[q] /\ arg'[q] = arg[q]
    BY <1>0, CallStep DEF ReturnPrediction, ReturnOutcome
<1>2. /\ UNCHANGED <<predictions, outcomes>>
      /\ UNCHANGED <<damagedPredictions, damagedOutcomes>>
    BY DEF ReturnPrediction, ReturnOutcome, tables, damage
<1>3. /\ savedPredictions' \subseteq predictions
      /\ savedOutcomes' \subseteq outcomes
    BY DEF ReturnPrediction, ReturnOutcome, LedgerInv, Returned, InFlight
<1>4. TypeOK'
    BY <1>0, <1>1, <1>2, <1>3 DEF LedgerInv, TypeOK
<1>5. InFlight'
    BY <1>1, <1>2 DEF LedgerInv, InFlight
<1>6. OneOutcome' /\ Grounded' /\ Returned'
    BY <1>2, <1>3 DEF LedgerInv, OneOutcome, Grounded, Returned
<1> QED
    BY <1>4, <1>5, <1>6 DEF LedgerInv

\* Every step keeps the invariant.
LEMMA LedgerStep == LedgerInv /\ [Next]_vars => LedgerInv'
<1> SUFFICES ASSUME LedgerInv, [Next]_vars PROVE LedgerInv'
    OBVIOUS
<1>1. ASSUME NEW p \in Processes,
             \/ \E obj \in PredictionObjects : SavePrediction(p, obj)
             \/ \E obj \in OutcomeObjects : SaveOutcome(p, obj)
             \/ SelectOutcome(p)
      PROVE  LedgerInv'
    BY <1>1, SelectSteps
<1>2. ASSUME NEW p \in Processes, InsertPrediction(p) \/ InsertOutcome(p)
      PROVE  LedgerInv'
    BY <1>2, InsertPredictionStep, InsertOutcomeStep
<1>3. ASSUME NEW p \in Processes, ReturnPrediction(p) \/ ReturnOutcome(p)
      PROVE  LedgerInv'
    BY <1>3, ReturnSteps
<1>4. ASSUME NEW p \in Processes, Fail(p)
      PROVE  LedgerInv'
    BY <1>4, RaiseStep DEF Fail
<1>5. CASE Damage
    <2>1. /\ UNCHANGED <<predictions, outcomes, pc, arg>>
          /\ UNCHANGED <<savedPredictions, savedOutcomes>>
          /\ damagedPredictions' \subseteq predictions
          /\ damagedOutcomes' \subseteq outcomes
        BY <1>5 DEF Damage, tables, saved, LedgerInv, TypeOK
    <2>2. TypeOK'
        BY <2>1 DEF LedgerInv, TypeOK
    <2> QED
        BY <2>1, <2>2 DEF LedgerInv, OneOutcome, Grounded, InFlight, Returned
<1>6. CASE UNCHANGED vars
    BY <1>6 DEF vars, tables, damage, saved, LedgerInv, TypeOK, OneOutcome,
                Grounded, InFlight, Returned
<1> QED
    BY <1>1, <1>2, <1>3, <1>4, <1>5, <1>6 DEF Next

\* The inductive invariant holds for every set of processes.
THEOREM LedgerInvariant == Spec => []LedgerInv
BY LedgerBegins, LedgerStep, PTL DEF Spec

\* TypeOK for every instance: neither table ever holds an altered copy.
THEOREM LedgerTyped == Spec => []TypeOK
<1>1. LedgerInv => TypeOK
    BY DEF LedgerInv
<1> QED
    BY <1>1, LedgerInvariant, PTL

\* OutcomeAgreed for every instance: whoever saved an outcome of a prediction
\* saved the same one (save_outcome).
THEOREM Agreement == Spec => []OutcomeAgreed
<1>1. LedgerInv => OutcomeAgreed
    BY DEF LedgerInv, Returned, OneOutcome, OutcomeAgreed
<1> QED
    BY <1>1, LedgerInvariant, PTL

\* A stored outcome and its prediction are a pair that a read returns.
LEMMA OutcomeReported ==
    ASSUME LedgerInv, NEW r \in outcomes
    PROVE  <<r.body.prediction, r.body>> \in ResolvedPairs
<1>1. RowOf(r.body.prediction) \in predictions
    BY DEF LedgerInv, Grounded
<1>2. RowOf(r.body.prediction).id = r.body.prediction
    BY DEF RowOf
<1>3. <<RowOf(r.body.prediction), r>> \in JoinedRows
    BY <1>1, <1>2 DEF JoinedRows
<1> QED
    BY <1>3 DEF ResolvedPairs, RowOf

\* A pair that a read returns is a stored outcome with its prediction.
LEMMA PairShape ==
    ASSUME LedgerInv, NEW pair \in ResolvedPairs
    PROVE  \E r \in outcomes : /\ r = RowOf(r.body) /\ r.body \in Outcomes
                              /\ pair = <<r.body.prediction, r.body>>
<1>1. PICK ro \in JoinedRows : pair = <<ro[1].body, ro[2].body>>
    BY DEF ResolvedPairs
<1>2. /\ ro[1] \in predictions /\ ro[2] \in outcomes
      /\ ro[1].id = ro[2].body.prediction
    BY DEF JoinedRows
<1>3. ro[1].body = ro[2].body.prediction
    BY <1>2, PredictionRowShape DEF LedgerInv, TypeOK
<1>4. ro[2] = RowOf(ro[2].body) /\ ro[2].body \in Outcomes
    BY <1>2, RowShape DEF LedgerInv, TypeOK
<1> QED
    BY <1>1, <1>2, <1>3, <1>4

\* SavedStored for every instance: what a process was told it had saved can be
\* read, whoever wrote before or after it.
THEOREM AlwaysStored == Spec => []SavedStored
<1>1. LedgerInv => SavedStored
    <2> SUFFICES ASSUME LedgerInv PROVE SavedStored
        OBVIOUS
    <2>1. ASSUME NEW o \in savedOutcomes
          PROVE  \E pair \in ResolvedPairs :
                    pair[1] = o.id.prediction /\ pair[2] = o.id
        <3>1. o \in outcomes
            BY DEF LedgerInv, Returned
        <3>2. o.id = o.body
            BY <3>1, RowShape DEF LedgerInv, TypeOK
        <3>3. <<o.body.prediction, o.body>> \in ResolvedPairs
            BY <3>1, OutcomeReported
        <3> QED
            BY <3>2, <3>3
    <2> QED
        BY <2>1 DEF SavedStored, LedgerInv, Returned
<1> QED
    BY <1>1, LedgerInvariant, PTL

\* PairsSound for every instance: a read never joins a prediction with an
\* outcome that was not computed for it (resolved_pairs).
THEOREM AlwaysSound == Spec => []PairsSound
<1>1. LedgerInv => PairsSound
    <2> SUFFICES ASSUME LedgerInv PROVE PairsSound
        OBVIOUS
    <2>1. ASSUME NEW pair \in ResolvedPairs
          PROVE  /\ pair[2].prediction = pair[1]
                 /\ Resolvable(pair[1], pair[2].label)
                 /\ pair[2] = Outcome(pair[1], pair[2].label)
        <3>1. PICK r \in outcomes : /\ r.body \in Outcomes
                                   /\ pair = <<r.body.prediction, r.body>>
            BY PairShape
        <3> QED
            BY <3>1, OutcomeShape
    <2>2. ASSUME NEW pair \in ResolvedPairs, NEW other \in ResolvedPairs,
                 pair[1] = other[1]
          PROVE  pair = other
        <3>1. PICK r \in outcomes : pair = <<r.body.prediction, r.body>>
            BY PairShape
        <3>2. PICK q \in outcomes : other = <<q.body.prediction, q.body>>
            BY PairShape
        <3> QED
            BY <2>2, <3>1, <3>2 DEF LedgerInv, OneOutcome
    <2> QED
        BY <2>1, <2>2 DEF PairsSound
<1> QED
    BY <1>1, LedgerInvariant, PTL

\* No step removes a row or changes one.
LEMMA Growth ==
    ASSUME [Next]_vars
    PROVE  predictions \subseteq predictions' /\ outcomes \subseteq outcomes'
<1>1. ASSUME NEW p \in Processes, Raise(p)
      PROVE  UNCHANGED <<predictions, outcomes>>
    BY <1>1 DEF Raise, tables
<1>2. CASE Next
    <2>1. CASE Damage
        BY <2>1 DEF Damage, tables
    <2>2. ASSUME NEW p \in Processes,
                 \/ \E obj \in PredictionObjects : SavePrediction(p, obj)
                 \/ \E obj \in OutcomeObjects : SaveOutcome(p, obj)
                 \/ SelectOutcome(p)
                 \/ ReturnPrediction(p) \/ ReturnOutcome(p)
          PROVE  UNCHANGED <<predictions, outcomes>>
        BY <2>2 DEF SavePrediction, SaveOutcome, SelectOutcome,
                    ReturnPrediction, ReturnOutcome, tables
    <2>3. ASSUME NEW p \in Processes, InsertPrediction(p) \/ InsertOutcome(p)
          PROVE  predictions \subseteq predictions' /\ outcomes \subseteq outcomes'
        BY <2>3, <1>1 DEF InsertPrediction, InsertOutcome
    <2>4. ASSUME NEW p \in Processes, Fail(p)
          PROVE  UNCHANGED <<predictions, outcomes>>
        BY <2>4, <1>1 DEF Fail
    <2> QED
        BY <1>2, <2>1, <2>2, <2>3, <2>4 DEF Next
<1> QED
    BY <1>2 DEF vars, tables

\* PairsKept for every instance: no step takes back a pair that a read could
\* have returned (resolved_pairs).
THEOREM NeverUnsaid == Spec => PairsKept
<1>1. [Next]_vars => [ResolvedPairs \subseteq ResolvedPairs']_vars
    BY Growth DEF ResolvedPairs, JoinedRows
<1> QED
    BY <1>1, PTL DEF Spec, PairsKept
-----------------------------------------------------------------------------
(* Every behaviour is one of a write-once ledger.                          *)

\* The rows of the ledger are entries of the abstract one.
LEMMA EntryShape ==
    ASSUME NEW r \in OutcomeRows
    PROVE  r.body.prediction \in Predictions /\ r.body \in Outcomes
BY RowShape, OutcomeShape

\* An INSERT is a write: its prediction had no entry.
LEMMA InsertWrites ==
    ASSUME LedgerInv, NEW p \in Processes, InsertOutcome(p)
    PROVE  [Abstract!Next]_(Abstract!vars)
<1>1. CASE Raise(p)
    BY <1>1 DEF Raise, tables, saved, Abstract!vars
<1>2. CASE /\ OutcomesOf(arg[p].body.prediction) = {}
           /\ outcomes' = outcomes \cup {arg[p]}
           /\ UNCHANGED <<predictions, damage, saved>>
    <2>1. arg[p] \in OutcomeRows
        BY DEF InsertOutcome, OutcomeSteps, LedgerInv, TypeOK
    <2>2. Abstract!Write(arg[p].body.prediction, arg[p].body)
        BY <1>2 DEF Abstract!Write, OutcomesOf, saved
    <2>3. /\ arg[p].body.prediction \in Predictions
          /\ arg[p].body \in Outcomes
        BY <2>1, EntryShape
    <2>4. Abstract!Next
        BY <2>2, <2>3 DEF Abstract!Next, Abstract!Write, Abstract!Acknowledge
    <2> QED
        BY <2>4
<1> QED
    BY <1>1, <1>2 DEF InsertOutcome

\* A save that returns acknowledges an entry of the ledger.
LEMMA ReturnAcknowledges ==
    ASSUME LedgerInv, NEW p \in Processes, ReturnOutcome(p)
    PROVE  [Abstract!Next]_(Abstract!vars)
<1>1. arg[p] \in outcomes /\ arg[p] \in OutcomeRows
    BY DEF ReturnOutcome, LedgerInv, TypeOK, InFlight
<1>2. Abstract!Acknowledge(arg[p].body.prediction, arg[p].body)
    BY <1>1 DEF ReturnOutcome, tables, Abstract!Acknowledge
<1>3. /\ arg[p].body.prediction \in Predictions
      /\ arg[p].body \in Outcomes
    BY <1>1, EntryShape
<1>4. Abstract!Next
    BY <1>2, <1>3 DEF Abstract!Next, Abstract!Write, Abstract!Acknowledge
<1> QED
    BY <1>4

\* ImplementsWriteOnce for every instance: the ledger is one in which every
\* prediction is written once (save_outcome).
THEOREM Implementation == Spec => ImplementsWriteOnce
<1>1. Init => Abstract!Init
    BY DEF Init, Abstract!Init
<1>2. LedgerInv /\ [Next]_vars => [Abstract!Next]_(Abstract!vars)
    <2> SUFFICES ASSUME LedgerInv, [Next]_vars
                 PROVE  [Abstract!Next]_(Abstract!vars)
        OBVIOUS
    <2>1. ASSUME UNCHANGED <<outcomes, savedOutcomes>>
          PROVE  UNCHANGED Abstract!vars
        BY <2>1 DEF Abstract!vars
    <2>2. ASSUME NEW p \in Processes,
                 \/ \E obj \in PredictionObjects : SavePrediction(p, obj)
                 \/ \E obj \in OutcomeObjects : SaveOutcome(p, obj)
                 \/ SelectOutcome(p) \/ InsertPrediction(p)
                 \/ ReturnPrediction(p) \/ Fail(p)
          PROVE  UNCHANGED <<outcomes, savedOutcomes>>
        BY <2>2 DEF SavePrediction, SaveOutcome, SelectOutcome, Fail, Raise,
                    InsertPrediction, ReturnPrediction, tables, saved
    <2>3. CASE Damage
        BY <2>1, <2>3 DEF Damage, tables, saved
    <2>4. CASE UNCHANGED vars
        BY <2>1, <2>4 DEF vars, tables, saved
    <2> QED
        BY <2>1, <2>2, <2>3, <2>4, InsertWrites, ReturnAcknowledges DEF Next
<1> QED
    BY <1>1, <1>2, LedgerInvariant, PTL
       DEF Spec, ImplementsWriteOnce, Abstract!Spec
-----------------------------------------------------------------------------
(* ResearchStore *)

\* What a process is about to be told it saved is stored.
BeforeReturn ==
    \A p \in StoreProcesses :
        storeStep[p] = "stored" => {storeHandle[p]} \X storeSaving[p] \subseteq storedRows

\* What a process opens is one of the two stores.
OpensAStore ==
    \A p \in StoreProcesses : storeStep[p] = "initialize" => storeHandle[p] \in Roles

StoreInv ==
    StoreTypeOK /\ OpensAStore /\ BeforeReturn /\ savedRows \subseteq storedRows

\* A new file and processes that have not opened it satisfy the invariant.
LEMMA StoreBegins == StoreInit => StoreInv
<1> SUFFICES ASSUME StoreInit PROVE StoreInv
    OBVIOUS
<1>1. payload \in [Roles \X Rows -> Payloads]
    BY DEF StoreInit, Payloads
<1> QED
    BY <1>1 DEF StoreInit, StoreInv, StoreTypeOK, StoreSteps, OpensAStore, BeforeReturn

\* What the payloads of the rows may be of.
PayloadsTyped == payload \in [Roles \X Rows -> Payloads]

\* Of the steps of one process, nothing but GotoStore changes what processes do.
LEMMA GotoType ==
    ASSUME StoreTypeOK, NEW p \in StoreProcesses, NEW step \in StoreSteps,
           NEW store \in Roles \cup {NoRole}, NEW rows \in SUBSET Rows,
           GotoStore(p, step, store, rows)
    PROVE  /\ storeStep' \in [StoreProcesses -> StoreSteps]
           /\ storeHandle' \in [StoreProcesses -> Roles \cup {NoRole}]
           /\ storeSaving' \in [StoreProcesses -> SUBSET Rows]
           /\ storeStep'[p] = step /\ storeHandle'[p] = store /\ storeSaving'[p] = rows
           /\ \A q \in StoreProcesses \ {p} :
                /\ storeStep'[q] = storeStep[q] /\ storeHandle'[q] = storeHandle[q]
                /\ storeSaving'[q] = storeSaving[q]
BY DEF StoreTypeOK, GotoStore

\* A step of one process: nothing that was stored is gone.
LEMMA ProcessStep ==
    ASSUME StoreInv, NEW p \in StoreProcesses, NEW step \in StoreSteps,
           NEW store \in Roles \cup {NoRole}, NEW rows \in SUBSET Rows,
           GotoStore(p, step, store, rows), PayloadsTyped',
           storedRows \subseteq storedRows', storedRows' \subseteq roleTables' \X Rows,
           savedRows' \subseteq storedRows, savedRows' \subseteq Roles \X Rows,
           role' \in Roles \cup {NoRole}, roleTables \subseteq roleTables',
           roleTables' \subseteq Roles,
           step \in {"open", "insert", "stored"} => store \in roleTables',
           step = "initialize" => store \in Roles,
           step = "stored" => {store} \X rows \subseteq storedRows'
    PROVE  StoreInv'
<1>1. /\ storeStep' \in [StoreProcesses -> StoreSteps]
      /\ storeHandle' \in [StoreProcesses -> Roles \cup {NoRole}]
      /\ storeSaving' \in [StoreProcesses -> SUBSET Rows]
      /\ storeStep'[p] = step /\ storeHandle'[p] = store /\ storeSaving'[p] = rows
      /\ \A q \in StoreProcesses \ {p} :
            /\ storeStep'[q] = storeStep[q] /\ storeHandle'[q] = storeHandle[q]
            /\ storeSaving'[q] = storeSaving[q]
    BY GotoType DEF StoreInv
<1>2. \A q \in StoreProcesses :
            storeStep'[q] \in {"open", "insert", "stored"} => storeHandle'[q] \in roleTables'
    BY <1>1 DEF StoreInv, StoreTypeOK
<1>3. StoreTypeOK'
    BY <1>1, <1>2 DEF StoreInv, StoreTypeOK, PayloadsTyped
<1>4. BeforeReturn' /\ OpensAStore'
    BY <1>1 DEF StoreInv, BeforeReturn, OpensAStore
<1> QED
    BY <1>3, <1>4 DEF StoreInv

\* Every step of the processes and every damaged row keeps it.
LEMMA StoreStepKeeps == StoreInv /\ [StoreNext]_storeVars => StoreInv'
<1> SUFFICES ASSUME StoreInv, [StoreNext]_storeVars PROVE StoreInv'
    OBVIOUS
<1>t. /\ role \in Roles \cup {NoRole} /\ roleTables \subseteq Roles
      /\ storedRows \subseteq roleTables \X Rows
      /\ UNCHANGED payload => PayloadsTyped'
      /\ storeHandle \in [StoreProcesses -> Roles \cup {NoRole}]
      /\ storeSaving \in [StoreProcesses -> SUBSET Rows]
      /\ savedRows \subseteq Roles \X Rows /\ savedRows \subseteq storedRows
      /\ \A p \in StoreProcesses :
            storeStep[p] \in {"open", "insert", "stored"} => storeHandle[p] \in roleTables
    BY DEF StoreInv, StoreTypeOK, PayloadsTyped
<1>s. {"closed", "initialize", "open", "insert", "stored"} = StoreSteps
    BY DEF StoreSteps
<1>1. ASSUME NEW p \in StoreProcesses, NEW r \in Roles, ReadRole(p, r) PROVE StoreInv'
    BY <1>1, <1>t, <1>s, ProcessStep DEF ReadRole, storeFile
<1>2. ASSUME NEW p \in StoreProcesses, InitializeRole(p) PROVE StoreInv'
    <2>1. storeHandle[p] \in Roles
        BY <1>2 DEF InitializeRole, StoreInv, OpensAStore
    <2> QED
        BY <1>2, <1>t, <1>s, <2>1, ProcessStep DEF InitializeRole
<1>3. ASSUME NEW p \in StoreProcesses, NEW x \in Rows, SaveRow(p, x) PROVE StoreInv'
    BY <1>3, <1>t, <1>s, ProcessStep DEF SaveRow, storeFile
<1>4. ASSUME NEW p \in StoreProcesses, InsertRow(p) PROVE StoreInv'
    <2> DEFINE rows == {storeHandle[p]} \X storeSaving[p]
    <2>1. storeStep[p] = "insert" /\ storeHandle[p] \in roleTables
          /\ storeHandle[p] \in Roles /\ storeSaving[p] \in SUBSET Rows
        BY <1>4, <1>t DEF InsertRow
    <2>2. CASE /\ storedRows' = storedRows \cup rows
               /\ GotoStore(p, "stored", storeHandle[p], storeSaving[p])
               /\ payload' = [row \in Roles \X Rows |->
                                IF row \in rows THEN {row[2]} ELSE payload[row]]
               /\ UNCHANGED <<role, roleTables, savedRows>>
        <3>1. storedRows' \subseteq roleTables' \X Rows /\ rows \subseteq storedRows'
              /\ storedRows \subseteq storedRows'
            BY <1>t, <2>1, <2>2
        <3>2. PayloadsTyped'
            <4>1. \A row \in rows : row \in Roles \X Rows /\ {row[2]} \in Payloads
                BY <2>1 DEF Payloads
            <4> QED
                BY <2>2, <4>1 DEF PayloadsTyped, StoreInv, StoreTypeOK
        <3> QED
            BY <1>t, <1>s, <2>1, <2>2, <3>1, <3>2, ProcessStep
    <2>3. CASE /\ GotoStore(p, "open", storeHandle[p], {})
               /\ UNCHANGED <<storeFile, savedRows>>
        <3>1. PICK rows0 \in SUBSET Rows, step \in StoreSteps :
                rows0 = {} /\ step = "open" /\ GotoStore(p, step, storeHandle[p], rows0)
            BY <1>s, <2>3
        <3>2. UNCHANGED <<role, roleTables, storedRows, payload, savedRows>>
            BY <2>3 DEF storeFile
        <3> QED
            BY <1>t, <2>1, <3>1, <3>2, ProcessStep
    <2> QED
        BY <1>4, <2>2, <2>3 DEF InsertRow
<1>5. ASSUME NEW p \in StoreProcesses, ReturnRow(p) PROVE StoreInv'
    BY <1>5, <1>t, <1>s, ProcessStep DEF ReturnRow, storeFile, StoreInv, BeforeReturn
<1>6. ASSUME NEW p \in StoreProcesses, FailRow(p) PROVE StoreInv'
    BY <1>6, <1>t, <1>s, ProcessStep DEF FailRow, storeFile
<1>7. ASSUME NEW p \in StoreProcesses, CloseStore(p) PROVE StoreInv'
    <2>1. PICK rows \in SUBSET Rows, step \in StoreSteps :
            rows = {} /\ step = "closed" /\ GotoStore(p, step, NoRole, rows)
        BY <1>7, <1>s DEF CloseStore
    <2>2. UNCHANGED <<role, roleTables, storedRows, payload, savedRows>>
        BY <1>7 DEF CloseStore, storeFile
    <2> QED
        BY <1>t, <2>1, <2>2, ProcessStep
<1>8. CASE DamageRow
    BY <1>8 DEF DamageRow, StoreInv, StoreTypeOK, OpensAStore, BeforeReturn
<1>9. CASE UNCHANGED storeVars
    BY <1>9 DEF storeVars, storeFile, StoreInv, StoreTypeOK, OpensAStore, BeforeReturn
<1> QED
    BY <1>1, <1>2, <1>3, <1>4, <1>5, <1>6, <1>7, <1>8, <1>9 DEF StoreNext

\* An acknowledged row is stored, and one that is about to be acknowledged is
\* too (save of FeatureStoreV1 and FutureLabelStoreV1).
THEOREM StoreInvariant == StoreSpec => []StoreInv
BY StoreBegins, StoreStepKeeps, PTL DEF StoreSpec

\* A row whose save returned is loaded again, or the load raises (save, load).
THEOREM AlwaysReadable == StoreSpec => []SavedReadable
<1>1. StoreInv => SavedReadable
    <2> SUFFICES ASSUME StoreInv, NEW row \in savedRows
                 PROVE  \/ Loaded(row[1], row[2]) = {row[2]}
                        \/ LoadRaises(row[1], row[2])
                        \/ /\ payload[row] \notin {{}, {row[2]}}
                           /\ Loaded(row[1], row[2]) = payload[row]
        BY DEF SavedReadable
    <2>1. /\ row \in storedRows /\ row = <<row[1], row[2]>>
          /\ row \in Roles \X Rows
        BY DEF StoreInv, StoreTypeOK
    <2>2. payload[row] \in Payloads
        BY <2>1 DEF StoreInv, StoreTypeOK
    <2>3. CASE payload[row] = {}
        BY <2>1, <2>3 DEF LoadRaises
    <2>4. ASSUME NEW y \in Rows, payload[row] = {y}
          PROVE  Loaded(row[1], row[2]) = {y}
        BY <2>1, <2>4 DEF Loaded
    <2> QED
        BY <2>2, <2>3, <2>4 DEF Payloads
<1> QED
    BY <1>1, StoreInvariant, PTL
==============================================================================
