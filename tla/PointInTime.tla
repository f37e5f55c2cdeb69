---------------------------- MODULE PointInTime ----------------------------
(***************************************************************************)
(* The point-in-time contract: which observation of each series a          *)
(* prediction made at one time may use, over a catalog that keeps growing. *)
(* Sources publish revisions, processes fetch them, early or late, and     *)
(* save them some time after the fetch; select_as_of answers for any       *)
(* prediction time, the time it is asked at or one long past.              *)
(*                                                                         *)
(* Times are instants in Nat and dates are counted in whole days of Day    *)
(* instants.  An observation is its own identity: its id and its canonical *)
(* digest differ whenever two observations do.                             *)
(***************************************************************************)
EXTENDS Naturals, Sequences, FiniteSets

CONSTANTS
    Series,        \* (dataset, record_id, provider, source, symbol, instrument)
    Profiles,      \* what a source may state about its series: records with
                   \* fields precision, sequenced, basis
    Day,           \* instants per UTC day
    MaxClock,      \* bound: the clock runs from 0 to it
    MaxRevisions,  \* bound: revisions published of one series
    MaxFetches     \* bound: observations fetched in a behaviour

Precisions == {"EXACT", "DATE_ONLY", "INFERRED_CONSERVATIVE", "UNKNOWN"}

ASSUME PointInTimeAssumption ==
    /\ Profiles \subseteq [precision : Precisions, sequenced : BOOLEAN,
                           basis : BOOLEAN]
    /\ Day \in Nat \ {0}
    /\ MaxClock \in Nat /\ MaxRevisions \in Nat /\ MaxFetches \in Nat

VARIABLES
    clock,
    source,     \* source[s]: the profile of series s
    published,  \* published[s]: when the revisions 1, 2, ... came out
    inflight,   \* observations fetched and not yet saved
    catalog     \* table observations

catalogVars == <<clock, source, published, inflight, catalog>>
-----------------------------------------------------------------------------
(* HistoricalObservation *)

\* published_at is the truth and not a field: the code sees `available`, a
\* time, or a date if the precision is DATE_ONLY, or nothing if it is UNKNOWN.
\* revision 0 stands for revision_sequence None.
Observations ==
    [series : Series, published_at : Nat, available : Nat,
     precision : Precisions, revision : Nat, fetched_at : Nat,
     basis : BOOLEAN]

\* What a source may say about a revision published at time t and fetched at f.
StatedAvailability(precision, t, f) ==
    CASE precision = "EXACT" -> {t}
      [] precision = "INFERRED_CONSERVATIVE" -> t..f
      [] precision = "DATE_ONLY" -> {t \div Day}
      [] precision = "UNKNOWN" -> {0}

\* Mutant of Boundary: the midnight at which the date begins.
BoundaryAtMidnight(o) ==
    IF o.precision = "DATE_ONLY" THEN o.available * Day ELSE o.available

\* availability_boundary, for a precision that has one.
Boundary(o) ==
    IF o.precision = "DATE_ONLY" THEN (o.available + 1) * Day ELSE o.available

HasBoundary(o) == o.precision # "UNKNOWN"

Available(o, t) == HasBoundary(o) /\ Boundary(o) <= t

\* Mutant of StrictReplay: the fetch time is not looked at.
StrictReplayAnyFetch(o, t) == Available(o, t)

StrictReplay(o, t) == Available(o, t) /\ o.fetched_at <= t

ReconstructedPIT(o, t) ==
    Available(o, t) /\ ~StrictReplay(o, t) /\ o.basis

\* eligibility_at, as select_as_of filters by it.
Eligible(o, t, allowReconstructed) ==
    StrictReplay(o, t) \/ (allowReconstructed /\ ReconstructedPIT(o, t))

\* Mutant of Outranks: the fetch time comes before the revision.
OutranksByFetch(o, q) ==
    \/ Boundary(o) > Boundary(q)
    \/ /\ Boundary(o) = Boundary(q)
       /\ \/ o.fetched_at > q.fetched_at
          \/ o.fetched_at = q.fetched_at /\ o.revision > q.revision

\* _revision_rank, compared as a tuple.
Outranks(o, q) ==
    \/ Boundary(o) > Boundary(q)
    \/ /\ Boundary(o) = Boundary(q)
       /\ \/ o.revision > q.revision
          \/ o.revision = q.revision /\ o.fetched_at > q.fetched_at

(* select_as_of *)

Candidates(s, t, allowReconstructed) ==
    {o \in catalog : o.series = s /\ Eligible(o, t, allowReconstructed)}

\* The candidates with the best rank.
Best(s, t, allowReconstructed) ==
    {o \in Candidates(s, t, allowReconstructed) :
        \A q \in Candidates(s, t, allowReconstructed) : ~Outranks(q, o)}

\* Two observations of one rank have two digests: AmbiguousRevisionError.
Ambiguous(t, allowReconstructed) ==
    \E s \in Series : \E o, q \in Best(s, t, allowReconstructed) : o # q

Selected(t, allowReconstructed) ==
    UNION {Best(s, t, allowReconstructed) : s \in Series}

(* SourceSnapshot.build *)

\* Mutant of SnapshotClass: the class is that of the caller's request.
SnapshotClassAsked(rows, t, allowReconstructed) ==
    IF allowReconstructed THEN "RECONSTRUCTED_PIT" ELSE "STRICT_REPLAY"

SnapshotClass(rows, t, allowReconstructed) ==
    IF \E o \in rows : ReconstructedPIT(o, t) THEN "RECONSTRUCTED_PIT"
    ELSE "STRICT_REPLAY"

SnapshotRaises(rows, t, allowReconstructed) ==
    \/ rows = {}
    \/ \E o \in rows : ~Eligible(o, t, TRUE)
    \/ ~allowReconstructed /\ \E o \in rows : ReconstructedPIT(o, t)
-----------------------------------------------------------------------------
\* Types; no observation was fetched before it was published or stated to be
\* available, or after now (HistoricalObservation.__post_init__).
CatalogTypeOK ==
    /\ clock \in Nat
    /\ source \in [Series -> Profiles]
    /\ published \in [Series -> Seq(Nat)]
    /\ \A o \in catalog \cup inflight :
        /\ o \in Observations
        /\ o.published_at <= o.fetched_at /\ o.fetched_at <= clock
        /\ o.precision # "DATE_ONLY" => o.available <= o.fetched_at

CatalogInit ==
    /\ clock = 0
    /\ source \in [Series -> Profiles]
    /\ published = [s \in Series |-> <<>>]
    /\ inflight = {} /\ catalog = {}

Tick ==
    /\ clock < MaxClock
    /\ clock' = clock + 1
    /\ UNCHANGED <<source, published, inflight, catalog>>

\* The publisher: another revision of a series comes out.
Publish(s) ==
    /\ Len(published[s]) < MaxRevisions
    /\ published' = [published EXCEPT ![s] = Append(@, clock)]
    /\ UNCHANGED <<clock, source, inflight, catalog>>

\* An adapter fetches revision i of a series now, the newest or an old one.
Fetch(s, i) ==
    /\ Cardinality(inflight \cup catalog) < MaxFetches
    /\ \E stated \in StatedAvailability(source[s].precision, published[s][i],
                                        clock) :
         inflight' = inflight \cup
            {[series |-> s, published_at |-> published[s][i],
              available |-> stated, precision |-> source[s].precision,
              revision |-> IF source[s].sequenced THEN i ELSE 0,
              fetched_at |-> clock, basis |-> source[s].basis]}
    /\ UNCHANGED <<clock, source, published, catalog>>

\* save_observation commits, or the page is lost with its process.
Save(o) ==
    /\ inflight' = inflight \ {o}
    /\ catalog' = catalog \cup {o}
    /\ UNCHANGED <<clock, source, published>>

Lose(o) ==
    /\ inflight' = inflight \ {o}
    /\ UNCHANGED <<clock, source, published, catalog>>

CatalogNext ==
    \/ Tick
    \/ \E s \in Series : Publish(s) \/ \E i \in DOMAIN published[s] : Fetch(s, i)
    \/ \E o \in inflight : Save(o) \/ Lose(o)

CatalogSpec == CatalogInit /\ [][CatalogNext]_catalogVars
-----------------------------------------------------------------------------
(* Properties.  `allow` is the caller's allow_reconstructed. *)

\* A prediction never uses what was not yet public at its time, whether it is
\* made then or replayed later with reconstructed rows, and whether the source
\* states instants or dates (availability_boundary, select_as_of).
NothingFromTheFuture ==
    \A t \in 0..clock, allow \in BOOLEAN :
        \A o \in Selected(t, allow) : o.published_at <= t

\* Once everything fetched by time t is saved, a strict replay at t selects
\* forever what it selects now: later fetches and revisions do not leak
\* backward (eligibility_at, select_as_of).
SettledPast ==
    [][\A t \in 0..clock :
        (t < clock /\ \A o \in inflight : o.fetched_at > t) =>
            /\ Selected(t, FALSE)' = Selected(t, FALSE)
            /\ Ambiguous(t, FALSE)' = Ambiguous(t, FALSE)]_catalogVars

\* A source orders its revisions by exact times, or by dates with a sequence.
Ordered(o) ==
    o.precision = "EXACT" \/ (o.precision = "DATE_ONLY" /\ o.revision # 0)

\* Where the source orders its revisions the newest eligible one is selected,
\* whatever the order in which they were fetched (_revision_rank).
LatestWhereOrdered ==
    \A s \in Series, t \in 0..clock, allow \in BOOLEAN :
        \A o \in Best(s, t, allow), q \in Candidates(s, t, allow) :
            Ordered(o) => q.published_at <= o.published_at

\* The same for every source, as the contract says it: the latest eligible
\* revision, or an ambiguity that is raised (select_as_of).
LatestOrAmbiguous ==
    \A t \in 0..clock, allow \in BOOLEAN : Ambiguous(t, allow) \/
        \A s \in Series : \A o \in Best(s, t, allow),
                             q \in Candidates(s, t, allow) :
            q.published_at <= o.published_at

\* What select_as_of returns makes a snapshot under the same option, and the
\* snapshot says STRICT_REPLAY exactly if all of it had been fetched by its
\* time (SourceSnapshot.build).
SnapshotHonest ==
    \A t \in 0..clock, allow \in BOOLEAN :
        LET rows == Selected(t, allow)
        IN  rows # {} =>
                /\ ~SnapshotRaises(rows, t, allow)
                /\ SnapshotClass(rows, t, allow) = "STRICT_REPLAY" <=>
                        \A o \in rows : o.fetched_at <= t
=============================================================================
