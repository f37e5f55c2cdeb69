------------------------------ MODULE Backfill ------------------------------
(***************************************************************************)
(* BackfillRunnerV2.run over HistoricalEvidenceStoreV2.  Each runner is a  *)
(* process that fetches the pages of a job from an adapter, records the    *)
(* fetch, saves the observations, writes the partition, and only then      *)
(* advances the job's checkpoint; after the completed page it publishes a  *)
(* manifest of every partition in the catalog.                             *)
(*                                                                         *)
(* pc[r] names the file operation, SELECT or transaction runner r is about *)
(* to do.  An exception leaves run() with everything in memory lost and    *)
(* what was committed kept, and so does a crash.                           *)
(***************************************************************************)
EXTENDS EvidenceStore

CONSTANTS
    Runners,
    MaxPages,       \* BackfillRunnerV2.max_pages
    MaxEmptyPages,  \* BackfillRunnerV2.max_empty_pages
    Repeats,        \* TRUE: an adapter may return a cursor it returned before
    MaxClock,       \* bound: the wall clock (fetched_at) runs from 0 to it
    MaxCrashes,     \* bound: process crashes in a behaviour
    MaxDamage       \* bound: files damaged in a behaviour

ASSUME BackfillAssumption ==
    /\ MaxPages \in Nat \ {0}
    /\ MaxEmptyPages \in Nat
    /\ Repeats \in BOOLEAN
    /\ MaxClock \in Nat /\ MaxCrashes \in Nat /\ MaxDamage \in Nat

VARIABLES
    pc,        \* pc[r]: the next operation of runner r
    mem,       \* mem[r]: the local variables of run() and of its callees
    clock,     \* wall clock of the fetches
    crashes,   \* crashes so far
    damages    \* damaged files so far

vars == <<storeVars, pc, mem, clock, crashes, damages>>
-----------------------------------------------------------------------------
Idle == {"idle", "returned"}

Steps == {"fetch", "blob_file", "blob_select", "blob_insert",
          "receipt_select", "receipt_insert", "progress",
          "obs_select", "obs_insert",
          "part_file", "part_select", "part_insert",
          "ckpt_select", "ckpt_upsert",
          "list", "man_file", "man_select", "man_insert"}

NoManifest == [created |-> 0, parts |-> {}]

\* The cursors an adapter may return with page c.
NextCursors(c) ==
    {c + 1} \cup (IF Repeats /\ c < LastPage THEN 1..c ELSE {})

Fresh(j, c, at) ==
    [job |-> j, cursor |-> c, seen |-> {}, pages |-> 0, empties |-> 0,
     at |-> at, next |-> c, row |-> 1, manifest |-> NoManifest]

Memory == [job : Jobs, cursor : Pages, seen : SUBSET Pages,
           pages : 0..MaxPages, empties : 0..MaxEmptyPages, at : Nat,
           next : 1..(LastPage + 1), row : Nat, manifest : Manifests]

RunnerTypeOK ==
    /\ pc \in [Runners -> Idle \cup Steps]
    /\ mem \in [Runners -> Memory]

TypeOK ==
    /\ StoreTypeOK
    /\ RunnerTypeOK
    /\ clock \in Nat /\ crashes \in Nat /\ damages \in Nat

Init ==
    /\ StoreInit
    /\ pc = [r \in Runners |-> "idle"]
    /\ mem \in [Runners -> {Fresh(j, 1, 0) : j \in Jobs}]
    /\ clock = 0 /\ crashes = 0 /\ damages = 0
-----------------------------------------------------------------------------
(* Control. *)

JobOf(r) == mem[r].job
FetchOf(r) == [job |-> mem[r].job, page |-> mem[r].cursor, at |-> mem[r].at]
RowOf(r) == [fetch |-> FetchOf(r), row |-> mem[r].row]
RowCount(r) == RowsOf(mem[r].job, mem[r].cursor)

PageCompleted(r) == mem[r].cursor = LastPage

At(r, step) == pc[r] = step
Goto(r, step) == pc' = [pc EXCEPT ![r] = step]

\* An exception leaves run(): the process keeps nothing of the run.
Raise(r) ==
    /\ Goto(r, "idle")
    /\ mem' = [mem EXCEPT ![r] = Fresh(mem[r].job, 1, 0)]
    /\ UNCHANGED storeVars

Quiet == UNCHANGED <<clock, crashes, damages>>
-----------------------------------------------------------------------------
(* run(): load_checkpoint, the page loop's budget, fetch_page. *)

\* Mutant of Resume: an incomplete job starts over at the initial cursor.
ResumeFromStart(r) ==
    /\ pc[r] \in Idle
    /\ \E j \in Jobs :
        IF checkpoint[j].completed
          THEN /\ Goto(r, "list")
               /\ mem' = [mem EXCEPT ![r] =
                            Fresh(j, LastPage, checkpoint[j].at)]
          ELSE Goto(r, "fetch") /\ mem' = [mem EXCEPT ![r] = Fresh(j, 1, 0)]
    /\ UNCHANGED storeVars /\ Quiet

Resume(r) ==
    /\ pc[r] \in Idle
    /\ \E j \in Jobs :
        IF checkpoint[j].completed
          THEN /\ Goto(r, "list")
               /\ mem' = [mem EXCEPT ![r] =
                            Fresh(j, LastPage, checkpoint[j].at)]
          ELSE /\ Goto(r, "fetch")
               /\ mem' = [mem EXCEPT ![r] =
                            Fresh(j, IF checkpoint[j] = NoCheckpoint THEN 1
                                     ELSE checkpoint[j].cursor, 0)]
    /\ UNCHANGED storeVars /\ Quiet

FetchPage(r) ==
    /\ At(r, "fetch")
    /\ \/ /\ mem[r].pages < MaxPages
          /\ \E n \in NextCursors(mem[r].cursor) :
               mem' = [mem EXCEPT ![r].seen = @ \cup {mem[r].cursor},
                                  ![r].pages = @ + 1,
                                  ![r].at = clock,
                                  ![r].next = n,
                                  ![r].row = 1]
          /\ Goto(r, "blob_file")
          /\ UNCHANGED storeVars
       \/ mem[r].pages >= MaxPages /\ Raise(r)
    /\ Quiet

(* record_fetch: put_raw, then the receipt. *)

PutRawFile(r) ==
    /\ At(r, "blob_file")
    /\ \/ /\ WriteBlobFile(PayloadOf(FetchOf(r)))
          /\ Goto(r, "blob_select") /\ UNCHANGED mem
       \/ PayloadOf(FetchOf(r)) \in badBlobs /\ Raise(r)
    /\ Quiet

SelectBlob(r) ==
    /\ At(r, "blob_select")
    /\ Goto(r, IF PayloadOf(FetchOf(r)) \in rawBlobs THEN "receipt_select"
                                                     ELSE "blob_insert")
    /\ UNCHANGED <<storeVars, mem>> /\ Quiet

InsertBlob(r) ==
    /\ At(r, "blob_insert")
    /\ \/ /\ InsertBlobRow(PayloadOf(FetchOf(r)))
          /\ Goto(r, "receipt_select") /\ UNCHANGED mem
       \/ PayloadOf(FetchOf(r)) \in rawBlobs /\ Raise(r)
    /\ Quiet

SelectReceipt(r) ==
    /\ At(r, "receipt_select")
    /\ Goto(r, IF FetchOf(r) \in receipts THEN "progress"
                                          ELSE "receipt_insert")
    /\ UNCHANGED <<storeVars, mem>> /\ Quiet

InsertReceipt(r) ==
    /\ At(r, "receipt_insert")
    /\ \/ /\ InsertReceiptRow(FetchOf(r))
          /\ Goto(r, "progress") /\ UNCHANGED mem
       \/ FetchOf(r) \in receipts /\ Raise(r)
    /\ Quiet

(* run(): the empty-page budget and the forward-progress check, both after *)
(* record_fetch and before anything else is written.                       *)

EmptiesAfter(r) == IF RowCount(r) = 0 THEN mem[r].empties + 1 ELSE 0

NoForwardProgress(r) == ~PageCompleted(r) /\ mem[r].next \in mem[r].seen

CheckProgress(r) ==
    /\ At(r, "progress")
    /\ \/ /\ EmptiesAfter(r) <= MaxEmptyPages
          /\ ~NoForwardProgress(r)
          /\ mem' = [mem EXCEPT ![r].empties = EmptiesAfter(r)]
          /\ Goto(r, IF RowCount(r) = 0 THEN "ckpt_select" ELSE "obs_select")
          /\ UNCHANGED storeVars
       \/ EmptiesAfter(r) > MaxEmptyPages /\ Raise(r)
       \/ NoForwardProgress(r) /\ Raise(r)
    /\ Quiet

(* write_partition: save_observation for every row, then the file, then    *)
(* the catalog row with its members.                                       *)

\* Mutants of RowSaved: the checkpoint is written before the partition, and
\* the partition is registered without writing its file.
RowSavedThenCheckpoint(r) ==
    IF mem[r].row = RowCount(r)
      THEN Goto(r, "ckpt_select") /\ UNCHANGED mem
      ELSE Goto(r, "obs_select") /\ mem' = [mem EXCEPT ![r].row = @ + 1]

RowSavedThenRegister(r) ==
    IF mem[r].row = RowCount(r)
      THEN Goto(r, "part_select") /\ UNCHANGED mem
      ELSE Goto(r, "obs_select") /\ mem' = [mem EXCEPT ![r].row = @ + 1]

RowSaved(r) ==
    IF mem[r].row = RowCount(r)
      THEN Goto(r, "part_file") /\ UNCHANGED mem
      ELSE Goto(r, "obs_select") /\ mem' = [mem EXCEPT ![r].row = @ + 1]

\* Mutant of SelectObservation: a stored row of the same id is taken for the
\* observation without comparing the payloads.
SelectObservationById(r) ==
    /\ At(r, "obs_select")
    /\ FetchOf(r) \in receipts
    /\ \/ /\ StoredAs(RowOf(r)) = {}
          /\ Goto(r, "obs_insert") /\ UNCHANGED mem
       \/ StoredAs(RowOf(r)) # {} /\ RowSaved(r)
    /\ UNCHANGED storeVars /\ Quiet

\* The receipt must be registered, and a stored row of the same id must
\* have the same payload, which holds the fetch it came from.
SelectObservation(r) ==
    /\ At(r, "obs_select")
    /\ \/ /\ FetchOf(r) \in receipts /\ StoredAs(RowOf(r)) = {}
          /\ Goto(r, "obs_insert") /\ UNCHANGED <<storeVars, mem>>
       \/ /\ FetchOf(r) \in receipts /\ StoredAs(RowOf(r)) = {RowOf(r)}
          /\ RowSaved(r) /\ UNCHANGED storeVars
       \/ StoredAs(RowOf(r)) \ {RowOf(r)} # {} /\ Raise(r)
    /\ Quiet

InsertObservation(r) ==
    /\ At(r, "obs_insert")
    /\ \/ InsertObservationRow(RowOf(r)) /\ RowSaved(r)
       \/ StoredAs(RowOf(r)) # {} /\ Raise(r)
    /\ Quiet

PutPartitionFile(r) ==
    /\ At(r, "part_file")
    /\ \/ /\ WritePartFile(FetchOf(r))
          /\ Goto(r, "part_select") /\ UNCHANGED mem
       \/ FetchOf(r) \in badParts /\ Raise(r)
    /\ Quiet

\* Mutants of SelectPartition: a partition counts as registered when its
\* file is there, and replaying a registered partition is an error.
SelectPartitionFile(r) ==
    /\ At(r, "part_select")
    /\ Goto(r, IF FetchOf(r) \in partFiles THEN "ckpt_select"
                                           ELSE "part_insert")
    /\ UNCHANGED <<storeVars, mem>> /\ Quiet

SelectPartitionOnce(r) ==
    /\ At(r, "part_select")
    /\ \/ /\ FetchOf(r) \notin partitions
          /\ Goto(r, "part_insert") /\ UNCHANGED <<storeVars, mem>>
       \/ FetchOf(r) \in partitions /\ Raise(r)
    /\ Quiet

SelectPartition(r) ==
    /\ At(r, "part_select")
    /\ Goto(r, IF FetchOf(r) \in partitions THEN "ckpt_select"
                                            ELSE "part_insert")
    /\ UNCHANGED <<storeVars, mem>> /\ Quiet

InsertPartition(r) ==
    /\ At(r, "part_insert")
    /\ \/ /\ InsertPartitionRow(FetchOf(r))
          /\ Goto(r, "ckpt_select") /\ UNCHANGED mem
       \/ FetchOf(r) \in partitions /\ Raise(r)
    /\ Quiet
-----------------------------------------------------------------------------
(* save_checkpoint, and the loop's next cursor. *)

SelectCheckpoint(r) ==
    /\ At(r, "ckpt_select")
    /\ \/ /\ ~(checkpoint[JobOf(r)].completed /\ ~PageCompleted(r))
          /\ Goto(r, "ckpt_upsert") /\ UNCHANGED <<storeVars, mem>>
       \/ /\ checkpoint[JobOf(r)].completed /\ ~PageCompleted(r)
          /\ Raise(r)
    /\ Quiet

\* Mutants of UpsertCheckpoint: the stored cursor skips a page, and the seen
\* cursors and the page budget start afresh with every page.
UpsertCheckpointSkips(r) ==
    /\ At(r, "ckpt_upsert")
    /\ UpsertCheckpointRow(JobOf(r),
                           IF PageCompleted(r) THEN LastPage + 1
                                               ELSE mem[r].next + 1,
                           PageCompleted(r), mem[r].at)
    /\ IF PageCompleted(r)
         THEN Goto(r, "list") /\ UNCHANGED mem
         ELSE /\ Goto(r, "fetch")
              /\ mem' = [mem EXCEPT ![r].cursor = mem[r].next]
    /\ Quiet

UpsertCheckpointForgets(r) ==
    /\ At(r, "ckpt_upsert")
    /\ UpsertCheckpointRow(JobOf(r),
                           IF PageCompleted(r) THEN LastPage + 1
                                               ELSE mem[r].next,
                           PageCompleted(r), mem[r].at)
    /\ IF PageCompleted(r)
         THEN Goto(r, "list") /\ UNCHANGED mem
         ELSE /\ Goto(r, "fetch")
              /\ mem' = [mem EXCEPT ![r] = Fresh(JobOf(r), mem[r].next, 0)]
    /\ Quiet

UpsertCheckpoint(r) ==
    /\ At(r, "ckpt_upsert")
    /\ UpsertCheckpointRow(JobOf(r),
                           IF PageCompleted(r) THEN LastPage + 1
                                               ELSE mem[r].next,
                           PageCompleted(r), mem[r].at)
    /\ IF PageCompleted(r)
         THEN Goto(r, "list") /\ UNCHANGED mem
         ELSE /\ Goto(r, "fetch")
              /\ mem' = [mem EXCEPT ![r].cursor = mem[r].next]
    /\ Quiet

(* finalize_manifest: list and verify the catalog's partitions, write the  *)
(* manifest's file, then its row.                                          *)

\* Mutant of ListPartitions: the manifest lists only what the current process
\* wrote.
ListPartitionsOfRun(r) ==
    /\ At(r, "list")
    /\ mem' = [mem EXCEPT ![r].manifest =
                 [created |-> mem[r].at,
                  parts |-> {f \in partitions : f.page \in mem[r].seen}]]
    /\ Goto(r, "man_file") /\ UNCHANGED storeVars
    /\ Quiet

ListPartitions(r) ==
    /\ At(r, "list")
    /\ \/ /\ partitions # {} /\ partitions \cap badParts = {}
          /\ mem' = [mem EXCEPT ![r].manifest =
                       [created |-> mem[r].at, parts |-> partitions]]
          /\ Goto(r, "man_file") /\ UNCHANGED storeVars
       \/ (partitions = {} \/ partitions \cap badParts # {}) /\ Raise(r)
    /\ Quiet

PutManifestFile(r) ==
    /\ At(r, "man_file")
    /\ WriteManifestFile(mem[r].manifest)
    /\ Goto(r, "man_select") /\ UNCHANGED mem /\ Quiet

SelectManifest(r) ==
    /\ At(r, "man_select")
    /\ Goto(r, IF mem[r].manifest \in manifests THEN "returned"
                                                ELSE "man_insert")
    /\ UNCHANGED <<storeVars, mem>> /\ Quiet

InsertManifest(r) ==
    /\ At(r, "man_insert")
    /\ \/ /\ InsertManifestRow(mem[r].manifest)
          /\ Goto(r, "returned") /\ UNCHANGED mem
       \/ mem[r].manifest \in manifests /\ Raise(r)
    /\ Quiet
-----------------------------------------------------------------------------
(* The environment.  A crash loses the process's memory and nothing else;  *)
(* a statement that fails with "database is locked" after busy_timeout     *)
(* ends a run the same way.                                                *)

Crash(r) ==
    /\ pc[r] \notin Idle
    /\ crashes < MaxCrashes
    /\ crashes' = crashes + 1
    /\ Raise(r)
    /\ UNCHANGED <<clock, damages>>

Tick ==
    /\ clock < MaxClock
    /\ clock' = clock + 1
    /\ UNCHANGED <<storeVars, pc, mem, crashes, damages>>

DamageFile ==
    /\ damages < MaxDamage
    /\ damages' = damages + 1
    /\ \E f \in partFiles : Damage(PayloadOf(f), f)
    /\ UNCHANGED <<pc, mem, clock, crashes>>

RunnerStep(r) ==
    \/ Resume(r) \/ FetchPage(r)
    \/ PutRawFile(r) \/ SelectBlob(r) \/ InsertBlob(r)
    \/ SelectReceipt(r) \/ InsertReceipt(r) \/ CheckProgress(r)
    \/ SelectObservation(r) \/ InsertObservation(r)
    \/ PutPartitionFile(r) \/ SelectPartition(r) \/ InsertPartition(r)
    \/ SelectCheckpoint(r) \/ UpsertCheckpoint(r)
    \/ ListPartitions(r) \/ PutManifestFile(r)
    \/ SelectManifest(r) \/ InsertManifest(r)

Next ==
    \/ \E r \in Runners : RunnerStep(r) \/ Crash(r)
    \/ Tick
    \/ DamageFile

Spec == Init /\ [][Next]_vars

\* A live process takes its next step, and whoever runs backfills invokes
\* run() again after it returned or failed.  Crashes, the clock and the disk
\* promise nothing.
FairSpec == Spec /\ \A r \in Runners : WF_vars(RunnerStep(r))
-----------------------------------------------------------------------------
(* Properties. *)

\* The pages that S, a set of partitions, stores; an empty page needs none.
Empties == {p \in Payloads : Rows[p] = 0}
PagesIn(S) == Empties \cup {PayloadOf(f) : f \in S}

CoveredBelow(j, c) == \A p \in Pages : p < c => <<j, p>> \in PagesIn(partitions)

\* The promise of HistoricalEvidenceStoreV2's docstring: no checkpoint is
\* past a missing partition.  Whatever crashes, retries and concurrent
\* runners do, every page before a stored cursor is in a registered
\* partition, and a completed checkpoint has every page stored.
CheckpointCovered == \A j \in Jobs : CoveredBelow(j, checkpoint[j].cursor)

\* Files are written before rows: a registered partition has its file, every
\* one of its observations, the receipt those name and that receipt's raw
\* bytes, so that each row of a manifest can be traced to the bytes it came
\* from.
ProvenanceBacked ==
    /\ manifests \subseteq manifestFiles
    /\ \A m \in manifests : m.parts \subseteq partitions
    /\ \A f \in partitions :
         /\ f \in partFiles
         /\ ObservationsOf(f) \subseteq observations
         /\ f \in receipts
         /\ PayloadOf(f) \in rawBlobs \cap blobFiles

\* A run that returned has published a manifest with every page of its job,
\* those saved by earlier, interrupted runs included.
ManifestComplete ==
    \A r \in Runners : pc[r] = "returned" =>
        /\ mem[r].manifest \in manifests
        /\ {mem[r].job} \X Pages \subseteq PagesIn(mem[r].manifest.parts)

\* With observation ids derived from the record alone, refetching a page
\* after a crash or from a second runner never registers its rows twice, so
\* total_rows counts each record once.
SinglePageCopy ==
    \A f, g \in partitions : PayloadOf(f) = PayloadOf(g) => f = g

\* However often a single process is interrupted after the completed page,
\* finalising its one job again yields the manifest it yielded before:
\* created_at comes from the checkpoint and not from the clock.
OneManifest == Cardinality(manifests) <= 1

\* With a single process a completed checkpoint stays as it is and no
\* checkpoint moves back, across crashes and resumes.
CheckpointForward ==
    [][\A j \in Jobs :
          /\ checkpoint[j].completed => checkpoint'[j] = checkpoint[j]
          /\ checkpoint'[j].cursor >= checkpoint[j].cursor]_vars

\* What save_checkpoint's error message says: "completed checkpoint cannot
\* be reopened".
CompletedNotReopened ==
    [][\A j \in Jobs : checkpoint[j].completed => checkpoint'[j].completed]_vars

\* Interrupted backfills resume: a job that is run again and again is
\* eventually published whole, although its runs crash, hit max_pages and
\* exceed the budget of empty pages; only a file damaged on disk, which every
\* later run refuses, can keep it from that.
EventuallyPublished ==
    \A j \in Jobs :
        <>(\/ \E m \in manifests : {j} \X Pages \subseteq PagesIn(m.parts)
           \/ badBlobs # {} \/ badParts # {})

\* Every run ends, also against an adapter that returns cursors it returned
\* before: the page budget and the seen cursors last as long as the run.
EveryRunEnds == \A r \in Runners : pc[r] \notin Idle ~> pc[r] \in Idle

\* The detailed steps, failures included, are steps of DurableProgress.
Progress == INSTANCE DurableProgress WITH
    persisted <- PagesIn(partitions),
    cursor <- [j \in Jobs |-> checkpoint[j].cursor],
    published <- {PagesIn(m.parts) : m \in manifests}

\* Every behaviour of the runners and the store is one of DurableProgress:
\* files, rows, crashes and races are invisible in what is promised.
ImplementsProgress == Progress!Spec
-----------------------------------------------------------------------------
(* The inductive invariant behind CheckpointCovered and ManifestComplete.  *)

CursorShape ==
    \A j \in Jobs : LET cp == checkpoint[j] IN
        /\ cp.cursor = 0 => cp = NoCheckpoint
        /\ cp.completed <=> cp.cursor = LastPage + 1

\* A runner is at a page after pages that are stored, and its adapter's next
\* cursor skips none.
CursorCovered(r) == pc[r] \in Steps =>
    /\ CoveredBelow(mem[r].job, mem[r].cursor)
    /\ mem[r].next <= mem[r].cursor + 1

\* The partition is registered before save_checkpoint begins.
PageCovered(r) == pc[r] \in {"ckpt_select", "ckpt_upsert"} =>
    <<mem[r].job, mem[r].cursor>> \in PagesIn(partitions)

Finishing == {"list", "man_file", "man_select", "man_insert", "returned"}

\* Only a run that found or wrote a completed checkpoint makes a manifest.
ManifestCovered(r) ==
    /\ pc[r] \in Finishing => CoveredBelow(mem[r].job, LastPage + 1)
    /\ pc[r] \in Finishing \ {"list"} =>
         /\ mem[r].manifest.parts \subseteq partitions
         /\ {mem[r].job} \X Pages \subseteq PagesIn(mem[r].manifest.parts)
    /\ pc[r] = "returned" => mem[r].manifest \in manifests

RunnerInv(r) == CursorCovered(r) /\ PageCovered(r) /\ ManifestCovered(r)

\* Every step of every runner preserves it.
BackfillInv ==
    /\ TypeOK
    /\ CursorShape
    /\ CheckpointCovered
    /\ \A r \in Runners : RunnerInv(r)
=============================================================================
