--------------------------- MODULE BackfillProofs ---------------------------
(***************************************************************************)
(* Proofs about Backfill for any jobs, runners, pages, rows and bounds:    *)
(* type correctness, that no checkpoint passes a missing partition, and    *)
(* that a run that returned published its whole job.                       *)
(*                                                                         *)
(* BackfillInv is inductive.  The clock and the counters of the            *)
(* environment play no part in it, so the work is done on CoreInv, and     *)
(* RunnerMoves reduces a step of runner r that leaves the checkpoints      *)
(* alone to what it does to r itself: the other runners are protected by   *)
(* partitions and manifests only growing.                                  *)
(*                                                                         *)
(* ProvenanceInv adds what is behind each row and what a runner has stored *)
(* of its page so far; with it, every manifest can be traced to raw bytes  *)
(* and, where ids are derived from the record, no page is registered       *)
(* twice.  With one process, AtOrAfter and Sealed keep checkpoints moving  *)
(* forward and a job's manifest the same whenever it is finalised.         *)
(***************************************************************************)
EXTENDS Backfill, FiniteSetTheorems, TLAPS

USE StoreAssumption, BackfillAssumption

CoreInv ==
    /\ StoreTypeOK
    /\ RunnerTypeOK
    /\ CursorShape
    /\ CheckpointCovered
    /\ \A r \in Runners : RunnerInv(r)

\* More partitions store more pages.
LEMMA PagesGrow ==
    ASSUME NEW S, NEW T, S \subseteq T
    PROVE  PagesIn(S) \subseteq PagesIn(T)
BY DEF PagesIn

\* What is below a page stays covered when partitions grow.
LEMMA CoveredGrows ==
    ASSUME NEW j, NEW c, CoveredBelow(j, c), partitions \subseteq partitions'
    PROVE  CoveredBelow(j, c)'
<1>1. PagesIn(partitions) \subseteq PagesIn(partitions)'
  BY PagesGrow DEF PagesIn
<1>2. QED
  BY <1>1 DEF CoveredBelow, Pages

\* The local state a run starts with, and an exception leaves, is typed.
LEMMA FreshType ==
    ASSUME NEW j \in Jobs, NEW c \in Pages, NEW at \in Nat
    PROVE  Fresh(j, c, at) \in Memory
<1>1. NoManifest \in Manifests
  BY DEF NoManifest, Manifests
<1>2. QED
  BY <1>1 DEF Fresh, Memory, Pages

\* The fetch, the row and the payload a runner works on are typed.
LEMMA CurrentType ==
    ASSUME RunnerTypeOK, NEW r \in Runners
    PROVE  /\ mem[r] \in Memory
           /\ FetchOf(r) \in Fetches
           /\ RowOf(r) \in Observations
           /\ PayloadOf(FetchOf(r)) \in Payloads
           /\ RowCount(r) \in Nat
<1>1. mem[r] \in Memory
  BY DEF RunnerTypeOK
<1>2. FetchOf(r) \in Fetches
  BY <1>1 DEF FetchOf, Fetches, Memory, Pages
<1>3. RowOf(r) \in Observations
  BY <1>1, <1>2 DEF RowOf, Observations, Memory
<1>4. PayloadOf(FetchOf(r)) \in Payloads
  BY <1>1 DEF FetchOf, PayloadOf, Payloads, Memory, Pages
<1>5. RowCount(r) \in Nat
  BY <1>1 DEF RowCount, RowsOf, Memory, Pages
<1>6. QED
  BY <1>1, <1>2, <1>3, <1>4, <1>5

\* A runner that does not move keeps its invariant when the tables grow.
LEMMA OthersKeep ==
    ASSUME NEW s \in Runners, RunnerInv(s),
           partitions \subseteq partitions', manifests \subseteq manifests',
           pc'[s] = pc[s], mem'[s] = mem[s]
    PROVE  RunnerInv(s)'
<1>1. PagesIn(partitions) \subseteq PagesIn(partitions)'
  BY PagesGrow DEF PagesIn
<1>2. CursorCovered(s)'
  BY CoveredGrows DEF RunnerInv, CursorCovered
<1>3. PageCovered(s)'
  BY <1>1 DEF RunnerInv, PageCovered
<1>4. ManifestCovered(s)'
  BY CoveredGrows DEF RunnerInv, ManifestCovered, PagesIn, Pages
<1>5. QED
  BY <1>2, <1>3, <1>4 DEF RunnerInv

\* A step of runner r that leaves the checkpoints alone and only adds rows.
LEMMA RunnerMoves ==
    ASSUME CoreInv, NEW r \in Runners,
           StoreTypeOK', UNCHANGED checkpoint,
           partitions \subseteq partitions', manifests \subseteq manifests',
           NEW s \in Idle \cup Steps, pc' = [pc EXCEPT ![r] = s],
           NEW m \in Memory, mem' = [mem EXCEPT ![r] = m],
           RunnerInv(r)'
    PROVE  CoreInv'
<1>1. RunnerTypeOK'
  BY DEF CoreInv, RunnerTypeOK
<1>2. CursorShape'
  BY DEF CoreInv, CursorShape
<1>3. CheckpointCovered'
  BY CoveredGrows DEF CoreInv, CheckpointCovered
<1>4. ASSUME NEW q \in Runners PROVE RunnerInv(q)'
  <2>1. CASE q = r
    BY <2>1
  <2>2. CASE q # r
    <3>1. pc'[q] = pc[q] /\ mem'[q] = mem[q]
      BY <2>2 DEF CoreInv, RunnerTypeOK
    <3>2. QED
      BY <3>1, OthersKeep DEF CoreInv
  <2>3. QED
    BY <2>1, <2>2
<1>5. QED
  BY <1>1, <1>2, <1>3, <1>4 DEF CoreInv
-----------------------------------------------------------------------------
(* One lemma per kind of step. *)

\* An exception or a crash keeps the store and forgets the run.
LEMMA RaiseKeeps ==
    ASSUME CoreInv, NEW r \in Runners, Raise(r)
    PROVE  CoreInv'
<1>1. UNCHANGED storeVars
  BY DEF Raise
<1>2. StoreTypeOK' /\ UNCHANGED <<checkpoint, partitions, manifests>>
  BY <1>1 DEF CoreInv, StoreTypeOK, storeVars, fileVars, tableVars
<1>3. mem[r].job \in Jobs
  BY CurrentType DEF CoreInv, Memory
<1>4. Fresh(mem[r].job, 1, 0) \in Memory
  BY <1>3, FreshType DEF Pages
<1>5. pc' = [pc EXCEPT ![r] = "idle"]
  BY DEF Raise, Goto
<1>6. RunnerInv(r)'
  <2>1. pc'[r] = "idle"
    BY <1>5 DEF CoreInv, RunnerTypeOK
  <2>2. QED
    BY <2>1 DEF RunnerInv, CursorCovered, PageCovered, ManifestCovered,
                Finishing, Steps
<1>7. mem' = [mem EXCEPT ![r] = Fresh(mem[r].job, 1, 0)]
  BY DEF Raise
<1>8. "idle" \in Idle \cup Steps
  BY DEF Idle
<1>9. QED
  BY <1>2, <1>4, <1>5, <1>6, <1>7, <1>8, RunnerMoves

\* The steps of record_fetch and write_partition before save_checkpoint:
\* runner r goes from one of them to another, its job, page, next cursor
\* and manifest unchanged, and is at save_checkpoint only if its page is
\* stored.
Working == Steps \ (Finishing \cup {"fetch", "ckpt_select", "ckpt_upsert"})

\* A runner at work that only adds to the store keeps the invariant.
LEMMA WorkKeeps ==
    ASSUME CoreInv, NEW r \in Runners, pc[r] \in Working \cup {"ckpt_select"},
           StoreTypeOK', UNCHANGED checkpoint,
           partitions \subseteq partitions', manifests \subseteq manifests',
           NEW s \in Working \cup {"ckpt_select", "ckpt_upsert"},
           pc' = [pc EXCEPT ![r] = s],
           NEW m \in Memory, mem' = [mem EXCEPT ![r] = m],
           m.job = mem[r].job, m.cursor = mem[r].cursor, m.next = mem[r].next,
           s \notin Working =>
                <<mem[r].job, mem[r].cursor>> \in PagesIn(partitions)'
    PROVE  CoreInv'
<1>1. pc[r] \in Steps /\ s \in Steps /\ s \notin Finishing
  BY DEF Working, Steps, Finishing
<1>2. pc'[r] = s /\ mem'[r] = m
  BY DEF CoreInv, RunnerTypeOK
<1>3. CursorCovered(r)'
  <2>1. CoveredBelow(mem[r].job, mem[r].cursor)
        /\ mem[r].next <= mem[r].cursor + 1
    BY <1>1 DEF CoreInv, RunnerInv, CursorCovered
  <2>2. CoveredBelow(mem[r].job, mem[r].cursor)'
    <3>1. ASSUME NEW p \in Pages, p < m.cursor
          PROVE  <<m.job, p>> \in PagesIn(partitions)'
      BY <2>1, <3>1 DEF CoveredBelow, PagesIn
    <3>2. QED
      BY <3>1, <1>2 DEF CoveredBelow, Pages
  <2>3. QED
    BY <1>2, <2>1, <2>2 DEF CursorCovered
<1>4. PageCovered(r)'
  BY <1>2 DEF PageCovered, Working
<1>5. ManifestCovered(r)'
  BY <1>1, <1>2 DEF ManifestCovered, Finishing
<1>6. RunnerInv(r)'
  BY <1>3, <1>4, <1>5 DEF RunnerInv
<1>7. s \in Idle \cup Steps
  BY <1>1
<1>8. QED
  BY <1>6, <1>7, RunnerMoves

\* A resumed run starts at a stored cursor, which has covered pages below it.
LEMMA ResumeKeeps ==
    ASSUME CoreInv, NEW r \in Runners, Resume(r)
    PROVE  CoreInv'
<1>1. StoreTypeOK' /\ UNCHANGED <<checkpoint, partitions, manifests>>
  BY DEF Resume, CoreInv, StoreTypeOK, storeVars, fileVars, tableVars
<1>2. PICK j \in Jobs :
        \/ /\ checkpoint[j].completed
           /\ pc' = [pc EXCEPT ![r] = "list"]
           /\ mem' = [mem EXCEPT ![r] = Fresh(j, LastPage, checkpoint[j].at)]
        \/ /\ ~checkpoint[j].completed
           /\ pc' = [pc EXCEPT ![r] = "fetch"]
           /\ mem' = [mem EXCEPT ![r] =
                         Fresh(j, IF checkpoint[j] = NoCheckpoint THEN 1
                                  ELSE checkpoint[j].cursor, 0)]
  BY DEF Resume, Goto
<1>3. checkpoint[j] \in Checkpoints /\ CoveredBelow(j, checkpoint[j].cursor)
  BY DEF CoreInv, StoreTypeOK, CheckpointCovered
<1>4. CASE checkpoint[j].completed
  <2> DEFINE m == Fresh(j, LastPage, checkpoint[j].at)
  <2>1. m \in Memory
    BY <1>3, FreshType DEF Checkpoints, Pages
  <2>2. pc'[r] = "list" /\ mem'[r] = m
    BY <1>2, <1>4 DEF CoreInv, RunnerTypeOK
  <2>3. CoveredBelow(j, LastPage + 1)
    BY <1>3, <1>4 DEF CoreInv, CursorShape
  <2>4. CoveredBelow(j, LastPage)
    BY <2>3 DEF CoveredBelow, Pages
  <2>5. m.job = j /\ m.cursor = LastPage /\ m.next = LastPage
    BY DEF Fresh
  <2>6. CoveredBelow(j, LastPage + 1)' /\ CoveredBelow(j, LastPage)'
    BY <2>3, <2>4, <1>1, CoveredGrows
  <2>7. RunnerInv(r)'
    BY <2>2, <2>5, <2>6
    DEF RunnerInv, CursorCovered, PageCovered, ManifestCovered, Finishing,
        CoveredBelow
  <2>8. "list" \in Idle \cup Steps
    BY DEF Steps
  <2>9. QED
    BY <1>1, <1>2, <1>4, <2>1, <2>7, <2>8, RunnerMoves
<1>5. CASE ~checkpoint[j].completed
  <2>1. PICK c \in Pages :
          /\ c = IF checkpoint[j] = NoCheckpoint THEN 1
                 ELSE checkpoint[j].cursor
          /\ CoveredBelow(j, c)
    <3>1. CASE checkpoint[j] = NoCheckpoint
      BY <3>1 DEF CoveredBelow, Pages
    <3>2. CASE checkpoint[j] # NoCheckpoint
      BY <3>2, <1>3, <1>5 DEF CoreInv, CursorShape, Checkpoints, Pages
    <3>3. QED
      BY <3>1, <3>2
  <2> DEFINE m == Fresh(j, c, 0)
  <2>2. m \in Memory
    BY FreshType
  <2>3. pc'[r] = "fetch" /\ mem'[r] = m
    BY <1>2, <1>5, <2>1 DEF CoreInv, RunnerTypeOK
  <2>4. m.job = j /\ m.cursor = c /\ m.next = c
    BY DEF Fresh
  <2>5. CoveredBelow(j, c)'
    BY <2>1, <1>1, CoveredGrows
  <2>6. RunnerInv(r)'
    BY <2>1, <2>3, <2>4, <2>5
    DEF RunnerInv, CursorCovered, PageCovered, ManifestCovered, Finishing,
        CoveredBelow, Pages
  <2>7. "fetch" \in Idle \cup Steps
    BY DEF Steps
  <2>8. QED
    BY <1>1, <1>2, <1>5, <2>1, <2>2, <2>6, <2>7, RunnerMoves
<1>6. QED
  BY <1>4, <1>5

\* fetch_page never returns a cursor beyond the next page.
LEMMA FetchPageKeeps ==
    ASSUME CoreInv, clock \in Nat, NEW r \in Runners, FetchPage(r)
    PROVE  CoreInv'
<1>1. CASE Raise(r)
  BY <1>1, RaiseKeeps
<1>2. CASE ~Raise(r)
  <2>1. PICK n \in NextCursors(mem[r].cursor) :
          mem' = [mem EXCEPT ![r].seen = @ \cup {mem[r].cursor},
                             ![r].pages = @ + 1,
                             ![r].at = clock,
                             ![r].next = n,
                             ![r].row = 1]
    BY <1>2 DEF FetchPage
  <2> DEFINE m == [mem[r] EXCEPT !.seen = @ \cup {mem[r].cursor},
                                 !.pages = @ + 1,
                                 !.at = clock,
                                 !.next = n,
                                 !.row = 1]
  <2>2. mem[r] \in Memory
    BY CurrentType DEF CoreInv
  <2>3. n \in 1..(LastPage + 1) /\ n <= mem[r].cursor + 1
    BY <2>2 DEF NextCursors, Memory, Pages
  <2>4. mem[r].pages < MaxPages
    BY <1>2 DEF FetchPage
  <2>5. m \in Memory
    <3>1. mem[r].seen \cup {mem[r].cursor} \in SUBSET Pages
      BY <2>2 DEF Memory
    <3>2. mem[r].pages + 1 \in 0..MaxPages
      BY <2>2, <2>4 DEF Memory
    <3>3. QED
      BY <2>2, <2>3, <3>1, <3>2 DEF Memory
  <2>6. mem' = [mem EXCEPT ![r] = m]
    BY <2>1 DEF CoreInv, RunnerTypeOK
  <2>7. pc' = [pc EXCEPT ![r] = "blob_file"] /\ UNCHANGED storeVars
    BY <1>2 DEF FetchPage, Goto
  <2>8. StoreTypeOK' /\ UNCHANGED <<checkpoint, partitions, manifests>>
    BY <2>7 DEF CoreInv, StoreTypeOK, storeVars, fileVars, tableVars
  <2>9. pc'[r] = "blob_file" /\ mem'[r] = m
    BY <2>6, <2>7 DEF CoreInv, RunnerTypeOK
  <2>10. CoveredBelow(mem[r].job, mem[r].cursor)
    BY DEF FetchPage, At, CoreInv, RunnerInv, CursorCovered, Steps
  <2>11. m.job = mem[r].job /\ m.cursor = mem[r].cursor /\ m.next = n
    BY <2>2 DEF Memory
  <2>12. RunnerInv(r)'
    BY <2>3, <2>8, <2>9, <2>10, <2>11
    DEF RunnerInv, CursorCovered, PageCovered, ManifestCovered, Finishing,
        CoveredBelow
  <2>13. "blob_file" \in Idle \cup Steps
    BY DEF Steps
  <2>14. QED
    BY <2>5, <2>6, <2>7, <2>8, <2>12, <2>13, RunnerMoves
<1>3. QED
  BY <1>1, <1>2

-----------------------------------------------------------------------------
(* The store's operations keep its types, and all but the checkpoint's     *)
(* UPSERT leave the checkpoints alone and remove no partition or manifest. *)

Additive ==
    /\ UNCHANGED checkpoint
    /\ partitions \subseteq partitions' /\ manifests \subseteq manifests'

\* A step that leaves the store alone only adds to it, trivially.
LEMMA StoreUnchanged ==
    ASSUME StoreTypeOK, UNCHANGED storeVars
    PROVE  StoreTypeOK' /\ Additive
BY DEF StoreTypeOK, Additive, storeVars, fileVars, tableVars

\* Writing a file touches no table.
LEMMA FileWrites ==
    ASSUME StoreTypeOK,
           \/ \E b \in Payloads : WriteBlobFile(b)
           \/ \E f \in Fetches : WritePartFile(f)
           \/ \E m \in Manifests : WriteManifestFile(m)
    PROVE  StoreTypeOK' /\ Additive
BY DEF WriteBlobFile, WritePartFile, WriteManifestFile,
       StoreTypeOK, Additive, fileVars, tableVars

\* Inserting a row adds to one table and leaves the checkpoints alone.
LEMMA Inserts ==
    ASSUME StoreTypeOK,
           \/ \E b \in Payloads : InsertBlobRow(b)
           \/ \E f \in Fetches : InsertReceiptRow(f) \/ InsertPartitionRow(f)
           \/ \E o \in Observations : InsertObservationRow(o)
           \/ \E m \in Manifests : InsertManifestRow(m)
    PROVE  StoreTypeOK' /\ Additive
BY DEF InsertBlobRow, InsertReceiptRow, InsertPartitionRow,
       InsertObservationRow, InsertManifestRow,
       StoreTypeOK, Additive, fileVars, tableVars

\* record_fetch writes the payload's file and the rows of blob and receipt.
LEMMA RecordFetchKeeps ==
    ASSUME CoreInv, NEW r \in Runners,
           \/ PutRawFile(r) \/ SelectBlob(r) \/ InsertBlob(r)
           \/ SelectReceipt(r) \/ InsertReceipt(r)
    PROVE  CoreInv'
<1>1. CASE Raise(r)
  BY <1>1, RaiseKeeps
<1>2. CASE ~Raise(r)
  <2>1. FetchOf(r) \in Fetches /\ PayloadOf(FetchOf(r)) \in Payloads
        /\ mem[r] \in Memory
    BY CurrentType DEF CoreInv
  <2>2. StoreTypeOK' /\ Additive
    <3>1. CASE PutRawFile(r)
      BY <1>2, <2>1, <3>1, FileWrites DEF PutRawFile, CoreInv
    <3>2. CASE SelectBlob(r) \/ SelectReceipt(r)
      BY <3>2, StoreUnchanged DEF SelectBlob, SelectReceipt, CoreInv
    <3>3. CASE InsertBlob(r)
      BY <1>2, <2>1, <3>3, Inserts DEF InsertBlob, CoreInv
    <3>4. CASE InsertReceipt(r)
      BY <1>2, <2>1, <3>4, Inserts DEF InsertReceipt, CoreInv
    <3>5. QED
      BY <3>1, <3>2, <3>3, <3>4
  <2>3. PICK s \in Working : pc' = [pc EXCEPT ![r] = s]
    BY <1>2 DEF PutRawFile, SelectBlob, InsertBlob, SelectReceipt,
                InsertReceipt, Goto, Working, Steps, Finishing
  <2>4. mem' = [mem EXCEPT ![r] = mem[r]]
    BY <1>2 DEF PutRawFile, SelectBlob, InsertBlob, SelectReceipt,
                InsertReceipt, CoreInv, RunnerTypeOK
  <2>5. pc[r] \in Working
    BY DEF PutRawFile, SelectBlob, InsertBlob, SelectReceipt,
           InsertReceipt, At, Working, Steps, Finishing
  <2>6. QED
    BY <2>1, <2>2, <2>3, <2>4, <2>5, WorkKeeps DEF Additive
<1>3. QED
  BY <1>1, <1>2

\* An empty page goes to save_checkpoint without a partition.
LEMMA CheckProgressKeeps ==
    ASSUME CoreInv, NEW r \in Runners, CheckProgress(r)
    PROVE  CoreInv'
<1>1. CASE Raise(r)
  BY <1>1, RaiseKeeps
<1>2. CASE ~Raise(r)
  <2> DEFINE m == [mem[r] EXCEPT !.empties = EmptiesAfter(r)]
             s == IF RowCount(r) = 0 THEN "ckpt_select" ELSE "obs_select"
  <2>1. mem[r] \in Memory /\ RowCount(r) \in Nat
    BY CurrentType DEF CoreInv
  <2>2. m \in Memory
    <3>1. EmptiesAfter(r) \in 0..MaxEmptyPages
      BY <1>2, <2>1 DEF CheckProgress, EmptiesAfter, Memory
    <3>2. QED
      BY <2>1, <3>1 DEF Memory
  <2>3. mem' = [mem EXCEPT ![r] = m] /\ pc' = [pc EXCEPT ![r] = s]
    BY <1>2 DEF CheckProgress, Goto, CoreInv, RunnerTypeOK
  <2>4. StoreTypeOK' /\ Additive
    BY <1>2, StoreUnchanged DEF CheckProgress, CoreInv
  <2>5. m.job = mem[r].job /\ m.cursor = mem[r].cursor /\ m.next = mem[r].next
    BY <2>1 DEF Memory
  <2>6. s \notin Working =>
            <<mem[r].job, mem[r].cursor>> \in PagesIn(partitions)'
    <3>1. ASSUME RowCount(r) = 0
          PROVE  <<mem[r].job, mem[r].cursor>> \in Empties
      BY <2>1, <3>1 DEF Empties, Payloads, RowCount, RowsOf, Memory
    <3>2. QED
      BY <3>1 DEF PagesIn, Working, Steps, Finishing
  <2>7. pc[r] \in Working
    BY DEF CheckProgress, At, Working, Steps, Finishing
  <2>8. s \in Working \cup {"ckpt_select", "ckpt_upsert"}
    BY DEF Working, Steps, Finishing
  <2>9. QED
    BY <2>2, <2>3, <2>4, <2>5, <2>6, <2>7, <2>8, WorkKeeps DEF Additive
<1>3. QED
  BY <1>1, <1>2

\* write_partition saves the rows one by one, then writes the file.
LEMMA SaveRowsKeeps ==
    ASSUME CoreInv, NEW r \in Runners,
           \/ SelectObservation(r) \/ InsertObservation(r)
           \/ PutPartitionFile(r)
    PROVE  CoreInv'
<1>1. CASE Raise(r)
  BY <1>1, RaiseKeeps
<1>2. CASE ~Raise(r)
  <2>1. FetchOf(r) \in Fetches /\ RowOf(r) \in Observations
        /\ mem[r] \in Memory
    BY CurrentType DEF CoreInv
  <2>2. StoreTypeOK' /\ Additive
    <3>1. CASE SelectObservation(r)
      BY <1>2, <3>1, StoreUnchanged DEF SelectObservation, CoreInv
    <3>2. CASE InsertObservation(r)
      BY <1>2, <2>1, <3>2, Inserts DEF InsertObservation, CoreInv
    <3>3. CASE PutPartitionFile(r)
      BY <1>2, <2>1, <3>3, FileWrites DEF PutPartitionFile, CoreInv
    <3>4. QED
      BY <3>1, <3>2, <3>3
  <2>3. PICK s \in Working : pc' = [pc EXCEPT ![r] = s]
    BY <1>2 DEF SelectObservation, InsertObservation, PutPartitionFile,
                RowSaved, Goto, Working, Steps, Finishing
  <2>4. PICK i \in {mem[r].row, mem[r].row + 1} :
          mem' = [mem EXCEPT ![r] = [mem[r] EXCEPT !.row = i]]
    <3>1. UNCHANGED mem \/ mem' = [mem EXCEPT ![r].row = @ + 1]
      BY <1>2 DEF SelectObservation, InsertObservation, PutPartitionFile,
                  RowSaved
    <3>2. mem = [mem EXCEPT ![r] = [mem[r] EXCEPT !.row = mem[r].row]]
      BY <2>1 DEF CoreInv, RunnerTypeOK, Memory
    <3>3. QED
      BY <3>1, <3>2 DEF CoreInv, RunnerTypeOK
  <2> DEFINE m == [mem[r] EXCEPT !.row = i]
  <2>5. m \in Memory /\ m.job = mem[r].job /\ m.cursor = mem[r].cursor
        /\ m.next = mem[r].next
    BY <2>1 DEF Memory
  <2>6. pc[r] \in Working
    BY DEF SelectObservation, InsertObservation, PutPartitionFile, At,
           Working, Steps, Finishing
  <2>7. QED
    BY <2>2, <2>3, <2>4, <2>5, <2>6, WorkKeeps DEF Additive
<1>3. QED
  BY <1>1, <1>2

\* save_checkpoint is reached with the partition in the catalog.
LEMMA RegisterKeeps ==
    ASSUME CoreInv, NEW r \in Runners,
           SelectPartition(r) \/ InsertPartition(r)
    PROVE  CoreInv'
<1>1. CASE Raise(r)
  BY <1>1, RaiseKeeps
<1>2. CASE ~Raise(r)
  <2>1. FetchOf(r) \in Fetches /\ mem[r] \in Memory
    BY CurrentType DEF CoreInv
  <2>2. StoreTypeOK' /\ Additive
    <3>1. CASE SelectPartition(r)
      BY <3>1, StoreUnchanged DEF SelectPartition, CoreInv
    <3>2. CASE InsertPartition(r)
      BY <1>2, <2>1, <3>2, Inserts DEF InsertPartition, CoreInv
    <3>3. QED
      BY <3>1, <3>2
  <2>3. PICK s \in {"part_insert", "ckpt_select"} :
          /\ pc' = [pc EXCEPT ![r] = s]
          /\ s = "ckpt_select" => FetchOf(r) \in partitions'
    BY <1>2 DEF SelectPartition, InsertPartition, InsertPartitionRow, Goto,
                storeVars, tableVars
  <2>4. s \notin Working =>
            <<mem[r].job, mem[r].cursor>> \in PagesIn(partitions)'
    BY <2>3 DEF PagesIn, PayloadOf, FetchOf, Working, Steps, Finishing
  <2>5. mem' = [mem EXCEPT ![r] = mem[r]]
    BY <1>2 DEF SelectPartition, InsertPartition, CoreInv, RunnerTypeOK
  <2>6. pc[r] \in Working
    BY DEF SelectPartition, InsertPartition, At, Working, Steps, Finishing
  <2>7. s \in Working \cup {"ckpt_select", "ckpt_upsert"}
    BY DEF Working, Steps, Finishing
  <2>8. QED
    BY <2>1, <2>2, <2>3, <2>4, <2>5, <2>6, <2>7, WorkKeeps DEF Additive
<1>3. QED
  BY <1>1, <1>2

\* Reading the completed flag moves nothing.
LEMMA SelectCheckpointKeeps ==
    ASSUME CoreInv, NEW r \in Runners, SelectCheckpoint(r)
    PROVE  CoreInv'
<1>1. CASE Raise(r)
  BY <1>1, RaiseKeeps
<1>2. CASE ~Raise(r)
  <2>1. mem[r] \in Memory
    BY CurrentType DEF CoreInv
  <2>2. StoreTypeOK' /\ Additive /\ PagesIn(partitions)' = PagesIn(partitions)
    BY <1>2, StoreUnchanged
    DEF SelectCheckpoint, CoreInv, storeVars, tableVars, PagesIn
  <2>3. <<mem[r].job, mem[r].cursor>> \in PagesIn(partitions)
    BY DEF SelectCheckpoint, At, CoreInv, RunnerInv, PageCovered
  <2>4. pc' = [pc EXCEPT ![r] = "ckpt_upsert"]
        /\ mem' = [mem EXCEPT ![r] = mem[r]]
    BY <1>2 DEF SelectCheckpoint, Goto, CoreInv, RunnerTypeOK
  <2>5. pc[r] = "ckpt_select"
    BY DEF SelectCheckpoint, At
  <2>6. QED
    BY <2>1, <2>2, <2>3, <2>4, <2>5, WorkKeeps DEF Additive
<1>3. QED
  BY <1>1, <1>2

\* The checkpoint moves over a stored page only, to the page after it or
\* back.
LEMMA UpsertCheckpointKeeps ==
    ASSUME CoreInv, NEW r \in Runners, UpsertCheckpoint(r)
    PROVE  CoreInv'
<1> DEFINE j == mem[r].job
           c == mem[r].cursor
           n == mem[r].next
           done == c = LastPage
           to == IF done THEN LastPage + 1 ELSE n
<1>1. mem[r] \in Memory /\ pc[r] = "ckpt_upsert" /\ RunnerInv(r)
  BY CurrentType DEF CoreInv, UpsertCheckpoint, At
<1>2. j \in Jobs /\ c \in Pages /\ n \in 1..(LastPage + 1) /\ n <= c + 1
      /\ mem[r].at \in Nat
  BY <1>1 DEF RunnerInv, CursorCovered, Memory, Steps
<1>3. CoveredBelow(j, c + 1)
  BY <1>1, <1>2 DEF RunnerInv, CursorCovered, PageCovered, CoveredBelow,
                    Steps, Pages
<1>4. to \in 1..(LastPage + 1) /\ to <= c + 1 /\ (done <=> to = LastPage + 1)
  BY <1>2 DEF Pages
<1>5. UNCHANGED <<blobFiles, partFiles, badBlobs, badParts, rawBlobs,
                  receipts, observations, partitions, manifestFiles,
                  manifests>>
  BY DEF UpsertCheckpoint, UpsertCheckpointRow, fileVars
<1>6. PICK b \in BOOLEAN :
        /\ b <=> done
        /\ checkpoint' = [checkpoint EXCEPT
                            ![j] = [cursor |-> to, completed |-> b,
                                    at |-> mem[r].at]]
  <2>1. \E b \in BOOLEAN : b = done
    BY Zenon
  <2>2. PICK b \in BOOLEAN : b = done
    BY <2>1
  <2>3. b <=> done
    BY <2>2
  <2>4. checkpoint' = [checkpoint EXCEPT
                         ![j] = [cursor |-> to, completed |-> b,
                                 at |-> mem[r].at]]
    BY <2>2 DEF UpsertCheckpoint, UpsertCheckpointRow, JobOf, PageCompleted
  <2>5. QED
    BY <2>3, <2>4
<1>7. StoreTypeOK'
  <2>1. checkpoint' \in [Jobs -> Checkpoints]
    BY <1>2, <1>4, <1>6 DEF CoreInv, StoreTypeOK, Checkpoints
  <2>2. QED
    BY <2>1, <1>5 DEF CoreInv, StoreTypeOK
<1>8. CursorShape'
  <2>1. ASSUME NEW k \in Jobs
        PROVE  /\ checkpoint'[k].cursor = 0 => checkpoint'[k] = NoCheckpoint
               /\ checkpoint'[k].completed <=>
                    checkpoint'[k].cursor = LastPage + 1
    <3>1. CASE k = j
      <4>1. checkpoint'[k] = [cursor |-> to, completed |-> b,
                              at |-> mem[r].at]
        BY <3>1, <1>2, <1>6 DEF CoreInv, StoreTypeOK
      <4>2. checkpoint'[k].cursor = to
        BY <4>1
      <4>3. checkpoint'[k].completed <=> done
        BY <4>1, <1>6
      <4>4. QED
        BY <4>2, <4>3, <1>4
    <3>2. CASE k # j
      <4>1. checkpoint'[k] = checkpoint[k]
        BY <3>2, <1>6 DEF CoreInv, StoreTypeOK
      <4>2. QED
        BY <4>1 DEF CoreInv, CursorShape
    <3>3. QED
      BY <3>1, <3>2
  <2>2. QED
    BY <2>1 DEF CursorShape
<1>9. CheckpointCovered'
  <2>1. ASSUME NEW k \in Jobs, NEW p \in Pages, p < checkpoint'[k].cursor
        PROVE  <<k, p>> \in PagesIn(partitions)
    <3>1. CASE k = j
      BY <3>1, <2>1, <1>2, <1>3, <1>4, <1>6
      DEF CoreInv, StoreTypeOK, CoveredBelow, Pages
    <3>2. CASE k # j
      BY <3>2, <2>1, <1>6
      DEF CoreInv, StoreTypeOK, CheckpointCovered, CoveredBelow
    <3>3. QED
      BY <3>1, <3>2
  <2>2. QED
    BY <2>1, <1>5 DEF CheckpointCovered, CoveredBelow, PagesIn
<1>10. PICK s \in {"list", "fetch"}, m \in Memory :
         /\ pc' = [pc EXCEPT ![r] = s] /\ mem' = [mem EXCEPT ![r] = m]
         /\ m.job = j
         /\ s = "list" => done /\ m.cursor = c /\ m.next = n
         /\ s = "fetch" => m.cursor = n /\ m.next = n
  <2>1. CASE done
    <3>1. pc' = [pc EXCEPT ![r] = "list"] /\ mem' = [mem EXCEPT ![r] = mem[r]]
      BY <2>1 DEF UpsertCheckpoint, PageCompleted, Goto, CoreInv, RunnerTypeOK
    <3>2. QED
      BY <2>1, <3>1, <1>1
  <2>2. CASE ~done
    <3> DEFINE m == [mem[r] EXCEPT !.cursor = n]
    <3>1. pc' = [pc EXCEPT ![r] = "fetch"] /\ mem' = [mem EXCEPT ![r] = m]
      BY <2>2 DEF UpsertCheckpoint, PageCompleted, Goto, CoreInv, RunnerTypeOK
    <3>2. n \in Pages
      BY <2>2, <1>2 DEF Pages
    <3>3. m \in Memory /\ m.job = j /\ m.cursor = n /\ m.next = n
      BY <1>1, <3>2 DEF Memory
    <3>4. QED
      BY <3>1, <3>3
  <2>3. QED
    BY <2>1, <2>2
<1>11. RunnerTypeOK'
  BY <1>10 DEF CoreInv, RunnerTypeOK, Steps
<1>12. pc'[r] = s /\ mem'[r] = m
  BY <1>10 DEF CoreInv, RunnerTypeOK
<1>13. RunnerInv(r)'
  <2>1. ASSUME NEW p \in Pages, p < m.cursor \/ s = "list"
        PROVE  <<m.job, p>> \in PagesIn(partitions)'
    BY <2>1, <1>2, <1>3, <1>5, <1>10 DEF CoveredBelow, PagesIn, Pages
  <2>2. m.next <= m.cursor + 1
    BY <1>2, <1>10 DEF Pages
  <2>3. QED
    BY <2>1, <2>2, <1>10, <1>12
    DEF RunnerInv, CursorCovered, PageCovered, ManifestCovered, CoveredBelow,
        Finishing, Steps
<1>14. ASSUME NEW q \in Runners PROVE RunnerInv(q)'
  <2>1. CASE q = r
    BY <2>1, <1>13
  <2>2. CASE q # r
    <3>1. pc'[q] = pc[q] /\ mem'[q] = mem[q]
      BY <2>2, <1>10 DEF CoreInv, RunnerTypeOK
    <3>2. QED
      BY <3>1, <1>5, OthersKeep DEF CoreInv
  <2>3. QED
    BY <2>1, <2>2
<1>15. QED
  BY <1>7, <1>8, <1>9, <1>11, <1>14 DEF CoreInv

-----------------------------------------------------------------------------
(* finalize_manifest. *)

\* What is listed are all registered partitions, and nothing removes any.
LEMMA FinalizeKeeps ==
    ASSUME CoreInv, NEW r \in Runners,
           \/ ListPartitions(r) \/ PutManifestFile(r)
           \/ SelectManifest(r) \/ InsertManifest(r)
    PROVE  CoreInv'
<1>1. CASE Raise(r)
  BY <1>1, RaiseKeeps
<1>2. CASE ~Raise(r)
  <2>1. mem[r] \in Memory /\ mem[r].manifest \in Manifests /\ mem[r].at \in Nat
    BY CurrentType DEF CoreInv, Memory
  <2>2. pc[r] \in Finishing \ {"returned"} /\ RunnerInv(r)
    BY DEF CoreInv, ListPartitions, PutManifestFile, SelectManifest,
           InsertManifest, At, Finishing
  <2>3. /\ CoveredBelow(mem[r].job, LastPage + 1)
        /\ CoveredBelow(mem[r].job, mem[r].cursor)
        /\ mem[r].next <= mem[r].cursor + 1
    BY <2>2 DEF RunnerInv, ManifestCovered, CursorCovered, Finishing, Steps
  <2>4. StoreTypeOK' /\ Additive
    <3>1. CASE ListPartitions(r) \/ SelectManifest(r)
      BY <1>2, <3>1, StoreUnchanged DEF ListPartitions, SelectManifest, CoreInv
    <3>2. CASE PutManifestFile(r)
      BY <2>1, <3>2, FileWrites DEF PutManifestFile, CoreInv
    <3>3. CASE InsertManifest(r)
      BY <1>2, <2>1, <3>3, Inserts DEF InsertManifest, CoreInv
    <3>4. QED
      BY <3>1, <3>2, <3>3
  <2>5. PICK s \in Finishing \ {"list"}, m \in Memory :
          /\ pc' = [pc EXCEPT ![r] = s] /\ mem' = [mem EXCEPT ![r] = m]
          /\ m.job = mem[r].job /\ m.cursor = mem[r].cursor
          /\ m.next = mem[r].next
          /\ m.manifest.parts \subseteq partitions
          /\ {m.job} \X Pages \subseteq PagesIn(m.manifest.parts)
          /\ s = "returned" => m.manifest \in manifests'
    <3>1. CASE ListPartitions(r)
      <4> DEFINE m == [mem[r] EXCEPT !.manifest =
                         [created |-> mem[r].at, parts |-> partitions]]
      <4>1. m \in Memory
        BY <2>1 DEF CoreInv, StoreTypeOK, Memory, Manifests
      <4>2. m.job = mem[r].job /\ m.cursor = mem[r].cursor
            /\ m.next = mem[r].next /\ m.manifest.parts = partitions
        BY <2>1 DEF Memory
      <4>3. pc' = [pc EXCEPT ![r] = "man_file"]
            /\ mem' = [mem EXCEPT ![r] = m]
        BY <1>2, <3>1 DEF ListPartitions, Goto, CoreInv, RunnerTypeOK
      <4>4. {mem[r].job} \X Pages \subseteq PagesIn(partitions)
        BY <2>3 DEF CoveredBelow, Pages
      <4>5. "man_file" \in Finishing \ {"list"}
        BY DEF Finishing
      <4> USE <4>1, <4>5
      <4>6. WITNESS "man_file" \in Finishing \ {"list"}, m \in Memory
      <4>7. QED
        BY <4>2, <4>3, <4>4
    <3>2. CASE ~ListPartitions(r)
      <4>1. PICK s \in Finishing \ {"list"} :
              /\ pc' = [pc EXCEPT ![r] = s]
              /\ s = "returned" => mem[r].manifest \in manifests'
        BY <1>2, <3>2 DEF PutManifestFile, SelectManifest, InsertManifest,
           InsertManifestRow, Goto, Finishing, storeVars, tableVars
      <4>2. mem' = [mem EXCEPT ![r] = mem[r]]
        BY <1>2, <3>2 DEF PutManifestFile, SelectManifest, InsertManifest,
           CoreInv, RunnerTypeOK
      <4>3. pc[r] # "list"
        BY <3>2 DEF PutManifestFile, SelectManifest, InsertManifest, At
      <4>4. /\ mem[r].manifest.parts \subseteq partitions
            /\ {mem[r].job} \X Pages \subseteq PagesIn(mem[r].manifest.parts)
        BY <2>2, <4>3 DEF RunnerInv, ManifestCovered
      <4> USE <2>1
      <4>5. WITNESS s \in Finishing \ {"list"}, mem[r] \in Memory
      <4>6. QED
        BY <4>1, <4>2, <4>4
    <3>3. QED
      BY <3>1, <3>2
  <2>6. pc'[r] = s /\ mem'[r] = m
    BY <2>5 DEF CoreInv, RunnerTypeOK
  <2>7. /\ CoveredBelow(mem[r].job, LastPage + 1)'
           <=> \A p \in Pages : p < LastPage + 1 =>
                   <<m.job, p>> \in PagesIn(partitions)'
        /\ PagesIn(partitions) \subseteq PagesIn(partitions)'
    BY <2>4, <2>5, <2>6 DEF CoveredBelow, Additive, PagesIn, Pages
  <2>8. RunnerInv(r)'
    <3>1. CursorCovered(r)'
      BY <2>3, <2>5, <2>6, <2>7 DEF CursorCovered, CoveredBelow, Pages
    <3>2. PageCovered(r)'
      BY <2>5, <2>6 DEF PageCovered, Finishing
    <3>3. ManifestCovered(r)'
      BY <2>3, <2>4, <2>5, <2>6, <2>7
      DEF ManifestCovered, CoveredBelow, Additive, PagesIn, Pages
    <3>4. QED
      BY <3>1, <3>2, <3>3 DEF RunnerInv
  <2>9. s \in Idle \cup Steps
    BY DEF Finishing, Idle, Steps
  <2>10. QED
    BY <2>4, <2>5, <2>8, <2>9, RunnerMoves DEF Additive
<1>3. QED
  BY <1>1, <1>2
-----------------------------------------------------------------------------
(* The theorems. *)

\* The empty store and idle runners satisfy the invariant.
LEMMA InitInv == Init => BackfillInv
<1> SUFFICES ASSUME Init PROVE BackfillInv
  OBVIOUS
<1>1. StoreTypeOK
  BY DEF Init, StoreInit, StoreTypeOK, NoCheckpoint, Checkpoints
<1>2. RunnerTypeOK
  <2>1. \A j \in Jobs : Fresh(j, 1, 0) \in Memory
    BY FreshType DEF Pages
  <2>2. QED
    BY <2>1 DEF Init, RunnerTypeOK, Idle
<1>3. CursorShape
  BY DEF Init, StoreInit, CursorShape, NoCheckpoint
<1>4. CheckpointCovered
  BY DEF Init, StoreInit, CheckpointCovered, CoveredBelow, NoCheckpoint, Pages
<1>5. \A r \in Runners : RunnerInv(r)
  BY DEF Init, RunnerInv, CursorCovered, PageCovered, ManifestCovered, Steps,
         Finishing
<1>6. QED
  BY <1>1, <1>2, <1>3, <1>4, <1>5 DEF Init, BackfillInv, TypeOK

\* Every step of the runners, the clock and the disk preserves it.
LEMMA NextInv == BackfillInv /\ [Next]_vars => BackfillInv'
<1> SUFFICES ASSUME BackfillInv, [Next]_vars PROVE BackfillInv'
  OBVIOUS
<1>1. CoreInv /\ clock \in Nat /\ crashes \in Nat /\ damages \in Nat
  BY DEF BackfillInv, TypeOK, CoreInv
<1>2. SUFFICES CoreInv' /\ (clock \in Nat /\ crashes \in Nat /\ damages \in Nat)'
  BY DEF BackfillInv, TypeOK, CoreInv
<1>3. ASSUME NEW r \in Runners, RunnerStep(r)
      PROVE  CoreInv' /\ Quiet
  <2>1. CASE Resume(r)
    BY <1>1, <2>1, ResumeKeeps DEF Resume
  <2>2. CASE FetchPage(r)
    BY <1>1, <2>2, FetchPageKeeps DEF FetchPage
  <2>3. CASE \/ PutRawFile(r) \/ SelectBlob(r) \/ InsertBlob(r)
             \/ SelectReceipt(r) \/ InsertReceipt(r)
    BY <1>1, <2>3, RecordFetchKeeps
    DEF PutRawFile, SelectBlob, InsertBlob, SelectReceipt, InsertReceipt
  <2>4. CASE CheckProgress(r)
    BY <1>1, <2>4, CheckProgressKeeps DEF CheckProgress
  <2>5. CASE \/ SelectObservation(r) \/ InsertObservation(r)
             \/ PutPartitionFile(r)
    BY <1>1, <2>5, SaveRowsKeeps
    DEF SelectObservation, InsertObservation, PutPartitionFile
  <2>6. CASE SelectPartition(r) \/ InsertPartition(r)
    BY <1>1, <2>6, RegisterKeeps DEF SelectPartition, InsertPartition
  <2>7. CASE SelectCheckpoint(r)
    BY <1>1, <2>7, SelectCheckpointKeeps DEF SelectCheckpoint
  <2>8. CASE UpsertCheckpoint(r)
    BY <1>1, <2>8, UpsertCheckpointKeeps DEF UpsertCheckpoint
  <2>9. CASE \/ ListPartitions(r) \/ PutManifestFile(r)
             \/ SelectManifest(r) \/ InsertManifest(r)
    BY <1>1, <2>9, FinalizeKeeps
    DEF ListPartitions, PutManifestFile, SelectManifest, InsertManifest
  <2>10. QED
    BY <1>3, <2>1, <2>2, <2>3, <2>4, <2>5, <2>6, <2>7, <2>8, <2>9
    DEF RunnerStep
<1>4. CASE \E r \in Runners : RunnerStep(r)
  BY <1>1, <1>3, <1>4 DEF Quiet
<1>5. CASE \E r \in Runners : Crash(r)
  BY <1>1, <1>5, RaiseKeeps DEF Crash
<1>6. CASE Tick \/ UNCHANGED vars
  <2>1. UNCHANGED <<storeVars, pc, mem>>
    BY <1>6 DEF Tick, vars
  <2>2. CoreInv'
    BY <1>1, <2>1
    DEF CoreInv, StoreTypeOK, RunnerTypeOK, CursorShape, CheckpointCovered,
        RunnerInv, CursorCovered, PageCovered, ManifestCovered, CoveredBelow,
        PagesIn, storeVars, fileVars, tableVars
  <2>3. QED
    BY <1>1, <1>6, <2>2 DEF Tick, vars
<1>7. CASE DamageFile
  <2>1. StoreTypeOK' /\ UNCHANGED <<tableVars, pc, mem>>
    BY <1>1, <1>7
    DEF DamageFile, Damage, CoreInv, StoreTypeOK, tableVars
  <2>2. CoreInv'
    BY <1>1, <2>1
    DEF CoreInv, RunnerTypeOK, CursorShape, CheckpointCovered,
        RunnerInv, CursorCovered, PageCovered, ManifestCovered, CoveredBelow,
        PagesIn, tableVars
  <2>3. QED
    BY <1>1, <1>7, <2>2 DEF DamageFile
<1>8. QED
  BY <1>4, <1>5, <1>6, <1>7 DEF Next

\* The invariant holds in every reachable state.
THEOREM InvariantHolds == Spec => []BackfillInv
BY InitInv, NextInv, PTL DEF Spec

\* Variables and local state always have their types: in particular no
\* resumed run starts from a cursor that is not a page.
THEOREM TypeCorrect == Spec => []TypeOK
<1>1. BackfillInv => TypeOK
  BY DEF BackfillInv
<1>2. QED
  BY <1>1, InvariantHolds, PTL

\* For any number of jobs, pages, runners and crashes, a checkpoint never
\* passes a page whose partition is not registered.
THEOREM CheckpointNeverAhead == Spec => []CheckpointCovered
<1>1. BackfillInv => CheckpointCovered
  BY DEF BackfillInv
<1>2. QED
  BY <1>1, InvariantHolds, PTL

\* A run that returned has published every page of its job.
THEOREM ReturnedComplete == Spec => []ManifestComplete
<1>1. BackfillInv => ManifestComplete
  BY DEF BackfillInv, RunnerInv, ManifestCovered, ManifestComplete, Finishing
<1>2. QED
  BY <1>1, InvariantHolds, PTL

-----------------------------------------------------------------------------
(* Backfill implements DurableProgress: registering a partition, storing a *)
(* checkpoint and inserting a manifest are its three actions, everything   *)
(* else stutters.                                                          *)

AbstractlyUnchanged == UNCHANGED <<partitions, checkpoint, manifests>>

\* A step that touches none of the three tables is a stutter above.
LEMMA StutterMaps ==
    ASSUME AbstractlyUnchanged
    PROVE  UNCHANGED Progress!vars
BY DEF AbstractlyUnchanged, Progress!vars, PagesIn

\* The steps that touch none of the three tables.
LEMMA QuietSteps ==
    ASSUME NEW r \in Runners,
           \/ Raise(r) \/ Resume(r) \/ FetchPage(r)
           \/ PutRawFile(r) \/ SelectBlob(r) \/ InsertBlob(r)
           \/ SelectReceipt(r) \/ InsertReceipt(r) \/ CheckProgress(r)
           \/ SelectObservation(r) \/ InsertObservation(r)
           \/ PutPartitionFile(r) \/ SelectPartition(r)
           \/ SelectCheckpoint(r)
           \/ ListPartitions(r) \/ PutManifestFile(r) \/ SelectManifest(r)
    PROVE  AbstractlyUnchanged
<1>1. UNCHANGED storeVars => AbstractlyUnchanged
  BY DEF storeVars, tableVars, AbstractlyUnchanged
<1>2. Raise(r) => AbstractlyUnchanged
  BY <1>1 DEF Raise
<1>3. CASE Resume(r) \/ FetchPage(r) \/ SelectBlob(r) \/ SelectReceipt(r)
           \/ CheckProgress(r) \/ SelectObservation(r) \/ SelectPartition(r)
           \/ SelectCheckpoint(r) \/ ListPartitions(r) \/ SelectManifest(r)
  BY <1>1, <1>2, <1>3
  DEF Resume, FetchPage, SelectBlob, SelectReceipt, CheckProgress,
      SelectObservation, SelectPartition, SelectCheckpoint, ListPartitions,
      SelectManifest
<1>4. CASE PutRawFile(r) \/ PutPartitionFile(r) \/ PutManifestFile(r)
  BY <1>2, <1>4
  DEF PutRawFile, PutPartitionFile, PutManifestFile, WriteBlobFile,
      WritePartFile, WriteManifestFile, tableVars, AbstractlyUnchanged
<1>5. CASE InsertBlob(r) \/ InsertReceipt(r) \/ InsertObservation(r)
  BY <1>2, <1>5
  DEF InsertBlob, InsertReceipt, InsertObservation, InsertBlobRow,
      InsertReceiptRow, InsertObservationRow, AbstractlyUnchanged
<1>6. QED
  BY <1>2, <1>3, <1>4, <1>5

\* Registering a partition is Persist of its page.
LEMMA PersistMaps ==
    ASSUME CoreInv, NEW r \in Runners, InsertPartition(r), ~Raise(r)
    PROVE  Progress!Next
<1> DEFINE f == FetchOf(r)
<1>1. PayloadOf(f) \in Jobs \X Pages
  BY CurrentType DEF CoreInv, Payloads
<1>2. f.job \in Jobs /\ f.page \in Pages /\ PayloadOf(f) = <<f.job, f.page>>
  BY <1>1 DEF PayloadOf
<1>3. partitions' = partitions \cup {f} /\ UNCHANGED <<checkpoint, manifests>>
  BY DEF InsertPartition, InsertPartitionRow
<1>4. PagesIn(partitions)' = PagesIn(partitions) \cup {PayloadOf(f)}
  BY <1>3 DEF PagesIn
<1>5. Progress!Persist(f.job, f.page)
  BY <1>2, <1>3, <1>4 DEF Progress!Persist, PagesIn
<1>6. QED
  BY <1>2, <1>5 DEF Progress!Next, Progress!Pages, Pages

\* The checkpoint's UPSERT is Advance: the pages before it are stored.
LEMMA AdvanceMaps ==
    ASSUME CoreInv, NEW r \in Runners, UpsertCheckpoint(r)
    PROVE  Progress!Next
<1> DEFINE cursorOf == [k \in Jobs |-> checkpoint[k].cursor]
<1>1. PICK j \in Jobs, to \in 1..(LastPage + 1) :
        /\ j = mem[r].job
        /\ to = IF mem[r].cursor = LastPage THEN LastPage + 1
                ELSE mem[r].next
  BY CurrentType DEF CoreInv, Memory
<1>2. UNCHANGED <<partitions, manifests>>
  BY DEF UpsertCheckpoint, UpsertCheckpointRow
<1>3. \E b, at : checkpoint' = [checkpoint EXCEPT
                     ![j] = [cursor |-> to, completed |-> b, at |-> at]]
  BY <1>1 DEF UpsertCheckpoint, UpsertCheckpointRow, JobOf, PageCompleted
<1>4. checkpoint'[j].cursor = to
      /\ \A k \in Jobs \ {j} : checkpoint'[k] = checkpoint[k]
  BY <1>1, <1>3 DEF CoreInv, StoreTypeOK
<1>5. cursorOf' = [cursorOf EXCEPT ![j] = to]
  BY <1>1, <1>4
<1>6. CoveredBelow(j, checkpoint'[j].cursor)
  <2>1. CheckpointCovered'
    BY UpsertCheckpointKeeps DEF CoreInv
  <2>2. \A p \in Pages : p < checkpoint'[j].cursor
                            => <<j, p>> \in PagesIn(partitions)'
    BY <1>1, <2>1 DEF CheckpointCovered, CoveredBelow
  <2>3. QED
    BY <1>2, <2>2 DEF CoveredBelow, PagesIn
<1>7. \A p \in Pages : p < to => <<j, p>> \in PagesIn(partitions)
  BY <1>4, <1>6 DEF CoveredBelow
<1>8. Progress!Advance(j, to)
  BY <1>2, <1>5, <1>7 DEF Progress!Advance, Progress!Pages, Pages, PagesIn
<1>9. QED
  BY <1>8 DEF Progress!Next

\* The manifest's INSERT is Publish of the pages it lists.
LEMMA PublishMaps ==
    ASSUME CoreInv, NEW r \in Runners, InsertManifest(r), ~Raise(r)
    PROVE  Progress!Next
<1> DEFINE m == mem[r].manifest
           S == PagesIn(m.parts)
<1>1. mem[r].job \in Jobs /\ m \in Manifests
  BY CurrentType DEF CoreInv, Memory
<1>2. manifests' = manifests \cup {m} /\ UNCHANGED <<partitions, checkpoint>>
  BY DEF InsertManifest, InsertManifestRow
<1>3. m.parts \subseteq partitions /\ {mem[r].job} \X Pages \subseteq S
  BY DEF CoreInv, RunnerInv, ManifestCovered, InsertManifest, At, Finishing
<1>4. S \subseteq PagesIn(partitions)
  BY <1>3, PagesGrow
<1>5. PagesIn(partitions) \subseteq Jobs \X Pages
  BY DEF CoreInv, StoreTypeOK, PagesIn, Empties, Payloads, PayloadOf, Fetches
<1>6. {PagesIn(n.parts) : n \in manifests'}
        = {PagesIn(n.parts) : n \in manifests} \cup {S}
  BY <1>2
<1>7. Progress!Publish(S)
  BY <1>1, <1>2, <1>3, <1>4, <1>6
  DEF Progress!Publish, Progress!Pages, Pages, PagesIn
<1>8. S \in SUBSET (Jobs \X Progress!Pages)
  BY <1>4, <1>5 DEF Progress!Pages, Pages
<1> HIDE DEF S
<1>9. QED
  BY <1>7, <1>8 DEF Progress!Next

\* Every behaviour of the backfill, whatever its runners, crashes and bounds,
\* is one of DurableProgress.
THEOREM Implementation == Spec => ImplementsProgress
<1>1. Init => Progress!Init
  <2> SUFFICES ASSUME Init PROVE Progress!Init
    OBVIOUS
  <2>1. partitions = {} /\ manifests = {}
    BY DEF Init, StoreInit
  <2>2. \A j \in Jobs : checkpoint[j].cursor = 0
    BY DEF Init, StoreInit, NoCheckpoint
  <2>3. QED
    BY <2>1, <2>2 DEF Progress!Init, PagesIn
<1>2. BackfillInv /\ [Next]_vars => [Progress!Next]_(Progress!vars)
  <2> SUFFICES ASSUME BackfillInv, [Next]_vars
               PROVE  [Progress!Next]_(Progress!vars)
    OBVIOUS
  <2>1. CoreInv
    BY DEF BackfillInv, TypeOK, CoreInv
  <2>2. CASE Tick \/ DamageFile \/ UNCHANGED vars
    BY <2>2, StutterMaps
    DEF Tick, DamageFile, Damage, vars, storeVars, tableVars,
        AbstractlyUnchanged
  <2>3. ASSUME NEW r \in Runners, RunnerStep(r) \/ Crash(r)
        PROVE  [Progress!Next]_(Progress!vars)
    <3>1. CASE Raise(r) \/ Crash(r)
      BY <3>1, QuietSteps, StutterMaps DEF Crash
    <3>2. CASE ~Raise(r) /\ InsertPartition(r)
      BY <3>2, <2>1, PersistMaps
    <3>3. CASE UpsertCheckpoint(r)
      BY <3>3, <2>1, AdvanceMaps
    <3>4. CASE ~Raise(r) /\ InsertManifest(r)
      BY <3>4, <2>1, PublishMaps
    <3>5. QED
      BY <2>3, <3>1, <3>2, <3>3, <3>4, QuietSteps, StutterMaps DEF RunnerStep
  <2>4. QED
    BY <2>2, <2>3 DEF Next
<1>3. QED
  BY <1>1, <1>2, InvariantHolds, PTL DEF Spec, ImplementsProgress, Progress!Spec

-----------------------------------------------------------------------------
(* Provenance.  The invariant says of the tables what is behind each row,  *)
(* and of each runner what it has stored so far of the page it is at.      *)

Recording == {"receipt_select", "receipt_insert"}
Saving == {"obs_select", "obs_insert"}
Registering == {"part_file", "part_select", "part_insert"}

StoreBacked ==
    /\ rawBlobs \subseteq blobFiles
    /\ \A f \in receipts : PayloadOf(f) \in rawBlobs
    /\ \A o, q \in observations : ObservationId(o) = ObservationId(q) => o = q
    /\ \A f \in partitions : /\ f \in partFiles /\ f \in receipts
                             /\ ObservationsOf(f) \subseteq observations
                             /\ RowsOf(f.job, f.page) > 0
    /\ manifests \subseteq manifestFiles
    /\ \A m \in manifests : m.parts \subseteq partitions

Traced(r) ==
    /\ pc[r] \in {"blob_select", "blob_insert"} => PayloadOf(FetchOf(r)) \in blobFiles
    /\ pc[r] \in Recording => PayloadOf(FetchOf(r)) \in rawBlobs
    /\ pc[r] \in {"progress"} \cup Saving \cup Registering => FetchOf(r) \in receipts
    /\ pc[r] \in {"blob_file", "blob_select", "blob_insert", "progress"} \cup Recording
            => mem[r].row = 1
    /\ pc[r] \in Saving =>
            /\ mem[r].row >= 1 /\ mem[r].row <= RowCount(r)
            /\ \A i \in 1..RowCount(r) : i < mem[r].row =>
                    [fetch |-> FetchOf(r), row |-> i] \in observations
    /\ pc[r] \in Registering =>
            /\ RowCount(r) > 0
            /\ ObservationsOf(FetchOf(r)) \subseteq observations
    /\ pc[r] \in {"part_select", "part_insert"} => FetchOf(r) \in partFiles
    /\ pc[r] \in {"man_select", "man_insert"} => mem[r].manifest \in manifestFiles

ProvenanceInv == StoreBacked /\ \A r \in Runners : Traced(r)

\* Nothing is taken out of the files and tables that provenance is about.
Grow ==
    /\ blobFiles \subseteq blobFiles' /\ rawBlobs \subseteq rawBlobs'
    /\ receipts \subseteq receipts' /\ observations \subseteq observations'
    /\ partFiles \subseteq partFiles' /\ partitions \subseteq partitions'
    /\ manifestFiles \subseteq manifestFiles'

\* A runner that does not move has stored at least what it had.
LEMMA StandingTraced ==
    ASSUME NEW s \in Runners, Traced(s), Grow, pc'[s] = pc[s], mem'[s] = mem[s]
    PROVE  Traced(s)'
<1>1. FetchOf(s)' = FetchOf(s) /\ RowCount(s)' = RowCount(s)
    BY DEF FetchOf, RowCount
<1>2. PICK f, n : f = FetchOf(s) /\ n = RowCount(s)
    OBVIOUS
<1> QED
    BY <1>1, <1>2 DEF Traced, Grow

\* So a step of runner r is a matter of what it does to r and the tables.
LEMMA MoveTraced ==
    ASSUME CoreInv, ProvenanceInv, NEW r \in Runners, Grow, StoreBacked',
           NEW s, pc' = [pc EXCEPT ![r] = s],
           NEW m, mem' = [mem EXCEPT ![r] = m],
           Traced(r)'
    PROVE  ProvenanceInv'
<1>1. ASSUME NEW q \in Runners PROVE Traced(q)'
    <2>1. CASE q = r
        BY <2>1
    <2>2. CASE q # r
        <3>1. pc'[q] = pc[q] /\ mem'[q] = mem[q]
            BY <2>2 DEF CoreInv, RunnerTypeOK
        <3>2. Traced(q)
            BY DEF ProvenanceInv
        <3> QED
            BY <3>1, <3>2, StandingTraced
    <2> QED
        BY <2>1, <2>2
<1> QED
    BY <1>1 DEF ProvenanceInv

\* A step that leaves the store alone.
LEMMA QuietBacked ==
    ASSUME StoreBacked, UNCHANGED storeVars
    PROVE  StoreBacked' /\ Grow
BY DEF StoreBacked, Grow, storeVars, fileVars, tableVars

\* What r is about, where the step leaves its job, page and fetch time.
LEMMA SameFetch ==
    ASSUME CoreInv, NEW r \in Runners, NEW m \in Memory,
           mem' = [mem EXCEPT ![r] = m],
           m.job = mem[r].job, m.cursor = mem[r].cursor, m.at = mem[r].at
    PROVE  /\ mem'[r] = m /\ FetchOf(r)' = FetchOf(r) /\ RowCount(r)' = RowCount(r)
<1>1. mem'[r] = m
    BY DEF CoreInv, RunnerTypeOK
<1> QED
    BY <1>1 DEF FetchOf, RowCount

\* An exception keeps the store, and an idle runner has nothing to account for.
LEMMA RaiseTraced ==
    ASSUME CoreInv, ProvenanceInv, NEW r \in Runners, Raise(r)
    PROVE  ProvenanceInv'
<1>1. StoreBacked' /\ Grow
    BY QuietBacked DEF ProvenanceInv, Raise
<1>2. pc' = [pc EXCEPT ![r] = "idle"] /\ mem' = [mem EXCEPT ![r] = Fresh(mem[r].job, 1, 0)]
    BY DEF Raise, Goto
<1>3. pc'[r] = "idle"
    BY <1>2 DEF CoreInv, RunnerTypeOK
<1>4. Traced(r)'
    BY <1>3 DEF Traced, Recording, Saving, Registering
<1> QED
    BY <1>1, <1>2, <1>4, MoveTraced

\* A run that starts or fetches has stored nothing of its page yet.
LEMMA StartTraced ==
    ASSUME CoreInv, clock \in Nat, ProvenanceInv, NEW r \in Runners, ~Raise(r),
           Resume(r) \/ FetchPage(r)
    PROVE  ProvenanceInv'
<1>1. StoreBacked' /\ Grow
    BY QuietBacked DEF ProvenanceInv, Resume, FetchPage
<1>2. CASE Resume(r)
    <2>1. PICK s, m :
            /\ s \in {"list", "fetch"}
            /\ pc' = [pc EXCEPT ![r] = s] /\ mem' = [mem EXCEPT ![r] = m]
        BY <1>2 DEF Resume, Goto
    <2>2. pc'[r] = s
        BY <2>1 DEF CoreInv, RunnerTypeOK
    <2>3. Traced(r)'
        BY <2>1, <2>2 DEF Traced, Recording, Saving, Registering
    <2> QED
        BY <1>1, <2>1, <2>3, MoveTraced
<1>3. CASE FetchPage(r)
    <2>1. PICK n : mem' = [mem EXCEPT ![r].seen = @ \cup {mem[r].cursor},
                                      ![r].pages = @ + 1,
                                      ![r].at = clock,
                                      ![r].next = n,
                                      ![r].row = 1]
        BY <1>3 DEF FetchPage
    <2>2. PICK m : m = [mem[r] EXCEPT !.seen = @ \cup {mem[r].cursor},
                                      !.pages = @ + 1,
                                      !.at = clock,
                                      !.next = n,
                                      !.row = 1]
        OBVIOUS
    <2>3. mem' = [mem EXCEPT ![r] = m]
        BY <2>1, <2>2 DEF CoreInv, RunnerTypeOK
    <2>4. m.row = 1
        BY <2>2, CurrentType DEF CoreInv, Memory
    <2>5. pc' = [pc EXCEPT ![r] = "blob_file"]
        BY <1>3 DEF FetchPage, Goto
    <2>6. pc'[r] = "blob_file" /\ mem'[r] = m
        BY <2>3, <2>5 DEF CoreInv, RunnerTypeOK
    <2>7. Traced(r)'
        BY <2>4, <2>6 DEF Traced, Recording, Saving, Registering
    <2> QED
        BY <1>1, <2>3, <2>5, <2>7, MoveTraced
<1> QED
    BY <1>2, <1>3

\* put_raw writes the file before the row, and the receipt comes after both.
LEMMA RecordFetchTraced ==
    ASSUME CoreInv, ProvenanceInv, NEW r \in Runners, ~Raise(r),
           \/ PutRawFile(r) \/ SelectBlob(r) \/ InsertBlob(r)
           \/ SelectReceipt(r) \/ InsertReceipt(r)
    PROVE  ProvenanceInv'
<1>1. mem' = [mem EXCEPT ![r] = mem[r]] /\ mem[r] \in Memory
    BY CurrentType DEF PutRawFile, SelectBlob, InsertBlob, SelectReceipt,
                       InsertReceipt, CoreInv, RunnerTypeOK
<1>2. mem'[r] = mem[r] /\ FetchOf(r)' = FetchOf(r) /\ RowCount(r)' = RowCount(r)
    BY <1>1, SameFetch
<1>3. Traced(r) /\ StoreBacked
    BY DEF ProvenanceInv
<1>4. PICK f : f = FetchOf(r)
    OBVIOUS
<1>5. PutRawFile(r) =>
        /\ StoreBacked' /\ Grow
        /\ pc' = [pc EXCEPT ![r] = "blob_select"] /\ Traced(r)'
    <2> SUFFICES ASSUME PutRawFile(r) PROVE StoreBacked' /\ Grow
                 /\ pc' = [pc EXCEPT ![r] = "blob_select"] /\ Traced(r)'
        OBVIOUS
    <2>1. WriteBlobFile(PayloadOf(f)) /\ pc[r] = "blob_file"
          /\ pc' = [pc EXCEPT ![r] = "blob_select"]
        BY <1>4 DEF PutRawFile, Goto, At
    <2>2. StoreBacked' /\ Grow /\ PayloadOf(f) \in blobFiles'
        BY <1>3, <2>1 DEF WriteBlobFile, StoreBacked, Grow, tableVars
    <2>3. pc'[r] = "blob_select"
        BY <2>1 DEF CoreInv, RunnerTypeOK
    <2>4. Traced(r)'
        BY <1>2, <1>3, <1>4, <2>1, <2>2, <2>3 DEF Traced, Recording, Saving, Registering
    <2> QED
        BY <2>1, <2>2, <2>4
<1>6. SelectBlob(r) =>
        /\ StoreBacked' /\ Grow
        /\ \E s : pc' = [pc EXCEPT ![r] = s] /\ Traced(r)'
    <2> SUFFICES ASSUME SelectBlob(r) PROVE StoreBacked' /\ Grow
                 /\ \E s : pc' = [pc EXCEPT ![r] = s] /\ Traced(r)'
        OBVIOUS
    <2>1. StoreBacked' /\ Grow
        BY <1>3, QuietBacked DEF SelectBlob
    <2>2. PICK s \in {"receipt_select", "blob_insert"} :
            /\ pc' = [pc EXCEPT ![r] = s]
            /\ s = "receipt_select" => PayloadOf(f) \in rawBlobs
        BY <1>4 DEF SelectBlob, Goto
    <2>3. pc'[r] = s /\ pc[r] = "blob_select"
        BY <2>2 DEF CoreInv, RunnerTypeOK, SelectBlob, At
    <2>4. Traced(r)'
        BY <1>2, <1>3, <1>4, <2>1, <2>2, <2>3
           DEF Traced, Recording, Saving, Registering, Grow
    <2> QED
        BY <2>1, <2>2, <2>4
<1>7. InsertBlob(r) =>
        /\ StoreBacked' /\ Grow
        /\ pc' = [pc EXCEPT ![r] = "receipt_select"] /\ Traced(r)'
    <2> SUFFICES ASSUME InsertBlob(r) PROVE StoreBacked' /\ Grow
                 /\ pc' = [pc EXCEPT ![r] = "receipt_select"] /\ Traced(r)'
        OBVIOUS
    <2>1. InsertBlobRow(PayloadOf(f)) /\ pc[r] = "blob_insert"
          /\ pc' = [pc EXCEPT ![r] = "receipt_select"]
        BY <1>4 DEF InsertBlob, Goto, At
    <2>2. PayloadOf(f) \in blobFiles
        BY <1>3, <1>4, <2>1 DEF Traced
    <2>3. StoreBacked' /\ Grow /\ PayloadOf(f) \in rawBlobs'
        BY <1>3, <2>1, <2>2 DEF InsertBlobRow, StoreBacked, Grow, fileVars
    <2>4. pc'[r] = "receipt_select"
        BY <2>1 DEF CoreInv, RunnerTypeOK
    <2>5. Traced(r)'
        BY <1>2, <1>3, <1>4, <2>1, <2>3, <2>4 DEF Traced, Recording, Saving, Registering
    <2> QED
        BY <2>1, <2>3, <2>5
<1>8. SelectReceipt(r) =>
        /\ StoreBacked' /\ Grow
        /\ \E s : pc' = [pc EXCEPT ![r] = s] /\ Traced(r)'
    <2> SUFFICES ASSUME SelectReceipt(r) PROVE StoreBacked' /\ Grow
                 /\ \E s : pc' = [pc EXCEPT ![r] = s] /\ Traced(r)'
        OBVIOUS
    <2>1. StoreBacked' /\ Grow
        BY <1>3, QuietBacked DEF SelectReceipt
    <2>2. PICK s \in {"progress", "receipt_insert"} :
            /\ pc' = [pc EXCEPT ![r] = s]
            /\ s = "progress" => f \in receipts
        BY <1>4 DEF SelectReceipt, Goto
    <2>3. pc'[r] = s /\ pc[r] = "receipt_select"
        BY <2>2 DEF CoreInv, RunnerTypeOK, SelectReceipt, At
    <2>4. Traced(r)'
        BY <1>2, <1>3, <1>4, <2>1, <2>2, <2>3
           DEF Traced, Recording, Saving, Registering, Grow
    <2> QED
        BY <2>1, <2>2, <2>4
<1>9. InsertReceipt(r) =>
        /\ StoreBacked' /\ Grow
        /\ pc' = [pc EXCEPT ![r] = "progress"] /\ Traced(r)'
    <2> SUFFICES ASSUME InsertReceipt(r) PROVE StoreBacked' /\ Grow
                 /\ pc' = [pc EXCEPT ![r] = "progress"] /\ Traced(r)'
        OBVIOUS
    <2>1. InsertReceiptRow(f) /\ pc[r] = "receipt_insert"
          /\ pc' = [pc EXCEPT ![r] = "progress"]
        BY <1>4 DEF InsertReceipt, Goto, At
    <2>2. PayloadOf(f) \in rawBlobs
        BY <1>3, <1>4, <2>1 DEF Traced, Recording
    <2>3. StoreBacked' /\ Grow /\ f \in receipts'
        BY <1>3, <2>1, <2>2 DEF InsertReceiptRow, StoreBacked, Grow, fileVars
    <2>4. pc'[r] = "progress"
        BY <2>1 DEF CoreInv, RunnerTypeOK
    <2>5. Traced(r)'
        BY <1>2, <1>3, <1>4, <2>1, <2>3, <2>4 DEF Traced, Recording, Saving, Registering
    <2> QED
        BY <2>1, <2>3, <2>5
<1>10. /\ StoreBacked' /\ Grow
       /\ \E s : pc' = [pc EXCEPT ![r] = s] /\ Traced(r)'
    BY <1>5, <1>6, <1>7, <1>8, <1>9
<1> QED
    BY <1>1, <1>10, MoveTraced

\* The first row of a page that has rows is saved next.
LEMMA CheckProgressTraced ==
    ASSUME CoreInv, ProvenanceInv, NEW r \in Runners, ~Raise(r), CheckProgress(r)
    PROVE  ProvenanceInv'
<1>1. StoreBacked' /\ Grow
    BY QuietBacked DEF ProvenanceInv, CheckProgress
<1>2. PICK m : m = [mem[r] EXCEPT !.empties = EmptiesAfter(r)]
    OBVIOUS
<1>3. mem[r] \in Memory /\ RowCount(r) \in Nat
    BY CurrentType DEF CoreInv
<1>4. m \in Memory
    <2>1. EmptiesAfter(r) \in 0..MaxEmptyPages
        BY <1>3 DEF CheckProgress, EmptiesAfter, Memory
    <2> QED
        BY <1>2, <1>3, <2>1 DEF Memory
<1>5. /\ m.job = mem[r].job /\ m.cursor = mem[r].cursor /\ m.at = mem[r].at
      /\ m.row = mem[r].row
    BY <1>2, <1>3 DEF Memory
<1>6. mem' = [mem EXCEPT ![r] = m]
    BY <1>2 DEF CheckProgress, CoreInv, RunnerTypeOK
<1>7. mem'[r] = m /\ FetchOf(r)' = FetchOf(r) /\ RowCount(r)' = RowCount(r)
    BY <1>4, <1>5, <1>6, SameFetch
<1>8. PICK s \in {"ckpt_select", "obs_select"} :
        /\ pc' = [pc EXCEPT ![r] = s]
        /\ s = "obs_select" => RowCount(r) # 0
    BY DEF CheckProgress, Goto
<1>9. pc'[r] = s /\ pc[r] = "progress"
    BY <1>8 DEF CoreInv, RunnerTypeOK, CheckProgress, At
<1>10. Traced(r)
    BY DEF ProvenanceInv
<1>11. Traced(r)'
    BY <1>1, <1>3, <1>5, <1>7, <1>8, <1>9, <1>10
       DEF Traced, Recording, Saving, Registering, Grow
<1> QED
    BY <1>1, <1>6, <1>8, <1>11, MoveTraced

\* With a row saved, those before the next one are, or all of the page.
LEMMA RowSavedTraced ==
    ASSUME CoreInv, ProvenanceInv, NEW r \in Runners, pc[r] \in Saving,
           Grow, StoreBacked', RowOf(r) \in observations', RowSaved(r)
    PROVE  ProvenanceInv'
<1>1. mem[r] \in Memory /\ RowCount(r) \in Nat /\ mem[r].row \in Nat
    BY CurrentType DEF CoreInv, Memory
<1>2. Traced(r)
    BY DEF ProvenanceInv
<1>3. PICK f, n : f = FetchOf(r) /\ n = RowCount(r)
    OBVIOUS
<1>4. n \in Nat /\ 1 <= mem[r].row /\ mem[r].row <= n
      /\ f \in receipts'
    BY <1>1, <1>2, <1>3 DEF Traced, Grow
<1>5. \A i \in 1..n : i <= mem[r].row => [fetch |-> f, row |-> i] \in observations'
    <2> SUFFICES ASSUME NEW i \in 1..n, i <= mem[r].row
                 PROVE  [fetch |-> f, row |-> i] \in observations'
        OBVIOUS
    <2>1. CASE i < mem[r].row
        BY <1>2, <1>3, <2>1 DEF Traced, Grow
    <2>2. CASE i = mem[r].row
        BY <1>3, <2>2 DEF RowOf
    <2> QED
        BY <1>1, <1>4, <2>1, <2>2
<1>6. CASE mem[r].row = n
    <2>1. pc' = [pc EXCEPT ![r] = "part_file"] /\ mem' = [mem EXCEPT ![r] = mem[r]]
        BY <1>3, <1>6 DEF RowSaved, Goto, CoreInv, RunnerTypeOK
    <2>2. FetchOf(r)' = f /\ RowCount(r)' = n
        BY <1>1, <1>3, <2>1, SameFetch
    <2>3. pc'[r] = "part_file"
        BY <2>1 DEF CoreInv, RunnerTypeOK
    <2>4. RowsOf(f.job, f.page) = n
        BY <1>3 DEF RowCount, FetchOf
    <2>5. ObservationsOf(f) \subseteq observations'
        BY <1>1, <1>4, <1>5, <1>6, <2>4 DEF ObservationsOf
    <2>6. ObservationsOf(FetchOf(r))' \subseteq observations'
        BY <2>2, <2>5 DEF ObservationsOf, RowsOf
    <2>7. n > 0
        BY <1>1, <1>4
    <2>8. Traced(r)'
        BY <1>4, <2>2, <2>3, <2>6, <2>7
           DEF Traced, Recording, Saving, Registering
    <2> QED
        BY <1>1, <2>1, <2>8, MoveTraced
<1>7. CASE mem[r].row # n
    <2>1. PICK m : m = [mem[r] EXCEPT !.row = @ + 1]
        OBVIOUS
    <2>2. /\ m \in Memory /\ m.job = mem[r].job /\ m.cursor = mem[r].cursor
          /\ m.at = mem[r].at /\ m.row = mem[r].row + 1
        BY <1>1, <2>1 DEF Memory
    <2>3. pc' = [pc EXCEPT ![r] = "obs_select"] /\ mem' = [mem EXCEPT ![r] = m]
        BY <1>3, <1>7, <2>1 DEF RowSaved, Goto, CoreInv, RunnerTypeOK
    <2>4. mem'[r] = m /\ FetchOf(r)' = f /\ RowCount(r)' = n
        BY <1>1, <1>3, <2>2, <2>3, SameFetch
    <2>5. pc'[r] = "obs_select"
        BY <2>3 DEF CoreInv, RunnerTypeOK
    <2>6. /\ 1 <= m.row /\ m.row <= n
          /\ \A i \in 1..n : i < m.row => [fetch |-> f, row |-> i] \in observations'
        BY <1>1, <1>4, <1>5, <1>7, <2>2
    <2>7. Traced(r)'
        BY <1>4, <2>4, <2>5, <2>6 DEF Traced, Recording, Saving, Registering
    <2> QED
        BY <2>3, <2>7, MoveTraced
<1> QED
    BY <1>6, <1>7

\* save_observation, once per row: a row of the same id is the row, or an
\* error; an id is given to one row.
LEMMA ObservationTraced ==
    ASSUME CoreInv, ProvenanceInv, NEW r \in Runners, ~Raise(r),
           SelectObservation(r) \/ InsertObservation(r)
    PROVE  ProvenanceInv'
<1>1. Traced(r) /\ StoreBacked /\ mem[r] \in Memory
    BY CurrentType DEF ProvenanceInv, CoreInv
<1>2. CASE SelectObservation(r)
    <2>1. StoreBacked' /\ Grow /\ observations' = observations
        <3>1. UNCHANGED storeVars
            BY <1>2 DEF SelectObservation
        <3> QED
            BY <1>1, <3>1, QuietBacked DEF storeVars, tableVars
    <2>2. pc[r] = "obs_select"
        BY <1>2 DEF SelectObservation, At
    <2>3. CASE StoredAs(RowOf(r)) = {RowOf(r)} /\ RowSaved(r)
        <3>1. RowOf(r) \in observations
            BY <2>3 DEF StoredAs
        <3> QED
            BY <2>1, <2>2, <2>3, <3>1, RowSavedTraced DEF Saving
    <2>4. CASE Goto(r, "obs_insert") /\ UNCHANGED mem
        <3>1. pc' = [pc EXCEPT ![r] = "obs_insert"] /\ mem' = [mem EXCEPT ![r] = mem[r]]
            BY <2>4 DEF Goto, CoreInv, RunnerTypeOK
        <3>2. mem'[r] = mem[r] /\ FetchOf(r)' = FetchOf(r) /\ RowCount(r)' = RowCount(r)
            BY <1>1, <3>1, SameFetch
        <3>3. pc'[r] = "obs_insert"
            BY <3>1 DEF CoreInv, RunnerTypeOK
        <3>4. PICK f, n : f = FetchOf(r) /\ n = RowCount(r)
            OBVIOUS
        <3>5. Traced(r)'
            BY <1>1, <2>1, <2>2, <3>2, <3>3, <3>4
               DEF Traced, Recording, Saving, Registering, Grow
        <3> QED
            BY <2>1, <3>1, <3>5, MoveTraced
    <2> QED
        BY <1>2, <2>3, <2>4 DEF SelectObservation
<1>3. CASE InsertObservation(r)
    <2>1. InsertObservationRow(RowOf(r)) /\ RowSaved(r) /\ pc[r] = "obs_insert"
        BY <1>3 DEF InsertObservation, At
    <2>2. /\ observations' = observations \cup {RowOf(r)}
          /\ \A q \in observations : ObservationId(q) # ObservationId(RowOf(r))
          /\ UNCHANGED <<fileVars, rawBlobs, receipts, partitions, manifests, checkpoint>>
        BY <2>1 DEF InsertObservationRow, StoredAs
    <2>3. Grow
        BY <2>2 DEF Grow, fileVars
    <2>4. StoreBacked'
        <3>1. \A o, q \in observations' : ObservationId(o) = ObservationId(q) => o = q
            BY <1>1, <2>2 DEF StoreBacked
        <3> QED
            BY <1>1, <2>2, <3>1 DEF StoreBacked, fileVars
    <2> QED
        BY <2>1, <2>2, <2>3, <2>4, RowSavedTraced DEF Saving
<1> QED
    BY <1>2, <1>3

\* The partition's file comes before its row, and both after its rows.
LEMMA PartitionTraced ==
    ASSUME CoreInv, ProvenanceInv, NEW r \in Runners, ~Raise(r),
           PutPartitionFile(r) \/ SelectPartition(r) \/ InsertPartition(r)
    PROVE  ProvenanceInv'
<1>1. mem' = [mem EXCEPT ![r] = mem[r]] /\ mem[r] \in Memory
    BY CurrentType DEF PutPartitionFile, SelectPartition, InsertPartition,
                       CoreInv, RunnerTypeOK
<1>2. mem'[r] = mem[r] /\ FetchOf(r)' = FetchOf(r) /\ RowCount(r)' = RowCount(r)
    BY <1>1, SameFetch
<1>3. Traced(r) /\ StoreBacked
    BY DEF ProvenanceInv
<1>4. PICK f : f = FetchOf(r)
    OBVIOUS
<1>5. pc[r] \in Registering
    BY DEF PutPartitionFile, SelectPartition, InsertPartition, At, Registering
<1>6. f \in receipts /\ RowCount(r) > 0 /\ ObservationsOf(f) \subseteq observations
      /\ RowsOf(f.job, f.page) = RowCount(r)
    BY <1>3, <1>4, <1>5 DEF Traced, RowCount, FetchOf
<1>7. ObservationsOf(FetchOf(r))' = ObservationsOf(f)
    BY <1>2, <1>4 DEF ObservationsOf, RowsOf
<1>8. PutPartitionFile(r) =>
        /\ StoreBacked' /\ Grow
        /\ pc' = [pc EXCEPT ![r] = "part_select"] /\ Traced(r)'
    <2> SUFFICES ASSUME PutPartitionFile(r) PROVE StoreBacked' /\ Grow
                 /\ pc' = [pc EXCEPT ![r] = "part_select"] /\ Traced(r)'
        OBVIOUS
    <2>1. WritePartFile(f) /\ pc' = [pc EXCEPT ![r] = "part_select"]
        BY <1>4 DEF PutPartitionFile, Goto
    <2>2. StoreBacked' /\ Grow /\ f \in partFiles'
        BY <1>3, <2>1 DEF WritePartFile, StoreBacked, Grow, tableVars
    <2>3. pc'[r] = "part_select"
        BY <2>1 DEF CoreInv, RunnerTypeOK
    <2>4. Traced(r)'
        BY <1>2, <1>4, <1>6, <1>7, <2>2, <2>3
           DEF Traced, Recording, Saving, Registering, Grow
    <2> QED
        BY <2>1, <2>2, <2>4
<1>9. SelectPartition(r) =>
        /\ StoreBacked' /\ Grow
        /\ \E s : pc' = [pc EXCEPT ![r] = s] /\ Traced(r)'
    <2> SUFFICES ASSUME SelectPartition(r) PROVE StoreBacked' /\ Grow
                 /\ \E s : pc' = [pc EXCEPT ![r] = s] /\ Traced(r)'
        OBVIOUS
    <2>1. StoreBacked' /\ Grow
        BY <1>3, QuietBacked DEF SelectPartition
    <2>2. PICK s \in {"ckpt_select", "part_insert"} : pc' = [pc EXCEPT ![r] = s]
        BY DEF SelectPartition, Goto
    <2>3. pc'[r] = s /\ pc[r] = "part_select"
        BY <2>2 DEF CoreInv, RunnerTypeOK, SelectPartition, At
    <2>4. f \in partFiles
        BY <1>3, <1>4, <2>3 DEF Traced
    <2>5. Traced(r)'
        BY <1>2, <1>4, <1>6, <1>7, <2>1, <2>3, <2>4
           DEF Traced, Recording, Saving, Registering, Grow
    <2> QED
        BY <2>1, <2>2, <2>5
<1>10. InsertPartition(r) =>
        /\ StoreBacked' /\ Grow
        /\ pc' = [pc EXCEPT ![r] = "ckpt_select"] /\ Traced(r)'
    <2> SUFFICES ASSUME InsertPartition(r) PROVE StoreBacked' /\ Grow
                 /\ pc' = [pc EXCEPT ![r] = "ckpt_select"] /\ Traced(r)'
        OBVIOUS
    <2>1. InsertPartitionRow(f) /\ pc[r] = "part_insert"
          /\ pc' = [pc EXCEPT ![r] = "ckpt_select"]
        BY <1>4 DEF InsertPartition, Goto, At
    <2>2. f \in partFiles
        BY <1>3, <1>4, <2>1 DEF Traced
    <2>3. partitions' = partitions \cup {f}
          /\ UNCHANGED <<fileVars, rawBlobs, receipts, observations, manifests, checkpoint>>
        BY <2>1 DEF InsertPartitionRow
    <2>4. Grow
        BY <2>3 DEF Grow, fileVars
    <2>5. StoreBacked'
        <3>1. \A g \in partitions' : /\ g \in partFiles /\ g \in receipts
                                     /\ ObservationsOf(g) \subseteq observations
                                     /\ RowsOf(g.job, g.page) > 0
            BY <1>3, <1>6, <2>2, <2>3 DEF StoreBacked
        <3>2. \A m \in manifests : m.parts \subseteq partitions'
            BY <1>3, <2>3 DEF StoreBacked
        <3> QED
            BY <1>3, <2>3, <3>1, <3>2 DEF StoreBacked, fileVars
    <2>6. pc'[r] = "ckpt_select"
        BY <2>1 DEF CoreInv, RunnerTypeOK
    <2>7. Traced(r)'
        BY <2>6 DEF Traced, Recording, Saving, Registering
    <2> QED
        BY <2>1, <2>4, <2>5, <2>7
<1>11. /\ StoreBacked' /\ Grow
       /\ \E s : pc' = [pc EXCEPT ![r] = s] /\ Traced(r)'
    BY <1>8, <1>9, <1>10
<1> QED
    BY <1>1, <1>11, MoveTraced

\* save_checkpoint touches no table that provenance is about.
LEMMA CheckpointTraced ==
    ASSUME CoreInv, ProvenanceInv, NEW r \in Runners, ~Raise(r),
           SelectCheckpoint(r) \/ UpsertCheckpoint(r)
    PROVE  ProvenanceInv'
<1>1. StoreBacked' /\ Grow
    <2>1. CASE SelectCheckpoint(r)
        BY <2>1, QuietBacked DEF SelectCheckpoint, ProvenanceInv
    <2>2. CASE UpsertCheckpoint(r)
        <3>1. UNCHANGED <<fileVars, rawBlobs, receipts, observations, partitions, manifests>>
            BY <2>2 DEF UpsertCheckpoint, UpsertCheckpointRow
        <3> QED
            BY <3>1 DEF ProvenanceInv, StoreBacked, Grow, fileVars
    <2> QED
        BY <2>1, <2>2
<1>2. PICK s \in {"ckpt_upsert", "list", "fetch"} : pc' = [pc EXCEPT ![r] = s]
    BY DEF SelectCheckpoint, UpsertCheckpoint, Goto
<1>3. PICK m : mem' = [mem EXCEPT ![r] = m]
    <2>1. mem = [mem EXCEPT ![r] = mem[r]]
        BY DEF CoreInv, RunnerTypeOK
    <2>2. \/ mem' = mem
          \/ mem' = [mem EXCEPT ![r].cursor = mem[r].next]
        BY DEF SelectCheckpoint, UpsertCheckpoint
    <2>3. CASE mem' = [mem EXCEPT ![r].cursor = mem[r].next]
        BY <2>3
    <2> QED
        BY <2>1, <2>2, <2>3
<1>4. pc'[r] = s
    BY <1>2 DEF CoreInv, RunnerTypeOK
<1>5. Traced(r)'
    BY <1>2, <1>4 DEF Traced, Recording, Saving, Registering
<1> QED
    BY <1>1, <1>2, <1>3, <1>5, MoveTraced

\* finalize_manifest lists what the catalog holds, and writes the file before
\* the row.
LEMMA FinalizeTraced ==
    ASSUME CoreInv, ProvenanceInv, NEW r \in Runners, ~Raise(r),
           \/ ListPartitions(r) \/ PutManifestFile(r)
           \/ SelectManifest(r) \/ InsertManifest(r)
    PROVE  ProvenanceInv'
<1>1. Traced(r) /\ StoreBacked /\ mem[r] \in Memory
    BY CurrentType DEF ProvenanceInv, CoreInv
<1>2. mem = [mem EXCEPT ![r] = mem[r]]
    BY DEF CoreInv, RunnerTypeOK
<1>3. CASE ListPartitions(r)
    <2>1. StoreBacked' /\ Grow
        BY <1>1, <1>3, QuietBacked DEF ListPartitions
    <2>2. pc' = [pc EXCEPT ![r] = "man_file"]
          /\ \E m : mem' = [mem EXCEPT ![r] = m]
        BY <1>3 DEF ListPartitions, Goto
    <2>3. pc'[r] = "man_file"
        BY <2>2 DEF CoreInv, RunnerTypeOK
    <2>4. Traced(r)'
        BY <2>3 DEF Traced, Recording, Saving, Registering
    <2> QED
        BY <2>1, <2>2, <2>4, MoveTraced
<1>4. CASE PutManifestFile(r)
    <2>1. WriteManifestFile(mem[r].manifest) /\ mem' = mem
          /\ pc' = [pc EXCEPT ![r] = "man_select"]
        BY <1>4 DEF PutManifestFile, Goto
    <2>2. StoreBacked' /\ Grow /\ mem'[r].manifest \in manifestFiles'
        BY <1>1, <2>1 DEF WriteManifestFile, StoreBacked, Grow, tableVars
    <2>3. pc'[r] = "man_select"
        BY <2>1 DEF CoreInv, RunnerTypeOK
    <2>4. Traced(r)'
        BY <2>2, <2>3 DEF Traced, Recording, Saving, Registering
    <2> QED
        BY <1>2, <2>1, <2>2, <2>4, MoveTraced
<1>5. CASE SelectManifest(r)
    <2>1. StoreBacked' /\ Grow /\ mem' = mem /\ pc[r] = "man_select"
        BY <1>1, <1>5, QuietBacked DEF SelectManifest, At
    <2>2. PICK s \in {"returned", "man_insert"} : pc' = [pc EXCEPT ![r] = s]
        BY <1>5 DEF SelectManifest, Goto
    <2>3. pc'[r] = s
        BY <2>2 DEF CoreInv, RunnerTypeOK
    <2>4. mem'[r].manifest \in manifestFiles'
        BY <1>1, <2>1 DEF Traced, Grow
    <2>5. Traced(r)'
        BY <2>3, <2>4 DEF Traced, Recording, Saving, Registering
    <2> QED
        BY <1>2, <2>1, <2>2, <2>5, MoveTraced
<1>6. CASE InsertManifest(r)
    <2>1. PICK m : m = mem[r].manifest
        OBVIOUS
    <2>2. InsertManifestRow(m) /\ mem' = mem /\ pc[r] = "man_insert"
          /\ pc' = [pc EXCEPT ![r] = "returned"]
        BY <1>6, <2>1 DEF InsertManifest, Goto, At
    <2>3. m \in manifestFiles
        BY <1>1, <2>1, <2>2 DEF Traced
    <2>4. m.parts \subseteq partitions
        BY <2>1, <2>2 DEF CoreInv, RunnerInv, ManifestCovered, Finishing
    <2>5. StoreBacked' /\ Grow
        BY <1>1, <2>2, <2>3, <2>4 DEF InsertManifestRow, StoreBacked, Grow, fileVars
    <2>6. pc'[r] = "returned"
        BY <2>2 DEF CoreInv, RunnerTypeOK
    <2>7. Traced(r)'
        BY <2>6 DEF Traced, Recording, Saving, Registering
    <2> QED
        BY <1>2, <2>2, <2>5, <2>7, MoveTraced
<1> QED
    BY <1>3, <1>4, <1>5, <1>6

\* Nothing is stored and nobody runs at the start.
LEMMA ProvenanceInit == Init => ProvenanceInv
BY DEF Init, StoreInit, ProvenanceInv, StoreBacked, Traced, Recording, Saving, Registering

\* The clock stores nothing; the disk damages bytes of files and removes none.
LEMMA OutsideTraced ==
    ASSUME ProvenanceInv, UNCHANGED <<blobFiles, partFiles, manifestFiles, tableVars, pc, mem>>
    PROVE  ProvenanceInv'
<1>1. Grow /\ StoreBacked'
    BY DEF Grow, ProvenanceInv, StoreBacked, tableVars
<1>2. ASSUME NEW s \in Runners PROVE Traced(s)'
    BY <1>1, StandingTraced DEF ProvenanceInv
<1> QED
    BY <1>1, <1>2 DEF ProvenanceInv

\* Every step of the runners, the clock and the disk preserves it.
LEMMA ProvenanceNext == BackfillInv /\ ProvenanceInv /\ [Next]_vars => ProvenanceInv'
<1> SUFFICES ASSUME BackfillInv, ProvenanceInv, [Next]_vars PROVE ProvenanceInv'
    OBVIOUS
<1>1. CoreInv /\ clock \in Nat
    BY DEF BackfillInv, TypeOK, CoreInv
<1>2. ASSUME NEW r \in Runners, RunnerStep(r), ~Raise(r)
      PROVE  ProvenanceInv'
    <2>1. CASE Resume(r) \/ FetchPage(r)
        BY <1>1, <1>2, <2>1, StartTraced
    <2>2. CASE \/ PutRawFile(r) \/ SelectBlob(r) \/ InsertBlob(r)
               \/ SelectReceipt(r) \/ InsertReceipt(r)
        BY <1>1, <1>2, <2>2, RecordFetchTraced
    <2>3. CASE CheckProgress(r)
        BY <1>1, <1>2, <2>3, CheckProgressTraced
    <2>4. CASE SelectObservation(r) \/ InsertObservation(r)
        BY <1>1, <1>2, <2>4, ObservationTraced
    <2>5. CASE PutPartitionFile(r) \/ SelectPartition(r) \/ InsertPartition(r)
        BY <1>1, <1>2, <2>5, PartitionTraced
    <2>6. CASE SelectCheckpoint(r) \/ UpsertCheckpoint(r)
        BY <1>1, <1>2, <2>6, CheckpointTraced
    <2>7. CASE \/ ListPartitions(r) \/ PutManifestFile(r)
               \/ SelectManifest(r) \/ InsertManifest(r)
        BY <1>1, <1>2, <2>7, FinalizeTraced
    <2> QED
        BY <1>2, <2>1, <2>2, <2>3, <2>4, <2>5, <2>6, <2>7 DEF RunnerStep
<1>3. ASSUME NEW r \in Runners, Raise(r) PROVE ProvenanceInv'
    BY <1>1, <1>3, RaiseTraced
<1>4. CASE Tick \/ DamageFile \/ UNCHANGED vars
    BY <1>4, OutsideTraced
       DEF Tick, DamageFile, Damage, vars, storeVars, fileVars, tableVars
<1> QED
    BY <1>2, <1>3, <1>4 DEF Next, Crash

\* The invariant of provenance holds in every reachable state.
LEMMA ProvenanceHolds == Spec => []ProvenanceInv
<1>1. Init => ProvenanceInv
    BY ProvenanceInit
<1>2. BackfillInv /\ ProvenanceInv /\ [Next]_vars => ProvenanceInv'
    BY ProvenanceNext
<1> QED
    BY <1>1, <1>2, InvariantHolds, PTL DEF Spec

\* Whatever crashes, retries and runners there are, a row of a manifest can be
\* followed to its partition's file, observations, receipt and raw bytes.
THEOREM EverythingTraced == Spec => []ProvenanceBacked
<1>1. ProvenanceInv => ProvenanceBacked
    BY DEF ProvenanceInv, StoreBacked, ProvenanceBacked
<1> QED
    BY <1>1, ProvenanceHolds, PTL

\* With ids derived from the record alone no page is registered twice: a second
\* fetch of it has the id of the first one's first row, which is another row.
THEOREM OneCopy ==
    ASSUME ~IdByFetch
    PROVE  Spec => []SinglePageCopy
<1>1. ProvenanceInv /\ StoreTypeOK => SinglePageCopy
    <2> SUFFICES ASSUME ProvenanceInv, StoreTypeOK, NEW f \in partitions, NEW g \in partitions,
                        PayloadOf(f) = PayloadOf(g)
                 PROVE  f = g
        BY DEF SinglePageCopy
    <2>1. f.job = g.job /\ f.page = g.page
        BY DEF PayloadOf
    <2>2. PICK n \in Nat : n = RowsOf(f.job, f.page) /\ n > 0
        <3>1. f.job \in Jobs /\ f.page \in 1..LastPage
            BY DEF StoreTypeOK, Fetches, Pages
        <3>2. RowsOf(f.job, f.page) \in Nat
            BY <3>1 DEF RowsOf
        <3>3. RowsOf(f.job, f.page) > 0
            BY DEF ProvenanceInv, StoreBacked
        <3> QED
            BY <3>2, <3>3
    <2>3. PICK o, q : o = [fetch |-> f, row |-> 1] /\ q = [fetch |-> g, row |-> 1]
        OBVIOUS
    <2>4. o \in ObservationsOf(f) /\ q \in ObservationsOf(g)
        <3>1. 1 \in 1..n /\ RowsOf(g.job, g.page) = n
            BY <2>1, <2>2
        <3> QED
            BY <2>2, <2>3, <3>1 DEF ObservationsOf
    <2>5. o \in observations /\ q \in observations
        BY <2>4 DEF ProvenanceInv, StoreBacked
    <2>6. ObservationId(o) = ObservationId(q)
        BY <2>1, <2>3 DEF ObservationId
    <2>7. o = q
        BY <2>5, <2>6 DEF ProvenanceInv, StoreBacked
    <2> QED
        BY <2>3, <2>7
<1>2. BackfillInv => StoreTypeOK
    BY DEF BackfillInv, TypeOK
<1> QED
    BY <1>1, <1>2, InvariantHolds, ProvenanceHolds, PTL

-----------------------------------------------------------------------------
(* A single process.  Between fetch and save_checkpoint its page is at or  *)
(* after the stored cursor, and the job is not completed.                  *)

Storing == Steps \ Finishing

AtOrAfter(r) == pc[r] \in Storing =>
    /\ ~checkpoint[mem[r].job].completed
    /\ checkpoint[mem[r].job].cursor <= mem[r].cursor
    /\ pc[r] # "fetch" => mem[r].next = mem[r].cursor + 1

SameTables == UNCHANGED <<checkpoint, manifests>>
SamePlace(r) ==
    /\ mem'[r].job = mem[r].job /\ mem'[r].cursor = mem[r].cursor
    /\ mem'[r].next = mem[r].next /\ mem'[r].at = mem[r].at

\* From record_fetch to write_partition and into save_checkpoint a run stays
\* at its page.
LEMMA PlaceKept ==
    ASSUME CoreInv, NEW r \in Runners, ~Raise(r),
           \/ PutRawFile(r) \/ SelectBlob(r) \/ InsertBlob(r)
           \/ SelectReceipt(r) \/ InsertReceipt(r) \/ CheckProgress(r)
           \/ SelectObservation(r) \/ InsertObservation(r)
           \/ PutPartitionFile(r) \/ SelectPartition(r) \/ InsertPartition(r)
           \/ SelectCheckpoint(r)
    PROVE  /\ pc[r] \in Storing \ {"fetch"} /\ pc'[r] \in Storing \ {"fetch"}
           /\ SameTables /\ SamePlace(r)
<1>1. pc[r] \in Storing \ {"fetch"}
    BY DEF PutRawFile, SelectBlob, InsertBlob, SelectReceipt, InsertReceipt,
           CheckProgress, SelectObservation, InsertObservation,
           PutPartitionFile, SelectPartition, InsertPartition,
           SelectCheckpoint, At, Storing, Steps, Finishing
<1>2. SameTables
    <2>1. UNCHANGED storeVars => SameTables
        BY DEF storeVars, tableVars, SameTables
    <2>2. CASE SelectBlob(r) \/ SelectReceipt(r) \/ CheckProgress(r)
               \/ SelectObservation(r) \/ SelectPartition(r) \/ SelectCheckpoint(r)
        BY <2>1, <2>2 DEF SelectBlob, SelectReceipt, CheckProgress,
           SelectObservation, SelectPartition, SelectCheckpoint
    <2>3. CASE PutRawFile(r) \/ PutPartitionFile(r)
        BY <2>3 DEF PutRawFile, PutPartitionFile, WriteBlobFile,
           WritePartFile, tableVars, SameTables
    <2>4. CASE InsertBlob(r) \/ InsertReceipt(r) \/ InsertObservation(r)
               \/ InsertPartition(r)
        BY <2>4 DEF InsertBlob, InsertReceipt, InsertObservation,
           InsertPartition, InsertBlobRow, InsertReceiptRow,
           InsertObservationRow, InsertPartitionRow, SameTables
    <2> QED
        BY <2>2, <2>3, <2>4
<1>3. \E s \in Storing \ {"fetch"} : pc' = [pc EXCEPT ![r] = s]
    BY DEF PutRawFile, SelectBlob, InsertBlob, SelectReceipt, InsertReceipt,
           CheckProgress, SelectObservation, InsertObservation, RowSaved,
           PutPartitionFile, SelectPartition, InsertPartition,
           SelectCheckpoint, Goto, Storing, Steps, Finishing
<1>4. pc'[r] \in Storing \ {"fetch"}
    BY <1>3 DEF CoreInv, RunnerTypeOK
<1>5. mem[r] \in Memory
    BY CurrentType DEF CoreInv
<1>6. \/ mem' = mem
      \/ mem' = [mem EXCEPT ![r].empties = EmptiesAfter(r)]
      \/ mem' = [mem EXCEPT ![r].row = mem[r].row + 1]
    BY DEF PutRawFile, SelectBlob, InsertBlob, SelectReceipt, InsertReceipt,
           CheckProgress, SelectObservation, InsertObservation, RowSaved,
           PutPartitionFile, SelectPartition, InsertPartition,
           SelectCheckpoint
<1>7. SamePlace(r)
    <2>1. CASE mem' = mem
        BY <2>1 DEF SamePlace
    <2>2. CASE mem' = [mem EXCEPT ![r].empties = EmptiesAfter(r)]
        <3>1. mem'[r] = [mem[r] EXCEPT !.empties = EmptiesAfter(r)]
            BY <2>2 DEF CoreInv, RunnerTypeOK
        <3> QED
            BY <1>5, <3>1 DEF SamePlace, Memory
    <2>3. CASE mem' = [mem EXCEPT ![r].row = mem[r].row + 1]
        <3>1. mem'[r] = [mem[r] EXCEPT !.row = mem[r].row + 1]
            BY <2>3 DEF CoreInv, RunnerTypeOK
        <3> QED
            BY <1>5, <3>1 DEF SamePlace, Memory
    <2> QED
        BY <1>6, <2>1, <2>2, <2>3
<1> QED
    BY <1>1, <1>2, <1>4, <1>7

\* finalize_manifest dates the manifest by the checkpoint and lists what the
\* catalog holds when it starts.
LEMMA FinalKept ==
    ASSUME CoreInv, NEW r \in Runners, ~Raise(r),
           \/ ListPartitions(r) \/ PutManifestFile(r)
           \/ SelectManifest(r) \/ InsertManifest(r)
    PROVE  /\ pc[r] \in Finishing /\ pc'[r] \in Finishing \ {"list"}
           /\ UNCHANGED <<checkpoint, partitions>>
           /\ mem'[r].job = mem[r].job /\ mem'[r].at = mem[r].at
           /\ \/ /\ pc[r] = "list" /\ manifests' = manifests
                 /\ mem'[r].manifest = [created |-> mem[r].at, parts |-> partitions]
              \/ /\ pc[r] # "list" /\ mem'[r].manifest = mem[r].manifest
                 /\ manifests' \subseteq manifests \cup {mem[r].manifest}
<1>1. mem[r] \in Memory
    BY CurrentType DEF CoreInv
<1>2. CASE ListPartitions(r)
    <2>1. PICK m : m = [created |-> mem[r].at, parts |-> partitions]
        OBVIOUS
    <2>2. /\ pc[r] = "list" /\ pc' = [pc EXCEPT ![r] = "man_file"]
          /\ UNCHANGED storeVars
          /\ mem' = [mem EXCEPT ![r].manifest = m]
        BY <1>2, <2>1 DEF ListPartitions, At, Goto
    <2>3. pc'[r] = "man_file" /\ mem'[r] = [mem[r] EXCEPT !.manifest = m]
        BY <2>2 DEF CoreInv, RunnerTypeOK
    <2>4. /\ mem'[r].job = mem[r].job /\ mem'[r].at = mem[r].at
          /\ mem'[r].manifest = m
        BY <1>1, <2>3 DEF Memory
    <2> QED
        BY <2>1, <2>2, <2>3, <2>4 DEF storeVars, tableVars, Finishing
<1>3. CASE ~ListPartitions(r)
    <2>1. PICK s \in Finishing \ {"list"} :
            pc' = [pc EXCEPT ![r] = s] /\ mem' = mem
        BY <1>3 DEF PutManifestFile, SelectManifest, InsertManifest, Goto, Finishing
    <2>2. pc'[r] = s
        BY <2>1 DEF CoreInv, RunnerTypeOK
    <2>3. pc[r] \in Finishing \ {"list"}
        BY <1>3 DEF PutManifestFile, SelectManifest, InsertManifest, At, Finishing
    <2>4. /\ UNCHANGED <<checkpoint, partitions>>
          /\ manifests' \subseteq manifests \cup {mem[r].manifest}
        BY <1>3 DEF PutManifestFile, SelectManifest, InsertManifest,
           WriteManifestFile, InsertManifestRow, storeVars, tableVars
    <2> QED
        BY <2>1, <2>2, <2>3, <2>4
<1> QED
    BY <1>2, <1>3

\* The checkpoint's UPSERT: forward to the next page, or completed.
LEMMA UpsertForward ==
    ASSUME CoreInv, NEW r \in Runners, UpsertCheckpoint(r), AtOrAfter(r)
    PROVE  /\ pc[r] \in Storing /\ ~checkpoint[mem[r].job].completed
           /\ UNCHANGED <<manifests, partitions>>
           /\ mem'[r].job = mem[r].job /\ mem'[r].at = mem[r].at
           /\ checkpoint'[mem[r].job].at = mem[r].at
           /\ checkpoint'[mem[r].job].cursor >= checkpoint[mem[r].job].cursor
           /\ \A j \in Jobs : j # mem[r].job => checkpoint'[j] = checkpoint[j]
           /\ checkpoint'[mem[r].job].completed => pc'[r] = "list"
           /\ ~checkpoint'[mem[r].job].completed =>
                /\ pc'[r] = "fetch"
                /\ checkpoint'[mem[r].job].cursor = mem'[r].cursor
<1>1. mem[r] \in Memory
    BY CurrentType DEF CoreInv
<1>2. PICK j \in Jobs, n \in Nat, b \in BOOLEAN, at \in Nat :
        /\ j = mem[r].job /\ b = (mem[r].cursor = LastPage) /\ at = mem[r].at
        /\ n = IF b THEN LastPage + 1 ELSE mem[r].next
    <2>1. PICK j \in Jobs, next \in Nat, at \in Nat :
            j = mem[r].job /\ at = mem[r].at /\ next = mem[r].next
        BY <1>1 DEF Memory
    <2>2. PICK b \in BOOLEAN : b = (mem[r].cursor = LastPage)
        OBVIOUS
    <2>3. PICK n \in Nat : n = IF b THEN LastPage + 1 ELSE next
        BY StoreAssumption
    <2> QED
        BY <2>1, <2>2, <2>3
<1>3. /\ checkpoint' = [checkpoint EXCEPT ![j] = [cursor |-> n, completed |-> b, at |-> at]]
      /\ UNCHANGED <<manifests, partitions>>
    BY <1>2 DEF UpsertCheckpoint, UpsertCheckpointRow, JobOf, PageCompleted
<1>4. checkpoint'[j] = [cursor |-> n, completed |-> b, at |-> at]
      /\ \A k \in Jobs : k # j => checkpoint'[k] = checkpoint[k]
    BY <1>3 DEF CoreInv, StoreTypeOK
<1>5. pc[r] = "ckpt_upsert" /\ pc[r] \in Storing
    BY DEF UpsertCheckpoint, At, Storing, Steps, Finishing
<1>6. /\ ~checkpoint[j].completed /\ checkpoint[j].cursor <= mem[r].cursor
      /\ mem[r].next = mem[r].cursor + 1
    BY <1>2, <1>5 DEF AtOrAfter
<1>7. checkpoint[j].cursor \in Nat /\ mem[r].cursor \in Nat /\ mem[r].cursor <= LastPage
    BY <1>1 DEF CoreInv, StoreTypeOK, Checkpoints, Memory, Pages
<1>8. n >= checkpoint[j].cursor
    BY <1>2, <1>6, <1>7
<1>9. CASE b
    <2>1. pc' = [pc EXCEPT ![r] = "list"] /\ mem' = mem
        BY <1>2, <1>9 DEF UpsertCheckpoint, Goto, PageCompleted
    <2>2. pc'[r] = "list"
        BY <2>1 DEF CoreInv, RunnerTypeOK
    <2> QED
        BY <1>2, <1>3, <1>4, <1>5, <1>6, <1>8, <1>9, <2>1, <2>2
<1>10. CASE ~b
    <2>1. pc' = [pc EXCEPT ![r] = "fetch"] /\ mem' = [mem EXCEPT ![r].cursor = mem[r].next]
        BY <1>2, <1>10 DEF UpsertCheckpoint, Goto, PageCompleted
    <2>2. pc'[r] = "fetch" /\ mem'[r] = [mem[r] EXCEPT !.cursor = mem[r].next]
        BY <2>1 DEF CoreInv, RunnerTypeOK
    <2>3. /\ mem'[r].job = mem[r].job /\ mem'[r].at = mem[r].at
          /\ mem'[r].cursor = mem[r].next
        BY <1>1, <2>2 DEF Memory
    <2> QED
        BY <1>2, <1>3, <1>4, <1>5, <1>6, <1>8, <1>10, <2>2, <2>3
<1> QED
    BY <1>9, <1>10

\* A resumed run starts at the stored cursor, or goes on to finalize.
LEMMA ResumeAt ==
    ASSUME CoreInv, NEW r \in Runners, Resume(r)
    PROVE  /\ UNCHANGED storeVars
           /\ mem'[r].job \in Jobs
           /\ \/ /\ pc'[r] = "list" /\ checkpoint[mem'[r].job].completed
                 /\ mem'[r].at = checkpoint[mem'[r].job].at
              \/ /\ pc'[r] = "fetch" /\ ~checkpoint[mem'[r].job].completed
                 /\ checkpoint[mem'[r].job].cursor <= mem'[r].cursor
<1>1. PICK j \in Jobs :
        \/ /\ checkpoint[j].completed
           /\ pc' = [pc EXCEPT ![r] = "list"]
           /\ mem' = [mem EXCEPT ![r] = Fresh(j, LastPage, checkpoint[j].at)]
        \/ /\ ~checkpoint[j].completed
           /\ pc' = [pc EXCEPT ![r] = "fetch"]
           /\ mem' = [mem EXCEPT ![r] =
                         Fresh(j, IF checkpoint[j] = NoCheckpoint THEN 1
                                  ELSE checkpoint[j].cursor, 0)]
    BY DEF Resume, Goto
<1>2. checkpoint[j].cursor \in Nat
    BY DEF CoreInv, StoreTypeOK, Checkpoints
<1>3. CASE checkpoint[j].completed
    <2>1. pc'[r] = "list" /\ mem'[r] = Fresh(j, LastPage, checkpoint[j].at)
        BY <1>1, <1>3 DEF CoreInv, RunnerTypeOK
    <2>2. mem'[r].job = j /\ mem'[r].at = checkpoint[j].at
        BY <2>1 DEF Fresh
    <2> QED
        BY <1>3, <2>1, <2>2 DEF Resume
<1>4. CASE ~checkpoint[j].completed
    <2>1. PICK c : c = IF checkpoint[j] = NoCheckpoint THEN 1 ELSE checkpoint[j].cursor
        OBVIOUS
    <2>2. pc'[r] = "fetch" /\ mem'[r] = Fresh(j, c, 0)
        BY <1>1, <1>4, <2>1 DEF CoreInv, RunnerTypeOK
    <2>3. mem'[r].job = j /\ mem'[r].cursor = c
        BY <2>2 DEF Fresh
    <2>4. checkpoint[j].cursor <= c
        BY <1>2, <2>1 DEF NoCheckpoint
    <2> QED
        BY <1>4, <2>2, <2>3, <2>4 DEF Resume
<1> QED
    BY <1>3, <1>4

\* A fetched page's next cursor is the page after it, where no adapter repeats.
LEMMA FetchAt ==
    ASSUME CoreInv, NEW r \in Runners, FetchPage(r), ~Raise(r), ~Repeats
    PROVE  /\ UNCHANGED storeVars /\ pc[r] = "fetch" /\ pc'[r] = "blob_file"
           /\ mem'[r].job = mem[r].job /\ mem'[r].cursor = mem[r].cursor
           /\ mem'[r].next = mem[r].cursor + 1
<1>1. mem[r] \in Memory
    BY CurrentType DEF CoreInv
<1>2. PICK n \in NextCursors(mem[r].cursor) :
          mem' = [mem EXCEPT ![r].seen = @ \cup {mem[r].cursor},
                             ![r].pages = @ + 1,
                             ![r].at = clock,
                             ![r].next = n,
                             ![r].row = 1]
    BY DEF FetchPage
<1>3. n = mem[r].cursor + 1
    BY DEF NextCursors
<1>4. mem'[r] = [mem[r] EXCEPT !.seen = @ \cup {mem[r].cursor},
                               !.pages = @ + 1, !.at = clock,
                               !.next = n, !.row = 1]
    BY <1>2 DEF CoreInv, RunnerTypeOK
<1>5. /\ mem'[r].job = mem[r].job /\ mem'[r].cursor = mem[r].cursor
      /\ mem'[r].next = n
    BY <1>1, <1>4 DEF Memory
<1>6. UNCHANGED storeVars /\ pc' = [pc EXCEPT ![r] = "blob_file"] /\ pc[r] = "fetch"
    BY DEF FetchPage, Goto, At
<1> QED
    BY <1>3, <1>5, <1>6 DEF CoreInv, RunnerTypeOK

\* An exception stores nothing and leaves the process idle.
LEMMA RaiseAt ==
    ASSUME CoreInv, NEW r \in Runners, Raise(r)
    PROVE  UNCHANGED storeVars /\ pc'[r] = "idle"
BY DEF Raise, Goto, CoreInv, RunnerTypeOK

Forward ==
    \A j \in Jobs :
        /\ checkpoint[j].completed => checkpoint'[j] = checkpoint[j]
        /\ checkpoint'[j].cursor >= checkpoint[j].cursor

\* A step of the only process.
LEMMA SoleStep ==
    ASSUME CoreInv, NEW r \in Runners, ~Repeats, AtOrAfter(r),
           RunnerStep(r) \/ Crash(r)
    PROVE  AtOrAfter(r)' /\ Forward
<1>1. \A j \in Jobs : checkpoint[j].cursor \in Nat
    BY DEF CoreInv, StoreTypeOK, Checkpoints
<1>2. checkpoint' = checkpoint => Forward
    BY <1>1 DEF Forward
<1>3. UNCHANGED storeVars => checkpoint' = checkpoint
    BY DEF storeVars, tableVars
<1>4. CASE Raise(r) \/ Crash(r)
    BY <1>2, <1>3, <1>4, RaiseAt DEF Crash, AtOrAfter, Storing, Steps
<1>5. CASE Resume(r)
    BY <1>2, <1>3, <1>5, ResumeAt DEF AtOrAfter, Storing, Finishing
<1>6. CASE FetchPage(r) /\ ~Raise(r)
    BY <1>2, <1>3, <1>6, FetchAt DEF AtOrAfter, Storing, Steps, Finishing
<1>7. CASE ~Raise(r) /\ (\/ PutRawFile(r) \/ SelectBlob(r) \/ InsertBlob(r)
           \/ SelectReceipt(r) \/ InsertReceipt(r) \/ CheckProgress(r)
           \/ SelectObservation(r) \/ InsertObservation(r)
           \/ PutPartitionFile(r) \/ SelectPartition(r) \/ InsertPartition(r)
           \/ SelectCheckpoint(r))
    BY <1>2, <1>7, PlaceKept DEF AtOrAfter, SamePlace, SameTables
<1>8. CASE UpsertCheckpoint(r)
    <2>1. AtOrAfter(r)'
        <3>1. mem[r].job \in Jobs /\ mem[r] \in Memory
            BY CurrentType DEF CoreInv, Memory
        <3>2. CASE checkpoint'[mem[r].job].completed
            BY <1>8, <3>2, UpsertForward DEF AtOrAfter, Storing, Finishing
        <3>3. CASE ~checkpoint'[mem[r].job].completed
            <4>1. /\ pc'[r] = "fetch" /\ mem'[r].job = mem[r].job
                  /\ checkpoint'[mem[r].job].cursor = mem'[r].cursor
                BY <1>8, <3>3, UpsertForward
            <4>2. checkpoint'[mem[r].job].cursor \in Nat
                BY <1>8, <3>1, UpsertCheckpointKeeps DEF CoreInv, StoreTypeOK, Checkpoints
            <4> QED
                BY <3>3, <4>1, <4>2 DEF AtOrAfter
        <3> QED
            BY <3>2, <3>3
    <2>2. Forward
        BY <1>1, <1>8, UpsertForward DEF Forward
    <2> QED
        BY <2>1, <2>2
<1>9. CASE ~Raise(r) /\ (\/ ListPartitions(r) \/ PutManifestFile(r)
           \/ SelectManifest(r) \/ InsertManifest(r))
    BY <1>2, <1>9, FinalKept DEF AtOrAfter, Storing
<1> QED
    BY <1>4, <1>5, <1>6, <1>7, <1>8, <1>9 DEF RunnerStep

\* A step that is no runner's.
LEMMA OthersStand ==
    ASSUME Tick \/ DamageFile \/ UNCHANGED vars
    PROVE  UNCHANGED <<tableVars, pc, mem>>
BY DEF Tick, DamageFile, Damage, vars, storeVars, fileVars, tableVars

\* With one process and an adapter whose cursors advance, a completed
\* checkpoint stays as it is and none moves back.
THEOREM NeverBack ==
    ASSUME NEW sole, Runners = {sole}, ~Repeats
    PROVE  Spec => CheckpointForward
<1>1. Init => AtOrAfter(sole)
    BY DEF Init, AtOrAfter, Storing, Steps
<1>2. BackfillInv /\ AtOrAfter(sole) /\ [Next]_vars => AtOrAfter(sole)' /\ Forward
    <2> SUFFICES ASSUME BackfillInv, AtOrAfter(sole), [Next]_vars
                 PROVE  AtOrAfter(sole)' /\ Forward
        OBVIOUS
    <2>1. CoreInv
        BY DEF BackfillInv, TypeOK, CoreInv
    <2>2. CASE RunnerStep(sole) \/ Crash(sole)
        BY <2>1, <2>2, SoleStep
    <2>3. CASE Tick \/ DamageFile \/ UNCHANGED vars
        <3>1. UNCHANGED <<checkpoint, pc, mem>>
            BY <2>3, OthersStand DEF tableVars
        <3>2. \A j \in Jobs : checkpoint[j].cursor \in Nat
            BY <2>1 DEF CoreInv, StoreTypeOK, Checkpoints
        <3> QED
            BY <3>1, <3>2 DEF AtOrAfter, Forward
    <2> QED
        BY <2>2, <2>3 DEF Next
<1>3. Forward => [\A j \in Jobs :
          /\ checkpoint[j].completed => checkpoint'[j] = checkpoint[j]
          /\ checkpoint'[j].cursor >= checkpoint[j].cursor]_vars
    BY DEF Forward
<1> QED
    BY <1>1, <1>2, <1>3, InvariantHolds, PTL DEF Spec, CheckpointForward

-----------------------------------------------------------------------------
(* One process and one job.  Once its checkpoint is completed nothing adds *)
(* a partition, so every finalisation finds the same date and partitions.  *)

WholeManifest(j) == [created |-> checkpoint[j].at, parts |-> partitions]

Sealed(r, j) ==
    /\ pc[r] \in Finishing =>
        /\ checkpoint[j].completed /\ mem[r].at = checkpoint[j].at
        /\ pc[r] # "list" => mem[r].manifest = WholeManifest(j)
    /\ manifests \subseteq
         (IF checkpoint[j].completed THEN {WholeManifest(j)} ELSE {})

\* A step of the only process at its only job.
LEMMA SealedStep ==
    ASSUME CoreInv, NEW r \in Runners, NEW j, Jobs = {j}, ~Repeats,
           AtOrAfter(r), Sealed(r, j), RunnerStep(r) \/ Crash(r)
    PROVE  Sealed(r, j)'
<1>1. mem[r].job = j
    BY CurrentType DEF CoreInv, Memory
<1>2. ASSUME UNCHANGED storeVars, pc'[r] \notin Finishing
      PROVE  Sealed(r, j)'
    BY <1>2 DEF Sealed, storeVars, tableVars, WholeManifest
<1>3. CASE Raise(r) \/ Crash(r)
    BY <1>2, <1>3, RaiseAt DEF Crash, Finishing
<1>4. CASE Resume(r)
    <2>1. mem'[r].job = j
        BY <1>4, ResumeAt
    <2>2. CASE pc'[r] = "list"
        BY <1>4, <2>1, <2>2, ResumeAt DEF Sealed, storeVars, tableVars, WholeManifest
    <2>3. CASE pc'[r] = "fetch"
        BY <1>2, <1>4, <2>3, ResumeAt DEF Finishing
    <2> QED
        BY <1>4, <2>2, <2>3, ResumeAt
<1>5. CASE FetchPage(r) /\ ~Raise(r)
    BY <1>2, <1>5, FetchAt DEF Finishing
<1>6. CASE ~Raise(r) /\ (\/ PutRawFile(r) \/ SelectBlob(r) \/ InsertBlob(r)
           \/ SelectReceipt(r) \/ InsertReceipt(r) \/ CheckProgress(r)
           \/ SelectObservation(r) \/ InsertObservation(r)
           \/ PutPartitionFile(r) \/ SelectPartition(r) \/ InsertPartition(r)
           \/ SelectCheckpoint(r))
    <2>1. /\ pc[r] \in Storing /\ pc'[r] \in Storing
          /\ UNCHANGED <<checkpoint, manifests>>
        BY <1>6, PlaceKept DEF SameTables
    <2>2. ~checkpoint[j].completed
        BY <1>1, <2>1 DEF AtOrAfter
    <2> QED
        BY <2>1, <2>2 DEF Sealed, Storing
<1>7. CASE UpsertCheckpoint(r)
    <2>1. manifests' = {}
        BY <1>1, <1>7, UpsertForward DEF Sealed
    <2>2. CASE checkpoint'[j].completed
        <3>1. pc'[r] = "list" /\ mem'[r].at = checkpoint'[j].at
            BY <1>1, <1>7, <2>2, UpsertForward
        <3> QED
            BY <2>1, <2>2, <3>1 DEF Sealed
    <2>3. CASE ~checkpoint'[j].completed
        <3>1. pc'[r] = "fetch"
            BY <1>1, <1>7, <2>3, UpsertForward
        <3> QED
            BY <2>1, <3>1 DEF Sealed, Finishing
    <2> QED
        BY <2>2, <2>3
<1>8. CASE ~Raise(r) /\ (\/ ListPartitions(r) \/ PutManifestFile(r)
           \/ SelectManifest(r) \/ InsertManifest(r))
    <2>1. /\ pc[r] \in Finishing /\ pc'[r] \in Finishing \ {"list"}
          /\ UNCHANGED <<checkpoint, partitions>>
          /\ mem'[r].at = mem[r].at
          /\ \/ /\ pc[r] = "list" /\ manifests' = manifests
                /\ mem'[r].manifest = [created |-> mem[r].at, parts |-> partitions]
             \/ /\ pc[r] # "list" /\ mem'[r].manifest = mem[r].manifest
                /\ manifests' \subseteq manifests \cup {mem[r].manifest}
        BY <1>8, FinalKept
    <2>2. checkpoint[j].completed /\ mem[r].at = checkpoint[j].at
        BY <2>1 DEF Sealed
    <2>3. WholeManifest(j)' = WholeManifest(j)
        BY <2>1 DEF WholeManifest
    <2>4. mem'[r].manifest = WholeManifest(j)
        BY <2>1, <2>2 DEF Sealed, WholeManifest
    <2>5. manifests' \subseteq {WholeManifest(j)}
        BY <2>1, <2>2 DEF Sealed
    <2> QED
        BY <2>1, <2>2, <2>3, <2>4, <2>5 DEF Sealed
<1> QED
    BY <1>3, <1>4, <1>5, <1>6, <1>7, <1>8 DEF RunnerStep

\* However often one process is interrupted, its one job has one manifest.
THEOREM FinalizedOnce ==
    ASSUME NEW sole, Runners = {sole}, NEW j, Jobs = {j}, ~Repeats
    PROVE  Spec => []OneManifest
<1>1. Init => AtOrAfter(sole) /\ Sealed(sole, j)
    BY DEF Init, StoreInit, AtOrAfter, Storing, Steps, Sealed, Finishing
<1>2. BackfillInv /\ AtOrAfter(sole) /\ Sealed(sole, j) /\ [Next]_vars
        => AtOrAfter(sole)' /\ Sealed(sole, j)'
    <2> SUFFICES ASSUME BackfillInv, AtOrAfter(sole), Sealed(sole, j), [Next]_vars
                 PROVE  AtOrAfter(sole)' /\ Sealed(sole, j)'
        OBVIOUS
    <2>1. CoreInv
        BY DEF BackfillInv, TypeOK, CoreInv
    <2>2. CASE RunnerStep(sole) \/ Crash(sole)
        BY <2>1, <2>2, SoleStep, SealedStep
    <2>3. CASE Tick \/ DamageFile \/ UNCHANGED vars
        BY <2>3, OthersStand DEF tableVars, AtOrAfter, Sealed, WholeManifest
    <2> QED
        BY <2>2, <2>3 DEF Next
<1>3. Sealed(sole, j) => OneManifest
    <2> SUFFICES ASSUME NEW m, manifests \subseteq {m}
                 PROVE  Cardinality(manifests) <= 1
        BY DEF Sealed, OneManifest
    <2>1. IsFiniteSet({m}) /\ Cardinality({m}) = 1
        BY FS_Singleton
    <2>2. Cardinality(manifests) <= Cardinality({m})
        BY <2>1, FS_Subset
    <2> QED
        BY <2>1, <2>2
<1> QED
    BY <1>1, <1>2, <1>3, InvariantHolds, PTL DEF Spec
=============================================================================
