--------------------------- MODULE EvidenceStore ---------------------------
(***************************************************************************)
(* The durable state of HistoricalEvidenceStoreV2: content-addressed files *)
(* under the store's root and the tables of catalog.sqlite3, with the      *)
(* single file operations and single SQLite transactions its methods are   *)
(* made of.  Backfill composes them in the order the code runs them.       *)
(*                                                                         *)
(* A SELECT and the INSERT after it are separate steps: the connection is  *)
(* opened with isolation_level="DEFERRED", so Python starts a transaction  *)
(* at the INSERT and not at the SELECT, and another process may commit in  *)
(* between.                                                                *)
(*                                                                         *)
(* Content addressing is identity of content.  The raw bytes of a page are *)
(* <<job, page>>: a provider serves the same history each time.  A receipt *)
(* is one fetch of a page at one time.  A partition's rows are determined  *)
(* by its fetch, so the fetch also names the partition and its file.       *)
(***************************************************************************)
EXTENDS Naturals, FiniteSets

CONSTANTS
    Jobs,       \* backfill jobs (job_key digests), all writing one dataset
    LastPage,   \* a job's pages are 1..LastPage; the last one is completed
    Rows,       \* Rows[<<j, c>>]: observations on page c of job j
    IdByFetch   \* TRUE: the adapter derives observation_id from the fetch;
                \* FALSE: it derives it from the logical record alone

ASSUME StoreAssumption ==
    /\ LastPage \in Nat \ {0}
    /\ Rows \in [Jobs \X (1..LastPage) -> Nat]
    /\ IdByFetch \in BOOLEAN

VARIABLES
    blobFiles,     \* payloads with a file under raw/sha256
    partFiles,     \* partitions with a file under normalized/
    badBlobs,      \* payload files whose bytes were damaged on disk
    badParts,      \* partition files whose bytes were damaged on disk
    rawBlobs,      \* table raw_blobs
    receipts,      \* table fetch_receipts
    observations,  \* table observations
    partitions,    \* tables partitions and partition_members
    manifestFiles, \* files under manifests/
    manifests,     \* table manifests
    checkpoint     \* table checkpoints: one row, or none, per job

fileVars == <<blobFiles, partFiles, badBlobs, badParts, manifestFiles>>
tableVars == <<rawBlobs, receipts, observations, partitions, manifests,
               checkpoint>>
storeVars == <<fileVars, tableVars>>
-----------------------------------------------------------------------------
Pages == 1..LastPage
Payloads == Jobs \X Pages
Fetches == [job : Jobs, page : Pages, at : Nat]
Observations == [fetch : Fetches, row : Nat]
Manifests == [created : Nat, parts : SUBSET Fetches]

\* The cursor {"completed": true} of a completed job is LastPage + 1; the
\* absence of a row is cursor 0, which no page has.
Checkpoints == [cursor : 0..(LastPage + 1), completed : BOOLEAN, at : Nat]
NoCheckpoint == [cursor |-> 0, completed |-> FALSE, at |-> 0]

RowsOf(j, c) == Rows[<<j, c>>]
PayloadOf(f) == <<f.job, f.page>>
ObservationsOf(f) ==
    {[fetch |-> f, row |-> i] : i \in 1..RowsOf(f.job, f.page)}

\* The primary key an adapter gives an observation.
ObservationId(o) ==
    <<o.fetch.job, o.fetch.page, o.row, IF IdByFetch THEN o.fetch.at ELSE 0>>

\* The stored row with the primary key of o, if there is one.
StoredAs(o) == {q \in observations : ObservationId(q) = ObservationId(o)}

StoreTypeOK ==
    /\ blobFiles \subseteq Payloads /\ badBlobs \subseteq blobFiles
    /\ partFiles \subseteq Fetches /\ badParts \subseteq partFiles
    /\ rawBlobs \subseteq Payloads
    /\ receipts \subseteq Fetches
    /\ observations \subseteq Observations
    /\ partitions \subseteq Fetches
    /\ manifestFiles \subseteq Manifests
    /\ manifests \subseteq Manifests
    /\ checkpoint \in [Jobs -> Checkpoints]

StoreInit ==
    /\ blobFiles = {} /\ badBlobs = {}
    /\ partFiles = {} /\ badParts = {}
    /\ rawBlobs = {} /\ receipts = {} /\ observations = {}
    /\ partitions = {}
    /\ manifestFiles = {} /\ manifests = {}
    /\ checkpoint = [j \in Jobs |-> NoCheckpoint]
-----------------------------------------------------------------------------
(* Files: _atomic_write puts a complete file in place by rename, or does   *)
(* nothing when a file of that name is already there.                      *)

WriteBlobFile(b) ==
    /\ b \notin badBlobs
    /\ blobFiles' = blobFiles \cup {b}
    /\ UNCHANGED <<partFiles, badBlobs, badParts, manifestFiles, tableVars>>

WritePartFile(f) ==
    /\ f \notin badParts
    /\ partFiles' = partFiles \cup {f}
    /\ UNCHANGED <<blobFiles, badBlobs, badParts, manifestFiles, tableVars>>

WriteManifestFile(m) ==
    /\ manifestFiles' = manifestFiles \cup {m}
    /\ UNCHANGED <<blobFiles, partFiles, badBlobs, badParts, tableVars>>

(* Transactions: each INSERT commits only if its primary key is free.      *)

InsertBlobRow(b) ==
    /\ b \notin rawBlobs
    /\ rawBlobs' = rawBlobs \cup {b}
    /\ UNCHANGED <<fileVars, receipts, observations, partitions, manifests,
                   checkpoint>>

InsertReceiptRow(f) ==
    /\ f \notin receipts
    /\ receipts' = receipts \cup {f}
    /\ UNCHANGED <<fileVars, rawBlobs, observations, partitions, manifests,
                   checkpoint>>

InsertObservationRow(o) ==
    /\ StoredAs(o) = {}
    /\ observations' = observations \cup {o}
    /\ UNCHANGED <<fileVars, rawBlobs, receipts, partitions, manifests,
                   checkpoint>>

InsertPartitionRow(f) ==
    /\ f \notin partitions
    /\ partitions' = partitions \cup {f}
    /\ UNCHANGED <<fileVars, rawBlobs, receipts, observations, manifests,
                   checkpoint>>

InsertManifestRow(m) ==
    /\ m \notin manifests
    /\ manifests' = manifests \cup {m}
    /\ UNCHANGED <<fileVars, rawBlobs, receipts, observations, partitions,
                   checkpoint>>

\* INSERT ... ON CONFLICT(job_key) DO UPDATE: no condition on the old row.
UpsertCheckpointRow(j, c, completed, at) ==
    /\ checkpoint' = [checkpoint EXCEPT
            ![j] = [cursor |-> c, completed |-> completed, at |-> at]]
    /\ UNCHANGED <<fileVars, rawBlobs, receipts, observations, partitions,
                   manifests>>

\* The disk, not the program: bytes of a file change after it was written.
Damage(b, f) ==
    /\ \/ b \in blobFiles \ badBlobs /\ badBlobs' = badBlobs \cup {b}
          /\ UNCHANGED badParts
       \/ f \in partFiles \ badParts /\ badParts' = badParts \cup {f}
          /\ UNCHANGED badBlobs
    /\ UNCHANGED <<blobFiles, partFiles, manifestFiles, tableVars>>
=============================================================================
