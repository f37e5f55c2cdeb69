-------------------------- MODULE OperationalStore --------------------------
(***************************************************************************)
(* SQLiteStore: the database file as a value, and what its transactions    *)
(* make of it.  A snapshot is the time it was generated at: the demo frame *)
(* is always the same, and with it the rest of a snapshot.  The times of a *)
(* table are in the order of its ids.                                      *)
(*                                                                         *)
(* Opening a file creates missing tables and sets schema_version to the    *)
(* only value there is.  A transaction on a damaged file raises.           *)
(***************************************************************************)
EXTENDS AlertRegistry, Sequences, SequencesExt

\* snapshots and checked are regime_snapshots and provider_health; audited is
\* the number of audit_events.
EmptyDatabase ==
    [snapshots |-> [h \in Horizons |-> <<>>], checked |-> <<>>,
     audited |-> 0, damaged |-> FALSE]

\* Mutant of Upserted: what is older than what is there is not stored.
UpsertedNewer(table, time) ==
    IF \E t \in Range(table) : t >= time THEN table ELSE Append(table, time)

\* INSERT ... ON CONFLICT DO UPDATE keeps the id of the row there is.
Upserted(table, time) ==
    IF time \in Range(table) THEN table ELSE Append(table, time)

\* save_snapshot: the row and its audit event are one transaction.
SnapshotSaved(db, h, time) ==
    [db EXCEPT !.snapshots[h] = Upserted(@, time), !.audited = @ + 1]

\* save_health, of the one provider there is.
HealthSaved(db, time) ==
    [db EXCEPT !.checked = Upserted(@, time), !.audited = @ + 1]

\* Mutant of Latest: the row with the largest id.
LatestById(db, h) ==
    IF db.snapshots[h] = <<>> THEN 0 ELSE Last(db.snapshots[h])

\* latest_snapshot, by generated_at; 0 stands for none.
Latest(db, h) ==
    IF db.snapshots[h] = <<>> THEN 0 ELSE Max(Range(db.snapshots[h]))

\* Every row of the first database is a row of the second.
RowsKept(old, new) ==
    /\ \A h \in Horizons : Range(old.snapshots[h]) \subseteq Range(new.snapshots[h])
    /\ Range(old.checked) \subseteq Range(new.checked)
    /\ old.audited <= new.audited
=============================================================================
