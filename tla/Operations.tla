----------------------------- MODULE Operations -----------------------------
(***************************************************************************)
(* Workers that run the pipeline (run_demo) into one directory, readers of *)
(* the HTTP interface, and an operator who backs the database up and       *)
(* restores it, without the lock between workers that run_forever asks     *)
(* for.  run_forever takes any job: here it is run_demo, the one that      *)
(* stores something.                                                       *)
(*                                                                         *)
(* A worker that crashes and is started again leaves what one leaves whose *)
(* job raised.  The snapshots of a run are generated at one time: nothing  *)
(* here tells the moments between them apart.                              *)
(***************************************************************************)
EXTENDS OperationalStore

CONSTANTS
    Workers,
    HorizonOrder,  \* the horizons as Horizon lists them
    Facts,         \* the snapshots of the demo frame, by horizon
    Files,         \* the files of the directory, in the order they are written
    MaxClock,      \* bound: the clock
    MaxStarts,     \* MaxStarts[w]: bound, runs of worker w
    MaxRaises,     \* bound: runs that raise
    MaxBackups,    \* bound: calls of backup_to
    MaxRestores    \* bound: calls of restore_from

ASSUME OperationsAssumption ==
    /\ HorizonOrder \in Seq(Horizons) /\ Range(HorizonOrder) = Horizons
    /\ Len(HorizonOrder) >= 1
    /\ Facts \in [Horizons -> Snapshots]
    /\ \A h \in Horizons : Facts[h].horizon = h
    /\ Files \in Seq(STRING) /\ IsInjective(Files) /\ Len(Files) >= 1
    /\ MaxStarts \in [Workers -> Nat]
    /\ {MaxClock, MaxRaises, MaxBackups, MaxRestores} \subseteq Nat

VARIABLES
    clock,     \* datetime.now
    db,        \* the database of the directory
    files,     \* files[f]: <<worker, time>> of the run that wrote f last
    step,      \* step[w]: what run_demo does next, or "sleeping"
    done,      \* done[w]: rounds of the loop of that step that are done
    time,      \* time[w]: generated_at of the run's snapshots
    alerts,    \* alerts[w]: the keys of the run's alerts
    result,    \* result[w]: "none", "returned" or "raised"
    starts,    \* starts[w]: runs begun
    raises,    \* runs that raised
    backup,    \* the backup file: <<>> or <<a database>>
    backups,   \* calls of backup_to
    restore,   \* step of restore_from, or how the last call ended
    restores,  \* calls of restore_from
    kept,      \* history: kept[w], no restore since the run began
    alone,     \* history: alone[w], no other run since the run began
    copied,    \* history: the database that the last restore copied
    late       \* history: the backup was damaged after it was checked

workerVars == <<step, done, time, alerts, result, starts, raises>>
restoreVars == <<backups, restore, restores, copied, late>>
historyVars == <<kept, alone>>
opsVars == <<clock, db, files, workerVars, backup, restoreVars, historyVars>>
-----------------------------------------------------------------------------
Running(w) == step[w] # "sleeping"

OpsInit ==
    /\ clock = 1 /\ db = EmptyDatabase /\ files = [n \in DOMAIN Files |-> <<>>]
    /\ step = [w \in Workers |-> "sleeping"] /\ done = [w \in Workers |-> 0]
    /\ time = [w \in Workers |-> 0]
    /\ alerts = [w \in Workers |-> {}] /\ result = [w \in Workers |-> "none"]
    /\ starts = [w \in Workers |-> 0] /\ raises = 0
    /\ backup = <<>> /\ backups = 0 /\ restore = "none" /\ restores = 0
    /\ copied = EmptyDatabase /\ late = FALSE
    /\ kept = [w \in Workers |-> TRUE] /\ alone = [w \in Workers |-> TRUE]

\* Bound: the clock stops when no run will read it any more.
Tick ==
    /\ clock < MaxClock /\ \E w \in Workers : starts[w] < MaxStarts[w]
    /\ clock' = clock + 1
    /\ UNCHANGED <<db, files, workerVars, backup, restoreVars, historyVars>>
-----------------------------------------------------------------------------
(* run_forever, and run_demo. *)

\* The next of rounds of a loop, then the step after it.
Round(w, rounds, next) ==
    IF done[w] + 1 < rounds
      THEN done' = [done EXCEPT ![w] = @ + 1] /\ UNCHANGED step
      ELSE done' = [done EXCEPT ![w] = 0] /\ step' = [step EXCEPT ![w] = next]

\* The job begins: features and snapshots.
Score(w) ==
    /\ ~Running(w) /\ starts[w] < MaxStarts[w]
    /\ step' = [step EXCEPT ![w] = "health"]
    /\ time' = [time EXCEPT ![w] = clock]
    /\ alerts' = [alerts EXCEPT ![w] = {}]
    /\ result' = [result EXCEPT ![w] = "none"]
    /\ starts' = [starts EXCEPT ![w] = @ + 1]
    /\ kept' = [kept EXCEPT ![w] = TRUE]
    /\ alone' = [v \in Workers |-> v = w /\ \A u \in Workers : ~Running(u)]
    /\ UNCHANGED <<clock, db, files, done, raises, backup, restoreVars>>

SaveHealth(w) ==
    /\ step[w] = "health" /\ ~db.damaged
    /\ db' = HealthSaved(db, time[w])
    /\ step' = [step EXCEPT ![w] = "snapshots"]
    /\ UNCHANGED <<clock, files, done, time, alerts, result, starts, raises,
                   backup, restoreVars, historyVars>>

SaveSnapshot(w) ==
    /\ step[w] = "snapshots" /\ ~db.damaged
    /\ db' = SnapshotSaved(db, HorizonOrder[done[w] + 1], time[w])
    /\ Round(w, Len(HorizonOrder), "files")
    /\ UNCHANGED <<clock, files, time, alerts, result, starts, raises,
                   backup, restoreVars, historyVars>>

\* The alerts of a run: a new registry evaluates its snapshots in their order.
EvaluateAlerts ==
    LET Evaluate(a, h) ==
            [told |-> a.told \cup Told(a.registry, Facts[h], clock),
             registry |-> Remembered(a.registry, Facts[h], clock)]
    IN  FoldLeft(Evaluate, [told |-> {}, registry |-> FreshRegistry],
                 HorizonOrder).told

\* write_text, the alerts before the first one, and the return of run_demo
\* after the last.
WriteFile(w) ==
    /\ step[w] = "files"
    /\ alerts' = IF done[w] = 0 THEN [alerts EXCEPT ![w] = EvaluateAlerts]
                                ELSE alerts
    /\ files' = [files EXCEPT ![done[w] + 1] = <<w, time[w]>>]
    /\ Round(w, Len(Files), "sleeping")
    /\ result' = IF done[w] + 1 = Len(Files)
                   THEN [result EXCEPT ![w] = "returned"] ELSE result
    /\ UNCHANGED <<clock, db, time, starts, raises, backup, restoreVars,
                   historyVars>>

\* Mutant of Raise: the loop ends.
RaiseEnds(w) ==
    /\ Running(w) /\ raises < MaxRaises
    /\ raises' = raises + 1
    /\ step' = [step EXCEPT ![w] = "ended"] /\ done' = [done EXCEPT ![w] = 0]
    /\ result' = [result EXCEPT ![w] = "raised"]
    /\ UNCHANGED <<clock, db, files, time, alerts, starts, backup,
                   restoreVars, historyVars>>

\* Anything may raise (a locked or damaged database, a full disk); it is
\* logged, and the loop goes on.
Raise(w) ==
    /\ Running(w) /\ raises < MaxRaises
    /\ raises' = raises + 1
    /\ step' = [step EXCEPT ![w] = "sleeping"] /\ done' = [done EXCEPT ![w] = 0]
    /\ result' = [result EXCEPT ![w] = "raised"]
    /\ UNCHANGED <<clock, db, files, time, alerts, starts, backup,
                   restoreVars, historyVars>>

Work(w) ==
    Score(w) \/ SaveHealth(w) \/ SaveSnapshot(w) \/ WriteFile(w)
-----------------------------------------------------------------------------
\* Bound: a backup that nobody will read any more does not change.
BackupRead == restores < MaxRestores \/ restore = "copy"

\* backup_to copies a state between two transactions.
BackUp ==
    /\ backups < MaxBackups /\ BackupRead
    /\ backup' = <<db>> /\ backups' = backups + 1
    /\ UNCHANGED <<clock, db, files, workerVars, restore, restores, copied, late,
                   historyVars>>

\* The file, not the program: pages of the backup change, in a way that
\* PRAGMA quick_check reports.  Damage that it does not read, to the contents of
\* rows or of an index, would pass both checks: it is left out.
DamageBackup ==
    /\ backup # <<>> /\ ~backup[1].damaged /\ BackupRead
    /\ backup' = <<[backup[1] EXCEPT !.damaged = TRUE]>>
    /\ late' = (late \/ restore = "copy")
    /\ UNCHANGED <<clock, db, files, workerVars, backups, restore, restores, copied,
                   historyVars>>

RestoreIdle == restore \notin {"copy", "check"}

\* Mutant of CheckBackup: is_file is all that is asked.
CheckBackupIsFile ==
    /\ RestoreIdle /\ restores < MaxRestores
    /\ restores' = restores + 1
    /\ restore' = IF backup = <<>> THEN "refused" ELSE "copy"
    /\ UNCHANGED <<clock, db, files, workerVars, backup, backups, copied, late,
                   historyVars>>

\* restore_from: is_file and the first quick_check.
CheckBackup ==
    /\ RestoreIdle /\ restores < MaxRestores
    /\ restores' = restores + 1
    /\ restore' = IF backup = <<>> THEN "refused"
                  ELSE IF backup[1].damaged THEN "refused" ELSE "copy"
    /\ UNCHANGED <<clock, db, files, workerVars, backup, backups, copied, late,
                   historyVars>>

\* source_conn.backup: the target is overwritten at once.
CopyBackup ==
    /\ restore = "copy"
    /\ db' = backup[1] /\ copied' = backup[1]
    /\ restore' = "check"
    /\ kept' = [w \in Workers |-> FALSE]
    /\ UNCHANGED <<clock, files, workerVars, backup, backups, restores, late, alone>>

\* source_conn.backup raises, and leaves the target as it was.
FailCopy ==
    /\ restore = "copy" /\ restore' = "raised"
    /\ UNCHANGED <<clock, db, files, workerVars, backup, backups, restores, copied,
                   late, historyVars>>

\* The target is opened and checked when nothing else is left of it.
CheckRestored ==
    /\ restore = "check"
    /\ restore' = IF db.damaged THEN "raised" ELSE "returned"
    /\ UNCHANGED <<clock, db, files, workerVars, backup, backups, restores, copied,
                   late, historyVars>>

OpsNext ==
    \/ Tick
    \/ \E w \in Workers : Work(w) \/ Raise(w)
    \/ BackUp \/ DamageBackup \/ CheckBackup \/ CopyBackup \/ FailCopy
    \/ CheckRestored

\* A worker does not stop between two statements, and asyncio.sleep ends.
OpsFairness == \A w \in Workers : WF_opsVars(Work(w))

OpsSpec == OpsInit /\ [][OpsNext]_opsVars /\ OpsFairness
-----------------------------------------------------------------------------
(* Properties. *)

\* What readers are shown of a horizon never goes back, in whatever order
\* overlapping runs save: only a restore takes it back (latest_snapshot, which
\* latest_xrp_regime, explain_xrp and readiness call).
SnapshotsForward ==
    [][CopyBackup \/ \A h \in Horizons : Latest(db', h) >= Latest(db, h)]_opsVars

\* A run that returned left what it returned: its rows are in the database
\* whatever other runs did, unless a restore began another history under it,
\* with an audit event each; its alerts are all those that its snapshots
\* meet, whatever was told in runs before; and the files are its own if no
\* other run was under way (run_demo).
RunTold ==
    \A w \in Workers : result[w] = "returned" =>
        /\ kept[w] => /\ time[w] \in Range(db.checked)
                      /\ \A h \in Horizons : time[w] \in Range(db.snapshots[h])
        /\ db.audited >= Len(db.checked) +
                         MapThenSumSet(LAMBDA h : Len(db.snapshots[h]), Horizons)
        /\ alerts[w] = {k \in Keys : k[1] \in Conditions(Facts[k[2]])}
        /\ alone[w] => \A n \in DOMAIN Files : files[n] = <<w, time[w]>>

\* A restore never puts a database that quick_check would report in place of a
\* good one, unless the backup is damaged between its check and its copy; and
\* when it returns, the database holds every row of the backup, whatever runs
\* saved meanwhile (restore_from).
RestoreSound ==
    /\ db.damaged => late
    /\ restore = "returned" => RowsKept(copied, db)

\* A job that raised is run again, whatever it left behind (run_forever).
JobRunsAgain ==
    \A w \in Workers : \A n \in 1..(MaxStarts[w] - 1) :
        (result[w] = "raised" /\ starts[w] = n) ~> (starts[w] = n + 1)
=============================================================================
