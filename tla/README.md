# A TLA+ model of the XRP regime engine

`src/xrp_regime_engine` collects market evidence, stores it so that it can be
replayed as of any past moment, and runs research on it whose central promise
is that no prediction ever sees the future. This directory models the parts of
it whose correctness depends on interleavings, crashes, message order and the
order of events in time; TLC checks the models on small instances and TLAPS
proves their main properties for all instances.

Paths below are relative to the package `src/xrp_regime_engine/`.

## 1. The system

| Part | State it keeps | Operations | Talks to |
|---|---|---|---|
| Durable evidence store (`historical_store_v2.py`) | content-addressed files `raw/`, `normalized/`, `manifests/`; SQLite tables `raw_blobs`, `fetch_receipts`, `observations`, `partitions` (+ members), `manifests`, `checkpoints` | `put_raw`, `record_fetch`, `save_observation`, `write_partition`, `finalize_manifest`, `save_checkpoint`, `persist_partition_then_checkpoint` | called by the runner; shared by processes through the file system and SQLite |
| Backfill runner (`historical_backfill_v2.py`) | local variables of `run()`; everything durable is in the store | `run`: resume, fetch, validate, record, persist, checkpoint, finalise | adapter (external), store |
| Local order book (`local_book.py`) | bids, asks, `last_update_id`, `synchronized`, `observed_at` | `from_snapshot`, `apply_first_delta`, `apply_delta`, `top` | an exchange's snapshot and delta stream, through a caller outside the repository |
| Depth dynamics (`depth_dynamics.py`) | none of its own | `apply_delta_with_dynamics` | mutates the local order book |
| Walk-forward folds (`walk_forward_v1.py`) | the fold loop | `join_labeled_rows`, `build_walk_forward_folds` | feature rows and labels in, folds out to the baseline factory |
| Point-in-time contract (`historical_contract.py`) | none; it reads the store's catalog | eligibility, `select_as_of`, `SourceSnapshot` | store rows in, snapshots out |
| Research ledgers (`oos_predictions_v1.py`, `future_labels_v1.py`, `historical_features_v1.py`) | SQLite tables of content-addressed rows; metadata with the ledger's role | `save*`, `load`, `resolved_pairs` | shared by processes |
| Baseline factory (`baseline_oos_factory_v1.py`, `baseline_models_v1.py`) | the loops over folds and model kinds | `run_baseline_oos_factory`: fit, predict, resolve, compare | folds, features and labels in; predictions, outcomes and a challenger out |
| Calibration (`calibration_evidence_v1.py`, `platt_calibration_v1.py`) | none | evidence of a sample; fit and apply a candidate | resolved predictions |
| Baseline registry and research matrix (`baseline_model_registry_v1.py`, `baseline_research_matrix_v1.py`) | none | register fits, run the factory per event and horizon | baseline factory |
| Dataset versions (`dataset_version_v1.py`) | none | coverage, gap detection, identity | observations |
| Provider client (`providers/base.py`) and adapters | HTTP client | `_request_json` with retries, `health` | public endpoints |
| Price consensus (`consensus.py`) | none | `consensus_close` | candles of several providers in, one price or none out |
| Regime state (`regime_state_v1.py`) | none | `classify_regime` | a feature row in, its regime and signals out |
| Historical analogs (`historical_analog_v1.py`) | none | `search_historical_analogs`, `run_analog_sensitivity` | regime states |
| Analog challenger (`regime_analog_challenger_v1.py`) | the loops over folds and test rows | `run_regime_analog_oos_challenger` | a returned baseline run, features and labels in; predictions, suppressions and a verdict out |
| Pipeline (`pipeline.py`) | six files and a database in one directory | `run_demo` | storage, alerts |
| Operational storage (`storage.py`) | SQLite snapshots, health, lineage, audit events | `save_*`, `latest_*`, backup and restore | pipeline, interface |
| Alerts and scheduler (`alerts.py`, `scheduler.py`) | last alert time per key, in memory | `evaluate`, `run_forever` | pipeline |
| Market state, alignment, attribution, lineage, regime scoring, backtest | none (pure functions) | validate and compute | each other |
| Semantic brain (`semantic_brain/`) | claim ledger, graph | export, index | external services |
| Command line, HTTP interface, configuration | none | | all |

### What is hard

* **Processes share a database with windows between reading and writing.**
  The store's connections are opened with `isolation_level="DEFERRED"`, so
  Python opens a transaction at the first INSERT or UPDATE: a SELECT before it
  is not part of the transaction. Every "look, then insert" of the store and of
  the ledgers has this window; only primary keys and UNIQUE constraints close
  it, and `save_checkpoint`'s UPSERT has none that does.
* **Crashes and errors between durable steps.** One page of a backfill is four
  files and rows or more, in separate transactions. An exception in the middle
  leaves `run()`, whose memory (seen cursors, budgets, pages) is lost. A run of
  the pipeline writes rows and files one after the other without a lock, and a
  restore overwrites the database under it.
* **Lost, repeated, late and overlapping deltas.** The local book must notice a
  gap, and its object stays around after a failed call.
* **Time.** Labels are resolved late and in another order than predictions were
  made; an inclusive comparison or a wrong slice is a leak of the future.
* **Evidence that is handed over twice.** The analog challenger reads features and
  labels again after the baseline run it is compared with; nothing says they are
  the same, and many rows are suppressed on the way.
* **Outside services.** Replies that may be tried again come in any mixture, with
  pauses of their own; providers deliver any number of candles.

### What makes each part correct

* Store and runner: a checkpoint is never past a missing partition; each row of
  a manifest can be traced to raw bytes; a returned run has published its whole
  job; interrupted jobs finish; retries do not duplicate.
* Local book: equal to the exchange's book after some update, valid and not
  going back while served; reported depth changes are the changes of the book.
* Folds: no training label within the embargo of a tested prediction, no row
  tested twice, windows that only move forward.
* Baseline factory and calibration: what a score depends on was known before its
  prediction, also when labels are revised after planning and through the
  calibrator; models are compared on the same rows.
* Point-in-time contract: a selection uses nothing of the future, a replay gives
  what it gave before, the newest eligible revision wins.
* Ledgers and research stores: an outcome is written once, an acknowledged save is
  read back, features and labels never share a file.
* Analog challenger: what resembles a row was known before the row's prediction;
  no test row disappears; the comparison is on the same rows and never fails for
  want of a baseline.
* Provider client and consensus: all attempts and no others are used, every pause is
  kept; a minority of providers does not move the price.
* Pipeline, storage, alerts, scheduler: what a run that returned has saved stays,
  readers are never taken back but by a restore, a restore does not put a damaged
  database in place of a good one, a job that failed runs again.

The machine-readable lists of components, hazards, findings, theorems and the
map from definitions to source lines are in `PROJECT.json`.

## 2. Modules

| Module | Models | Kind |
|---|---|---|
| `EvidenceStore` | files and tables of the store, one operator per file operation or transaction | state and operations, no Next of its own |
| `Backfill` | `BackfillRunnerV2.run` by several processes over `EvidenceStore` | specification, properties, invariant |
| `DurableProgress` | what store and runner promise, without files, rows, processes and failures | abstract specification |
| `MCBackfill` | instances for TLC | |
| `BackfillProofs` | theorems about `Backfill` | proofs |
| `LocalBook` | `LocalOrderBook` and `apply_delta_with_dynamics` against an exchange | specification, properties, invariant |
| `ProviderClient` | one call of `_request_json` | specification, properties |
| `PriceConsensus` | `consensus_close` over any list of candles | operators, property |
| `MCMarketData`, `MarketDataProofs` | instance of `LocalBook`, `ProviderClient` and `PriceConsensus`; theorems about each | |
| `WalkForward` | `build_walk_forward_folds` | specification, properties, invariant |
| `WalkForwardProofs` | theorems about `WalkForward` | proofs |
| `BaselineOOS` | `run_baseline_oos_factory`, the judgement of its models and the recalibration of their scores, over the folds of `WalkForward` | specification that extends `WalkForward`, properties, invariant |
| `MCBaselineOOS`, `BaselineOOSProofs` | instance of both; theorems | |
| `PointInTime` | `HistoricalObservation`, `select_as_of`, `SourceSnapshot` over a growing catalog | specification, properties |
| `MCPointInTime` | instance of sources without revision numbers | |
| `OOSLedger` | `OOSPredictionLedgerV1` shared by processes | specification, properties |
| `WriteOnce` | what an immutable ledger promises | abstract specification |
| `ResearchStore` | `FeatureStoreV1` and `FutureLabelStoreV1` over one file | specification, properties |
| `MCResearchStore` | instance of two processes that open one file as different stores | |
| `MCResearchRecords`, `ResearchRecordsProofs` | instance of `PointInTime`, `OOSLedger` and `ResearchStore`; theorems about each | |
| `RegimeState` | `classify_regime`: signals and the rules over them | operators |
| `HistoricalAnalog` | `search_historical_analogs`, `run_analog_sensitivity` | operators |
| `AnalogChallenger` | `run_regime_analog_oos_challenger` after a run of `BaselineOOS` | specification that extends `BaselineOOS`, properties |
| `MCAnalogChallenger`, `AnalogChallengerProofs` | instance; theorems | |
| `AlertRegistry` | `AlertRegistry.evaluate` | operators |
| `OperationalStore` | the transactions of `SQLiteStore` | operators |
| `Operations` | workers that run the pipeline, readers, backup and restore | specification, properties |
| `MCOperations`, `OperationsProofs` | instance; theorems | |
| `FiniteSetFacts` | smallest elements, images, sums and folds over finite sets; no code | lemmas of the other proofs |

In each module the definitions that begin with "Mutant of" are plausible bugs:
each replaces one definition of the model, and TLC must then find a property
violated. They show that the properties depend on the code.

### Backfill and EvidenceStore

`pc[r]` names the next operation of runner `r`, one per file operation, SELECT,
or transaction; `mem[r]` holds the local variables of `run()` and of what it
calls. A page is a number: the adapter's cursors `1..LastPage` go through the
history and the last page is the completed one. The cursor `{"completed": true}`
is `LastPage + 1`, no row is cursor 0. Content addressing is identity of
content: the raw bytes of a page are `<<job, page>>`, a receipt is one fetch
`[job, page, at]`, and a partition is named by its fetch, since its payload holds
the observations with the fetch they came from.

| Code | Action |
|---|---|
| `run`: load_checkpoint, completed or not | `Resume` |
| `run`: max_pages, fetch_page | `FetchPage` |
| `put_raw`: file, SELECT, INSERT | `PutRawFile`, `SelectBlob`, `InsertBlob` |
| `record_fetch`: SELECT, INSERT | `SelectReceipt`, `InsertReceipt` |
| `run`: empty pages, forward progress | `CheckProgress` |
| `save_observation` per row: SELECT, INSERT | `SelectObservation`, `InsertObservation` |
| `write_partition`: file, SELECT, INSERT with members | `PutPartitionFile`, `SelectPartition`, `InsertPartition` |
| `save_checkpoint`: SELECT, UPSERT; loop back or finish | `SelectCheckpoint`, `UpsertCheckpoint` |
| `finalize_manifest`: list and verify, file, SELECT, INSERT | `ListPartitions`, `PutManifestFile`, `SelectManifest`, `InsertManifest` |
| an exception | the `Raise` disjunct of each action |
| process death; "database is locked" after the busy timeout | `Crash` |

External, and modelled from how the code uses it: the adapter. `Rows` says how
many observations each page has (0 is an empty page), `Repeats` whether it may
return a cursor it returned before, `IdByFetch` whether its observation ids
come from the fetch or from the record; the repository leaves this choice to the
adapter. Its history is stable: a page refetched has the same raw bytes. `Tick`
moves the clock of `fetched_at`, `DamageFile` damages bytes on disk.

### LocalBook

The exchange's book after each numbered update is `history`. A delta covers
updates `first..final` and lists at least the levels that were not the same all
along, with their quantity after `final`; any delta about any part of the history
may arrive at any time, which covers loss, repetition, delay, reordering and
overlap. `repeats` marks a delta that names a level twice, which
`_level_changes` refuses. The caller may call every method in any order,
`from_snapshot` with an old snapshot included. A snapshot holds the whole book:
the depth limit of REST snapshots is not modelled, and neither are naive
datetimes, other invalid arguments and the provenance flags of the result.

### WalkForward

The input is any dataset that `join_labeled_rows` can return (rows in the order
of distinct prediction times, each label resolved after its prediction) and any
configuration `WalkForwardConfig` accepts. A row is its position. One step plans
or skips one window; the last one returns or raises.

### BaselineOOS

`Plan` is a step of `WalkForward`. When that has returned, a caller may run the
factory:

| Code | Action or variable |
|---|---|
| features and labels handed over (`_rows_by_feature_id`) | `bundle` |
| `_validate_folds` | `StartRun`, which sets `used` (`ordered_folds`) |
| the loops over folds and kinds: `_fold_rows`, `fit_baseline_model`, `predict`, `OOSPrediction.build`, `resolve_oos_outcome` | `RunModel`, one round each; `turn` counts them, `records` holds predictions with outcomes |
| evidence per kind, `_skill_entry`, `development_challenger` | `Judge`, which sets `skills` and `challenger` |
| `fit_platt_calibrator_candidate`, `apply_platt_candidate` | `FitCalibrator`, `Recalibrate` |

Folds name rows by ids, so the rows handed over need not be those the folds were
planned with: up to `MaxRevised` labels are resolved at another time, have another
outcome or no such barrier, lack features, or are missing. A feature row's id is
the digest of its content with its prediction time, which is why those cannot
change and why the checks of `OOSPrediction.build` cannot fail here. Models are
not computed: every score of `Scores` is possible, the same on all test rows for
B0 and B1, which look at no features. Scores are parts of `Whole` and `Loss` is a
table, so that means are compared exactly as sums; the tolerances of the skill
policy have their default, zero. One calibrator and one candidate per
behaviour are enough for what is stated of any pair of them.

### PointInTime

Times are instants and dates count days of `Day` instants. `Publish` brings out a
revision of a series, `Fetch` makes an observation of any published revision at
the present time, and `Save` or `Lose` ends what happens between fetch and
catalog; in between others may be fetched and saved. `published_at` is what really
happened and no operator of the code reads it; `StatedAvailability` says what a
source may state about it, within what `__post_init__` accepts: the exact time, the
date, a later time that is still before the fetch (`INFERRED_CONSERVATIVE`), or
nothing. An adapter that states an availability earlier than the publication
breaks its contract and is not modelled. `Selected`, `Ambiguous`, `SnapshotClass` and
`SnapshotRaises` are `select_as_of` and `SourceSnapshot.build` as functions of the
catalog, asked for every time up to now.

### OOSLedger and ResearchStore

`pc[p]` names the next transaction of process `p`. Identity is content: an id
is the payload it was computed from, and a copy altered with
`dataclasses.replace` keeps the id and has another body, which
`ContentIdentityMatches` notices. What a read notices of a payload that was changed on disk
is that it does not agree with its own digest. In `ResearchStore`, `DamageRow` also puts
the payload of another row in place, which `load` returns, because it never compares
the payload with the id that was asked for: `SavedReadable` says that a saved
row is never missing, and is loaded again unless its payload was changed. `Damage` of the ledger
only makes payloads that do not agree with their digests; payloads exchanged for others are
left out there, since `save_outcome` would compare with and acknowledge them: that is
tampering, which the ledger does not promise to notice. `savedPredictions`, `savedOutcomes` and `saved` are
history: what callers were told.

| Code | Action |
|---|---|
| `save_prediction`: checks and SELECT, INSERT, return | `SavePrediction`, `InsertPrediction`, `ReturnPrediction` |
| `save_outcome`: checks and SELECT of the prediction, SELECT of the outcome, INSERT, return | `SaveOutcome`, `SelectOutcome`, `InsertOutcome`, `ReturnOutcome` |
| locked database, I/O error, death of the process | `Fail` (and `CloseStore`) |
| research stores `_initialize`: SELECT of the role, transaction | `ReadRole`, `InitializeRole` |
| research stores `save`: SELECT, INSERT, return | `SaveRow`, `InsertRow`, `ReturnRow` |

The schema version of the metadata never differs within one version of the code
and is left out.

### RegimeState, HistoricalAnalog and AnalogChallenger

`RegimeState` is `classify_regime` as operators: `Extracted` are the signals a row
has under a policy, in hundredths, `Rules` the conditions in the order of the
`elif`s with the signals each one asks `_has` for, `Classify` the first that
applies. What `_signal` returns for a missing signal is a parameter, which
`DefaultsDecideNothing` shows to be irrelevant.

`HistoricalAnalog` leaves the distances out. A search names the row, the metric, the
signals and the candidates; `Answers` is every assignment of sets of k nearest
candidates to searches that a distance could make, where searches that are the same
have the same answer. `Candidates`, `Ready` and the scenarios of the sensitivity
report (each replaces metric, exclusions, lookback and provider filter of the base
configuration, as `replace` does) are exact; an entry that a policy gives twice is two
scenarios, since the loops count it twice (`Places`).

`AnalogChallenger` starts when the factory has returned:

| Code | Action or variable |
|---|---|
| `_validate_baseline_run`, `_row_map`, the policy | `StartChallenge`, which sets `profile` (features), `handed` (labels), `policy` |
| one fold: `_fold_rows`, `classify_regime`, searches, suppression, `_weighted_probability`, `resolve_oos_outcome` | `ChallengeFold`, which adds to `analogs` and `suppressed` |
| `_baseline_evidence_on_subset`, `comparator_kind`, reasons and state | `JudgeChallenge`, which sets `comparator` and `verdict` |
| a `ValueError` anywhere | the disjuncts that set `challenge` to `"raised"` |

Things the code does here that a caller should know, none of which contradicts
a statement of the repository: outcomes of challenger and comparator come from
two sets of labels, so that they may differ on a row whose label was revised in
between (`ComparedOnSameRows` says so). A configuration that names
`signal_keys` raises for the whole run as soon as one test row lacks one of
them, and also if an ablation names one of them. With `same_regime_only` every
answer agrees on the regime, so that the gate of regime agreement never refuses.
With the default tolerances of zero a tie with the comparator is `ELIGIBLE`.

### ProviderClient and PriceConsensus

`Send(reply)` is one round of the loop of `_request_json` up to its sleep, `Sleep` and
`Wake` the sleep. A reply is what the code tells apart: taken, refused (and not
tried again), a status to be tried again with what its `Retry-After` asks for, or
a failure of transport. `exchanges` is history: the replies, and how long was
really slept before each request. `PriceConsensus` has no state but the list that a
caller collects; `Unique`, `Filtered`, `Agreeing`, `Aligned`, `Fresh` and `Consensus` follow
`consensus_close`, with thresholds in thousandths and doubled medians.
`MinorityOutvoted` needs `max_relative_spread` below `outlier_deviation`, as the
defaults have it: otherwise a majority that agrees could be taken for outliers.

### Operations

`step[w]` names what `run_demo` does next in worker `w`, `done[w]` the rounds of the
loop it is in.

| Code | Action |
|---|---|
| `run_demo`: features and snapshots | `Score` |
| `save_health`, `save_snapshot` | `SaveHealth`, `SaveSnapshot`, one transaction each |
| a new `AlertRegistry`, and `write_text` per file | `WriteFile` |
| `run_forever`: any exception, logged; `asyncio.sleep` | `Raise`; the worker is `"sleeping"` until `Score` |
| `backup_to` | `BackUp` |
| `restore_from`: first check, copy, opening and second check | `CheckBackup`, `CopyBackup` or `FailCopy`, `CheckRestored` |

`run_forever` takes any job, and nothing in the repository calls it with `run_demo`;
the model does, since this is the job that stores something, and since its
docstring leaves locking to whoever deploys it. The runbook (`docs/runbook.md` of the
repository) asks the operator to stop writers and to restore to a new path; the code does not
ask, and the model restores under running workers. `kept`, `alone`, `copied` and
`late` are history. The demo frame is fixed, so that a snapshot is its time, and
a snapshot's conditions are constants (`Facts`). Because every run makes a registry of its own, the
cooldown only tells the snapshots of one run apart, and never keeps a run silent:
`RunTold` says that all conditions are told, whatever was told before; what could
violate that part is the evaluation, not a registry left over. A damaged backup is one that
`PRAGMA quick_check` reports: damage to the contents of rows or of an index, which it does
not read, would pass both checks and is left out. A copy that raises leaves the target as
it was (`FailCopy`).

## 3. Runs

| Run | Instance | Asks |
|---|---|---|
| `backfill_resume` | 1 runner, 1 job, 4 pages (the two in the middle empty, where one is allowed in a row), max_pages 2, 2 crashes, 1 damaged file, clock 0..2, fair | `CheckpointForward`, `EventuallyPublished` |
| `backfill_race` | 2 runners, 2 jobs of 2 pages, clock 0..1 | `CheckpointCovered`, `ProvenanceBacked`, `ManifestComplete`, `ImplementsProgress` |
| `backfill_cycle` | 2 runners, 1 job, 3 pages, repeating cursors, ids from records, fair | `SinglePageCopy`, `EveryRunEnds` |
| `backfill_reopen` | 2 runners, 1 job; violated | `CompletedNotReopened` |
| `backfill_refetch` | 1 runner, 1 crash, ids from records, fair; violated | `EventuallyPublished` |
| `market_data` | book: 3 prices, quantities 0..1, 4 updates, gaps in time; request: 3 attempts, Retry-After of -1, 0, 1, 3, 5 and none, first pause 2, cap 4; consensus: 3 providers, up to 4 candles of 3 prices and 2 times | `BookExact`, `ServedForward`, `DynamicsExact`, `RaisesOnlySpent`, `PausesKept`, `MinorityOutvoted` |
| `baseline_oos` | plan: 1..4 rows, every choice of two delays per label, sizes 1..2, embargo 1, both modes; one row revised; kinds B0, B1 and B2, of which B1 says what B0 says, with two scores; two calibration cutoffs. Verdict: 4 rows, one fold of three test rows; the three kinds with scores 9, 25 and 41 of 50. At least 3 test rows, 1 of either class | `NoLeakage`, `WindowForward`, `TestsForward`, `TrainedOnThePast`, `PlannedRunsAccepted`, `JudgedAlike`, `ChallengerEarned`, `CalibratedOnThePast` |
| `analog_challenger` | plan: runs of the factory with kinds B0 and B2 and two scores on 3 rows in 3 orders of resolution; 4 assignments of 3 feature profiles; 3 policies; one label relabeled. Verdict: 4 rows, one fold of three test rows, of which one may be suppressed; scores 9, 25 and 41 of 50; policies that ask for 3 rows, for 2, or for fewer suppressed ones | `AnalogsKnown`, `PredictedOrSuppressed`, `ComparedOnSameRows`, `AnalogsEarned`, `AlwaysComparable` |
| `research_records` | catalog: 2 series of 7 profiles, 2 revisions, 2 fetches, clock 0..2, days of 2 instants; ledger: 2 processes, 2 predictions, 3 labels that disagree or do not match; stores: 2 processes, 2 rows | `NothingFromTheFuture`, `LatestWhereOrdered`, `SnapshotHonest`, `SettledPast`; `SavedStored`, `PairsSound`, `PairsKept`, `ImplementsWriteOnce`; `SavedReadable` |
| `point_in_time_unsequenced` | 1 series that states dates only, 2 revisions, 2 fetches; violated | `LatestOrAmbiguous` |
| `research_store_race` | 2 processes; violated | `SeparateStores` |
| `operations` | 2 workers, 3 runs, 2 horizons, 1 file, clock 1..2, 1 exception, 1 backup that may be damaged, 1 restore, fair | `RunTold`, `RestoreSound`, `SnapshotsForward`, `JobRunsAgain` |

`market_data` and `research_records` hold components that share no state. A behaviour of
such a run uses one of them, which the variable `used` chooses at the start, and
leaves the others as they are: their states add up and do not multiply. Types and
the inductive invariants are proved (section 5) and no longer checked by runs.

Why the bounds are enough. Three or four pages give a first, a middle and a
completed page, empty ones among them; two empty pages in a row end a run that a
crash made begin there, and max_pages 2 another one, so that the job is resumed
without a crash; two crashes can hit
a run and its recovery; a clock with two values separates a fetch from a
refetch. Two runners show every pairwise race, and two jobs show that the
dataset's manifest mixes them. `SYMMETRY` in `backfill_race` permutes runners
and jobs, which no operator tells apart; that run checks no liveness.
Four updates contain a gap, an overlap and a stale delta; three prices allow a
book that crosses between two valid ones. Four rows with two delays give eligible
rows with holes, skipped windows, truncated windows and runs of two folds; B0
needs no feature and B2 does; two scores make models better, equal and worse than
B0; the cutoffs lie before and after the resolution of late labels. One revised
row is enough to break a run and to leave one legal. Two scores always order
models alike by squared errors and by log loss. So both runs have a second part for
the verdict, told apart by the size of its one fold (`InVerdict`; `MCInputs` names what
either part varies), with three scores: of three rows that happened, scores of 9, 41
and 41 of 50 have smaller squared errors than three of 25, and a larger log loss, so
that neither comparison can be left out. Where squared errors tie in these bounds
the log loss ties too: that it is the second key when models are ordered is only proved
(`ChallengersEarned`), and no property asks it of the analogs' comparator. Three
test rows are just the sample that is asked for and may all be of one class, and a row
without a regime leaves the analogs one short. The verdict parts revise nothing, which
the plan parts do; that B1 repeats B0 in the plan leaves its runs what they are for
the two kinds that differ, one that needs features and one that does not. In the catalog two
fetches are a row and what comes after it, days of two instants have an inside and
an end, and every pair of profiles occurs; two fetches of two revisions take them
in either order. A return and a barrier event, labels that disagree, miss the
barrier or have another horizon give every outcome of `resolve_oos_outcome`.

Three attempts give a first, a middle and a last one, and the Retry-After values lie
below nothing, within and above the cap, and differ from the exponential pause.
Four candles of three providers let one provider speak twice, and of three prices
two agree and one is an outlier. The two candle times are close enough together and to the
call to be aligned and fresh: what is stale or in the future is refused by guards no
property here is about. Three rows give the analog challenger runs of one fold and
of two, with two regimes and a row without one; rows that find no candidate, an
unstable answer or a stable one; its policies are the default kind with
scenarios, one that restricts base candidates by time and universe, and one with
named signals. `baseline_oos` covers the configurations this run leaves out. In
`operations` two workers overlap in every way, one of them runs twice, so that a run
follows one that raised; two horizons are a loop with a first and a last round, one of
them meets rules that the other does not; one file stands for six that are written
one after the other. What is
proved (section 5) does not depend on the bounds.

Deadlock is checked in the runs of `Backfill` and of the research stores alone. The
functions of `baseline_oos`, `analog_challenger` and of the request return or raise, and in the
catalog, the consensus and `operations` nothing has to happen once the bounded
publications, candles and runs are used up.

**Fairness.** `FairSpec` is weak fairness of each runner's steps: a live process
executes its next statement, and whoever runs backfills calls `run()` again
after it returned or failed. Nothing is assumed of crashes, the clock and the
disk. Crashes are bounded, so the liveness results say: once crashes stop. A damaged blob or
partition stops a job for good (verification refuses it and nothing repairs it), so
`EventuallyPublished` promises publication unless one is damaged.

`OpsFairness` is weak fairness of each worker's `Work`: it does not stop between two
statements, and `asyncio.sleep` ends. It says nothing of exceptions, which are
bounded, of the clock, and of the operator. A run over a damaged database cannot go on
(its statement is disabled and stands for the exception that is no longer
allowed by the bound), so `JobRunsAgain` promises the next beginning of a job that
raised, not its success.

## 4. Where code and statement disagree

* `backfill_reopen`. `save_checkpoint` says "completed checkpoint cannot be
  reopened" and is tested with one caller. Its check is a SELECT before the
  transaction of an unconditional UPSERT. Runner A selects (not completed),
  runner B completes the job, A's UPSERT makes it incomplete again. The damage is
  limited: by `CheckpointCovered` the reopened cursor is still covered, and the
  next run completes the job again, perhaps with another manifest.
* `backfill_refetch`. With observation ids from the record (as the adapter in the
  repository's tests makes them), a page whose observations were saved before a
  crash cannot be saved again: the refetch has a later `fetched_at`, which is part
  of the payload, and `save_observation` raises a collision in every later run.
  With ids from the fetch the same job finishes after any crash
  (`backfill_resume`), at the price
  of registering a refetched page twice. `SinglePageCopy` is what the first choice
  buys, `EventuallyPublished` what it costs.

* `research_store_race`. A database belongs to features or to labels, and the tests
  open one store after the other. `_initialize` reads the role before its
  transaction begins and then overwrites it: two processes that open one new file
  as different stores both succeed, and the file holds both tables. Opened one after
  the other, the second one reads the role and refuses.
* `point_in_time_unsequenced`. The research plan asks for the latest eligible
  revision or an explicit ambiguity. `_revision_rank` ends with `fetched_at`: of two
  revisions of one date without revision numbers the one fetched last wins, also
  if it is the older one. Where the source gives exact times or numbers the latest
  wins (`LatestWhereOrdered`).

`CheckpointForward` is therefore checked and proved for one runner only: with two, a
slower runner moves the checkpoint back, which `CompletedNotReopened` is about. For the same reason two completions at
different times make two manifests; one runner of one job makes one, however often it
is interrupted (`OneManifest`, which is proved and in no run).

## 5. Proofs

Every safety property and every action property of the passing runs, and both
refinements, are theorems: they hold for every value of the constants under the
named assumptions of the modules (`StoreAssumption`, `BackfillAssumption`,
`LocalBookAssumption`, `ClientAssumption`, `ConsensusAssumption`,
`WalkForwardAssumption`, `BaselineAssumption`, `PointInTimeAssumption`,
`RegimeAssumption`, `ChallengeAssumption`, `CooldownAssumption`,
`OperationsAssumption`): numbers are natural, sizes positive, what is read from the
configuration is what its validation accepts. Four theorems have a hypothesis of their
own, stated in the theorem and explained below: `OneCopy`, `NeverBack` and
`FinalizedOnce` of `BackfillProofs`, and `MinoritiesAreOutvoted`.

**Backfill.** `CheckpointCovered` alone is not inductive: the UPSERT knows
nothing of partitions. `BackfillInv` adds, per runner, that the pages below its
cursor are stored and its next cursor skips none (`CursorCovered`), that at
`save_checkpoint` its page is stored (`PageCovered`), and that from the
completed checkpoint on all pages are, and the manifest in memory holds them
(`ManifestCovered`); and that a checkpoint is completed exactly when its cursor is
past the last page (`CursorShape`). The proof has a lemma per kind of step:
tables only grow, so what other runners know stays true (`OthersKeep`). From
`InvariantHolds` follow `TypeCorrect`, `CheckpointNeverAhead` and
`ReturnedComplete`. `Implementation` is the refinement: the INSERT of a
partition is `Persist`, the checkpoint's UPSERT is `Advance` (allowed because of
`PageCovered`), the INSERT of a manifest is `Publish`, and every other step is a
stutter.

`EverythingTraced` needs to know what a runner has stored of its page before the row
that vouches for it: `Traced` says so for each place in `run()` (the payload's
file before its row, the row before the receipt, the receipt before observations,
the observations before the one it is at, all of them and the file before the
partition, the manifest's file before its row), and `StoreBacked` says what is behind
each row. A runner that does not move keeps what it has, since the tables only grow
(`StandingTraced`); that a SELECT found a row is used where another process inserted
it. `StoreBacked` also says that an observation id is given to one observation.
`OneCopy` follows where ids are derived from the record (`~IdByFetch`): two
partitions of one page would both have its first row, with one id and two fetches.
With ids from the fetch a refetch is registered again, which is the other side of
`backfill_refetch`.

`NeverBack` and `FinalizedOnce` are about one process (`Runners = {sole}`) and an
adapter whose cursors advance (`~Repeats`); `backfill_reopen` shows why two would not do. From the fetch to
`save_checkpoint`, the job is not completed and the page is not before the stored
cursor (`AtOrAfter`). Hence the UPSERT moves forward, and once the job is completed
nobody registers a partition: every finalisation finds the same date and the same
partitions (`Sealed`).

**LocalBook.** `BookInv` says that the book is the exchange's book after
`last_update_id`. Every accepted delta starts at most one update later and lists
what changed since its first update, so after the merge the book is the exchange's
book after `final_update_id`, also when the delta overlaps or the result is
refused as invalid (`AlwaysExact`). `AlwaysServedValid` and `NeverBack` follow; that an
invalid book is not served is in the first of these theorems and in no run.
`DepthAccounted`: added less removed notional is the sum over the levels of what
changed, and so the difference of the two books' notional (`SumsBalance`); the book
has finitely many levels because the price grid is finite, which
`LocalBookAssumption` states.

**ProviderClient.** `RequestInv` adds to the types which attempt is under way (one
exchange per finished attempt, all but the last of them to be tried again,
`Underway`) and, while sleeping, that what was slept and what is left are the
pause for the last reply (`Sleeping`). `AttemptsSpent` and `PausesAsAsked`
follow for any number of attempts and any pauses.

**PriceConsensus.** A median of numbers of which more than half lie between two bounds lies
between them (`MedianWithin`). `MinoritiesAreOutvoted` uses this three times: for
the median that outliers are told from, which therefore is near the providers
that agree; for the list that the filter leaves, in which each provider counts
once (`OneOfEach`) and those that agree are still the most (`MostAreHonest`,
`AgreeingKept`); and for the price. Its hypothesis
`1000 * MaxSpread <= OutlierDeviation * (1000 - MaxSpread)` says that closes within the
spread of each other are no outliers to each other; the defaults satisfy it, the
configuration does not demand it, and without it a majority that agrees can be dropped.

**WalkForward.** The invariant is that every fold is the fold planned for some
beginning of its test rows, and that the beginnings are in order. With the order
of prediction times this gives `NoLookAhead`, `TestsInOrder` and, by counting
the rows at least as new as a dropped one, `WindowMovesForward`.

**BaselineOOS.** `Planning` says that a behaviour of the composition is one of
`WalkForward` (every other action leaves its variables alone), which brings in the
theorems above. `RunInv` adds that the folds in use are planned folds, that the
fold of every record was accepted with the labels of the run (the dataset and the
labels do not change any more), and that a calibrator's fit lies before its
cutoff and what it was applied to does not. `ScoresFromThePast` combines the
guard of `_fold_rows` with the cutoff of the fold, an embargo before its first test
row (`CutoffBeforeTests`); `CalibrationFromThePast` needs both comparisons of the
fit, since the models behind a score of the fit learnt before its prediction.

`RoundInv` is the invariant of the two loops: round n is kind n mod |Kinds| of fold
n div |Kinds|, and the records are those of the rounds so far, one for each test row of
each round. When the run has returned, every kind therefore has one record for each test
row of every fold, and records of two kinds for one row carry the same outcome
(`ModelsJudgedAlike`). `PlannedRunsNeverRefused` shows from `RunInv` that
no guard of `_fold_rows` fails for folds as planned and labels as they were. For
`ChallengersEarned` the judgement is read where it was made (`ChallengerInv`,
`SkillsInv`); the Brier scores and losses in it are sums over finite sets of records,
which exist and are natural by `FiniteSetFacts`. All samples have one size, so that means
compare as sums (`SumsForMeans`), and a record stands for one row (`RowsCounted`), so
that the minimum samples are samples of rows (`EligibleCounted`). The rest is
`EligibleNoWorse`, against B0, and `BetterComesFirst`, among the eligible. The code
accepts ties with B0, and so does the theorem: it says "no larger".

**PointInTime.** The invariant is `CatalogInv`: `CatalogTypeOK` says that an observation was
fetched after it was published and no later than now, and `Truthful` that what
is stated of it is what its source may say of that publication. `NoFuture` then needs
only that the boundary of a date is the end of its day. For `ReplayStable`, nothing
saved by a later step can be a strict replay at a settled time.
`SourceInv` strengthens it for `LatestSelected`: an observation has the precision of
its source and the number of the publication it is of, and the publications of a
series are in the order of their numbers (`PublishedInOrder`). The rank then compares
publication times: directly if they are exact, and for dates because the day that
ends first began first (`EarlierDay`), with the revision number deciding within a day.

**OOSLedger.** `LedgerInv` says that ids and digests in the tables and in the
processes are of their payloads, that each prediction has one outcome, that each
outcome has its prediction, and that a process about to tell its caller finds the
row in the table. `Agreement` follows from the second and the last; the
refinement maps the INSERT of an outcome to `Write`, its return to `Acknowledge`,
everything else to a stutter.

**ResearchStore.** `StoreInv` says that a process opens one of the two stores, that a
process about to return finds what it saved in the table of its store, and that
what callers were told is stored. `AlwaysReadable` follows, also for the two
processes of `research_store_race` that make one file both stores.

**AnalogChallenger.** `ChallengeReads` says that a behaviour with the challenger is one
of `BaselineOOS`, which brings in its theorems. `AnalogsInv` adds that the labels
handed over are labels, and that every prediction is of a test row of a fold in use
that could be read, with matched rows from its training rows predicted before
it. The step that matters is `ChallengeFold`: an answer to a search is a subset of
the candidates of the search, and candidates are earlier training rows. The
guard of `_fold_rows` and the embargo between cutoff and test rows then give
`AnalogsFromThePast`, for any features, labels and policy. The proof expands
neither `Answers` beyond that nor the rules of the regime. `DefaultsDecideNothing` is about the rules: `_signal` has a default for
missing signals, and every rule asks `_has` for what it reads first, so that the
default is never seen; the proof takes the rules one by one
(`RuleReadsWhatItHas`).

`TestedInv` says that predicted and suppressed rows are, without overlap, the test rows of
the folds done so far; the test rows of another fold are new because folds do not
overlap (`RoundInv`). At the end it is `EachRowPredictedOrSuppressed`.
`ComparisonIsFair` joins it with `RoundInv`: the comparator has exactly one record
for each predicted row. `ChallengeNeverRaises` follows from `RoundInv` and
`SkillsInv`: B0 is run, is the reference, and has a record for every predicted row, so
that a kind to compare with is left. `VerdictInv`
remembers what was found when the verdict was given, since nothing it was made of
changes afterwards (`VerdictStays`); with the rows of `TestedInv` it gives
`AnalogsEarnTheirVerdict`: the samples (`AnalogsCounted`), squared errors no larger than any
baseline's that was not rejected, log loss no larger than the comparator's, and the
suppressed share. Ties are accepted here too.

**Operations.** `OperationsInv` has a part for each concern. `RoundsInv` and `RowsInv`
follow a worker through its loop: the snapshots of the rounds so far are in the database
unless it was restored meanwhile. `AlertsInv` says that after the first round of
files the alerts are all that the snapshots meet: the fold over the horizons starts
with an empty registry, and a key is told once (`ToldOnce`, `EvaluatedOnce`, by
induction over the rounds). `FilesInv` is about runs that are alone. `CountedInv` counts audit events
against the rows of all horizons, a sum that one transaction raises by one
(`LengthsSum`). `RestoreInv` says that a backup that is about to be copied and is
damaged was damaged after its check, and that nothing copied is lost.
`SnapshotsGoForward`, `RunsLeaveWhatTheyReturn` and `RestoresAreSound` follow.

**Induction over data.** The induction theorems of the library take an operator
and cannot be used by the provers at hand. What the proofs need of sums, largest
elements and folds over finite sets is proved in `FiniteSetFacts` as the search for a
smallest counterexample: strict inclusion of the subsets of a finite set is well founded
(`WFMin`, a theorem without an operator), so that a set of subsets has a smallest one
(`SmallestSubset`), and a set of numbers a smallest one (`SmallestNumber`). A sum
over a set is there the value of a function on its subsets (`SumsOf`), which exists
(`SumsExist`) and is what the folds of the community modules compute.

**Only model-checked**: the liveness properties `EventuallyPublished`,
`EveryRunEnds` and `JobRunsAgain`, which are out of the prover's reach, as fairness and
ENABLED are. The four violations are counterexamples of TLC, and properties that
fail have no proof.

## 6. Not modelled

Numerical code (features, model fitting, distances between regime states, the fitted
calibration curve, backtests, regime scores) is floating point without control worth
a model. Adapters, formatting, the interface, the configuration, the market state and
the semantic brain are conversions or clients of external services. In the store: the
syncing of newly created directories (the file system keeps what it acknowledged),
path validation, and reads that change nothing. In the operational storage: evidence
lineage, which the pipeline does not save, and `schema_version`, which has one value. In
the provider client: the validation of the base URL, `health` and `aclose`. SQLite itself is
taken to be what it promises: a statement is atomic, a transaction commits wholly
or not at all.

Two hazards of the store are not covered, since the code promises nothing: a
partition file damaged after `verify_partition` read it is published as verified
(the disk is not part of a transaction), and a job whose pages are all empty
completes its checkpoint and then raises in `finalize_manifest`, in every later run
as well.

## 7. Plan

What is left, in this order.

1. Proofs where the four violated statements hold after all, under the hypothesis that
   is missing: one store opened after the other (`SeparateStores`), sources whose
   revisions are numbered (`LatestOrAmbiguous`), as `NeverBack` does for one process.
2. The promises of `DurableProgress` itself as theorems of that module, so that they
   carry over to `Backfill` through `Implementation`.
3. `FutureLabels` and `DatasetVersion`: resolution of barrier labels and gap
   detection against reference definitions over bounded inputs.
4. The evidence lineage of `SQLiteStore`, whose SELECT and INSERT have the window that
   the other stores have.
5. `StreamAlignment` and the gates of the regime scores: pure functions over bounded
   inputs.
