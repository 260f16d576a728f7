# TLA+ models of the parallel oplog applier (`sync_tail.cpp`)

This directory holds TLA+ models of `src/src/mongo/db/repl/sync_tail.cpp`, checked with TLC. That file is the part of a secondary's replication pipeline that applies one batch of oplog entries in parallel. It is the only source file under `src/`. The code it calls and that lives elsewhere is modelled from `spec.md` and marked `spec_modelled` in `PROJECT.json`:
- `applyOperation_inlock`
- `InsertGroup`
- `SessionUpdateTracker`
- `readTransactionOperationsFromOplogChain`
- `multiApply`

## 1. The system

A batch of oplog entries is applied in two phases, with one driver thread and `NumWriters` writer threads.

1. **Partitioning.** `fillWriterVectors` (lines 581-595) runs on the driver and calls `_deriveOpsAndFillWriterVectors` (478-579). For each entry, the loop:
   - skips it if `ts <= beginApplyingOpTime` (490);
   - feeds it to the `SessionUpdateTracker`, which may emit `config.transactions` updates; these are routed through `addDerivedOps` (502-507);
   - buffers partial-transaction entries per session, and in initial sync also the `prepare` of a prepared transaction (514-523). It clears the session's buffer on `abortTransaction` (525-528);
   - hashes CRUD entries with `processCrudOp` (220-247). That function mixes the collation-aware `_id` hash into the namespace hash when the engine locks documents and the collection is not capped, and marks capped inserts `isForCappedCollection`;
   - expands a terminal `applyOps` into derived ops. For a transaction, these are the chain read back from the oplog plus the cached partial entries (534-549). For a non-transaction `applyOps`, they are its nested operations (550-558);
   - in initial sync, expands the `commitTransaction` of a prepared transaction into the chain read back from the oplog plus the cached entries (565-575);
   - routes every other entry to `writerVectors[hash % numWriters]` (252-261, 577).

   After the loop, `flushAll` returns the deferred retryable-write session updates. A second call with no tracker partitions them (589-593).
2. **Applying.** Each writer runs `multiSyncApply` (383-467) on its own vector:
   - it sorts the vector stably by namespace (372-380, 407);
   - it walks the vector, first trying `InsertGroup` (422-426) and otherwise calling `syncApply` (282-370) on the entry;
   - `syncApply` applies a noop, a CRUD op or a command. Updates become upserts except in initial sync (306). `NamespaceNotFound` is success for a delete or in recovery (345-353);
   - `multiSyncApply` skips `UpdateOperationFailed` in initial sync (435-437). It skips `NamespaceNotFound` on CRUD ops when `allowNamespaceNotFoundErrorsOnCrudOps` is set (447-450). Any other error ends the worker (440-442, 452-454).

The driver and writers interact only through the writer vectors. Partitioning completes before any writer starts. Once it has, the writers share nothing but the collections, and their steps interleave arbitrarily.

## 2. Modules

| Module | Models | State / role |
|---|---|---|
| `OplogEntry` | oplog entries, the catalog facts, the applier's `Mode`, legal batches (spec §3) | constants only. `SessionStep` is the order in which a session's transaction entries may appear, prepared transactions included. `Batches` builds every legal batch of `MaxBatch` entries from templates. A transaction's `txnNumber` is derived from the entries before it. |
| `OplogApplication` | what a batch must achieve (spec §3, §8) | `EffectiveOps`: the serial sequence of operations that take effect. Transactions take effect at their commit, aborted ones are dropped, nested `applyOps` are expanded. Also `OrderKey` and `SessionRecordSources`. |
| `WriterVectors` | `fillWriterVectors`, `_deriveOpsAndFillWriterVectors`, `processCrudOp`, `addToWriterVector`, `addDerivedOps`, `CachedCollectionProperties` | **Variables:** `ops`, `input`, `cursor`, `pass` (main call / flush call / done), `writerVectors`, `derivedOps`, `partialTxnOps`, `sessionsToUpdate`, and the hash functions `nsHash`, `idHash`. **Actions:** one per branch of the loop (`SkipBeforeBegin`, `BufferPartialTxnOp`, `ApplyOpsOfTransaction`, `ApplyOpsNested`, `ApplyPreparedCommit`, `RouteOp`), plus `FlushSessionUpdates` and `FinishFill`. |
| `DocumentStore` | `applyOperation_inlock` (spec §4.7); the serial reference `SerialOutcome` with the error policy of spec §7 | A store is `[docs, capped]`. A document is the uid of the entry that last wrote it. A capped collection also keeps its insertion order. |
| `MultiSyncApply` | `multiSyncApply`, `syncApply`, `stableSortByNamespace`, `InsertGroup` | **Per-worker variables:** `wState`, `vec` (the sorted vector), `it` (the loop iterator), `doNotGroupBefore`. **Shared:** `store`, the history `groups`, `writeConflicts`, the count of WriteConflicts raised (at most `MaxWriteConflicts`), and `opsApplied`, the process-wide `opsAppliedStats` counter (line 91). **Per-worker tracker:** `trackedPaths`, the `MultikeyPathTracker` of the worker's operation context, and `multikeyInfo`, its `workerMultikeyPathInfo`; `FinishWorker` swaps the first into the second (lines 459-464). **Actions:** `StartWorker`, `ApplyInsertGroup`, `ApplyNoopOrCommand`, `ApplyCrud`, `ApplyCrudWriteConflict` (the write unit abandoned and retried), `CrudNamespaceNotFoundIgnored`, `CrudNamespaceNotFoundFails`, `FinishWorker`. |
| `BatchApplication` | what one batch promises (spec §3, §7, §8), with no vectors and no workers | **Variables:** `batch`, `store`, `done` (uids applied), `failed`. **Actions:** `Apply(S)` applies a set of operations at once, each after every earlier operation with its `OrderKey`, with the serial step. `Fail(k)` fails the batch on an operation whose serial step fails. Weak fairness on `Progress` (a single-operation step) until the batch fails. |
| `SyncTail` | one batch through the applier | Composes `WriterVectors` (EXTENDS) with `MultiSyncApply` (INSTANCE). It shares `writerVectors`: `Partition` steps first, then `Apply(w)` steps of the workers interleave. The refinement mapping to `BatchApplication` is: `batch <- ops`; `store <- UserStore`, which hides `config.transactions`; `done <- AppliedUids`, the user operations behind each worker's iterator; `failed <- BatchFailed`. |
| `MC_WriterVectors`, `MC_SyncTail` | model values and definitions for the cfgs | |

### Abstractions

- **Data.** Namespaces, `_id`s and sessions are model values. An opTime is the entry's position in the batch.
- **Hashes.** `nsHash` and `idHash` are chosen in `Init` from constant sets, and `Murmur3` is a constant operator. The checks therefore cover every way the hashes can split ops between the writers.
- **Collation.** A case-insensitive collation is a constant `Fold` that maps `A` to `a`.
- **Catalog.** The catalog is constant during one batch. Batch application excludes concurrent DDL, so `CachedCollectionProperties` is a pure lookup.
- **Write conflicts.** A WriteConflict on a CRUD write is the step `ApplyCrudWriteConflict`. The storage engine rolls the write unit back, so the store is unchanged, and `writeConflictRetry` runs the entry again. `MaxWriteConflicts` bounds how many a batch meets.
- **Counter.** `incrementOpsAppliedStats` (line 295) is counted where the code calls it: for a noop (331), after `applyCommand_inlock` (363), and, through `applyOperation_inlock` (not under `src/`), once for each entry it applies, grouped inserts included (spec §4.7). An update skipped in initial sync, an ignored `NamespaceNotFound` and an abandoned write unit count nothing.
- **Multikey paths.** Which index paths a write makes multikey belongs to the index catalog (not under `src/`). The model abstracts it to the namespace of each insert or update applied. A rolled-back write unit is re-applied by the same worker and records the same namespace, so it is not modelled separately.
- **Commands.** A command's effect (`applyCommand_inlock`) is outside the model. Command entries are routed and stepped over.

## 3. Runs

| Run | cfg | Properties | What it shows |
|---|---|---|---|
| `partition` | `MC_WriterVectors.cfg` | `FillTypeOK`, `RoutedExactlyOnce`, `OrderPreserved`, `SessionRecordLatestLast`, `PartialTxnListOfOneTxn` | Checked over every legal 4-entry batch from 11 templates (CRUD on a capped and a case-insensitive collection, noop, retryable write, partial/commit/abort of a transaction, nested `applyOps`), with the first entry at `beginApplyingOpTime`, two writers and every `_id` hash. Every operation that must take effect lands in exactly one vector. Ops with one `OrderKey` share a vector and keep oplog order. Each session record is written from one vector, last from its latest write. A partial list never mixes transactions. |
| `apply_secondary` | `MC_SyncTail.cfg` | `TypeOK`, `ParallelApplyIsSerial`, `NoGroupedCappedInsert`, `MultikeyPathsHandedOff` | Checked over every legal 3-entry batch from 10 templates, including a collection this node has dropped, in secondary mode. The two workers, in every interleaving, leave exactly what serial application leaves, or fail exactly when it fails. Capped inserts are never grouped. On success, the paths the workers hand over are exactly those of the writes the serial applier applies (spec testable property 11). |
| `partition_initial_sync` | `MC_WriterVectors_InitialSync.cfg` | `RoutedExactlyOnce`, `PartialTxnListOfOneTxn` | Initial sync's partitioning, with a prepare and a prepared commit among the templates in place of the noop and the nested `applyOps`. A prepared transaction is routed once, as a whole, at its commit, and leaves no partial list behind. |
| `apply_initial_sync` | `MC_SyncTail_InitialSync.cfg` | `ParallelApplyIsSerial`, `OpsAppliedCountsEachOpOnce` | The same batches, plus prepared transactions, under initial sync's policy: no upserts, `UpdateOperationFailed` skipped, `NamespaceNotFound` allowed, prepared transactions applied at their commit. `opsApplied` ends at the serial count plus the derived `config.transactions` writes: a skipped update is not counted (spec S6), and each grouped or re-applied insert is counted once. |
| `apply_recovering` | `MC_SyncTail_Recovering.cfg` | `ParallelApplyIsSerial` | The same batches under recovery's policy: `NamespaceNotFound` is success, and grouped inserts into a dropped collection succeed. |
| `apply_write_conflict` | `MC_SyncTail_WriteConflict.cfg` | `OpsAppliedCountsEachOpOnce` | The `apply_secondary` batches with one WriteConflict allowed on any CRUD write of either worker, in any interleaving. The retried write unit is counted once. The end state is not checked here: the rolled-back attempt leaves the store as it was, so `ParallelApplyIsSerial` would say nothing beyond `apply_secondary`. |
| `prepare_shared_batch` | `MC_WriterVectors_PrepareShared.cfg` | `PartialTxnListOfOneTxn` (expect violation) | Secondary mode, with a prepared transaction allowed to share a batch with other entries. TLC reports the invariant at lines 519-520 violated: partial, prepare, prepared commit, then the next transaction's partial. See Findings. |
| `refinement` | `MC_SyncTail_Refine.cfg` | `RefinesBatchApplication` | `SyncTail` implements `BatchApplication` under the mapping above, fairness included, for the `apply_secondary` batches. This is a step-by-step statement. No worker applies an operation while an earlier operation with its `OrderKey` is still pending, including at intermediate states that a later write would mask in the end state. |

`ParallelApplyIsSerial` is the central property. It compares the end state of parallel application, in any interleaving of the workers, with `SerialOutcome`, which applies `EffectiveOps` one at a time with spec §7's error policy. It compares:
- failure against failure;
- on success, every user document, every capped collection's insertion order, and each session's `config.transactions` record.

Breaking it takes several steps by several actors: a routing choice in the driver, then two workers applying in the wrong relative order.

Every property of every passing run has a mutant in `PROJECT.json`. A mutant replaces one mapped definition with a plausible bug, and TLC finds the property violated. The mutants are:
- the floor test written as `>=`;
- the raw `_id` hashed, ignoring the collator;
- the flush pass dropped;
- the partial list not cleared on abort;
- the partial buffer also taking the commit;
- the loop iterator moved one past a group;
- the capped mark dropped;
- upserts in every mode;
- `NamespaceNotFound` failing in recovery;
- the prepare not buffered in initial sync (line 514 before prepared transactions);
- the partial list not cleared at a prepared commit;
- an update skipped in initial sync counted;
- an abandoned write unit counted;
- the multikey hand-off at lines 462-464 dropped.

### Findings

- **spec gap, line 519.** Outside initial sync, `sync_tail.cpp` neither buffers a prepare nor consumes the partial list at a prepared commit, so the invariant at 519-520 holds only if a prepared transaction never shares a batch with its session's next transaction. spec.md 4.5 states the invariant with no such precondition. The batcher that keeps prepares in batches of their own is outside `src/` (run `prepare_shared_batch`).

### Bounds

The bounds are chosen so that each of the following happens within them:
- **Batch length.** A batch of 4 (partitioning) or 3 (apply) entries fits a whole transaction with its partial entry, commit or abort plus one other op. It also fits two ops on one document under the collator (`a` and `A`), two capped inserts, and a retryable write whose record update is deferred to the flush pass.
- **Writers.** Two writers suffice to split ops.
- **Hashes.** The hash sets make every split possible. In `MC_SyncTail` the hash of `a` is fixed: with the namespace hashes fixed, only the relative hashes of `a`, `A` and `b` decide which ops share a writer.
- **Sessions.** One session suffices for the session-record properties.
- **Prepared transactions.** They appear only in the initial-sync runs. Outside initial sync, the batcher (outside `src/`) applies a prepare or a prepared commit in a batch of its own, and `sync_tail.cpp` routes it as a command.

### Fairness

`SyncTail`'s `Spec` has weak fairness on the driver's `Partition` and on the writer pool, `\E w : Apply(w)`. `fillWriterVectors` runs to completion, and the pool runs every scheduled worker until it returns. Every step advances the cursor, an iterator or a worker state, so behaviours are finite, and fairness per worker would add nothing. The fairness matters to the `refinement` run, whose abstract spec requires progress. `BatchApplication` asks for weak fairness on `Progress` while the batch has not failed. After one worker fails, the operations behind it are never applied, and the abstract spec allows that. `Progress` takes one operation, so its `ENABLED` is cheap. It is enabled exactly when `~failed /\ Next` is. `CHECK_DEADLOCK FALSE`: the model covers one batch, and the applier stops after the driver's join.

## 4. Not modelled

- **Properties left out on purpose.** The sort is modelled as an insertion sort that is stable by construction, so a stability check of it says nothing about line 379. The worker loop (line 417) advances at every step, so its termination holds by the shape of the model. Neither is stated as a property.

- **The batcher.** It applies DDL and prepared transactions in batches of their own, and it is outside `src/`. The models take both as preconditions. Two consequences:
  - the catalog, and with it `CachedCollectionProperties`, is constant within a batch (line 186 reads it once per batch);
  - prepared transactions appear only in the initial-sync runs, except in `prepare_shared_batch`.
- **Several batches with `beginApplyingOpTime` moving.** The driver loop that forms batches and advances the floor is outside `src/`; within `sync_tail.cpp` the floor is a constant of the partitioning.
- **Mid-batch crash** (a restart in recovery mode replaying the batch), where the idempotency of upserts and the `NamespaceNotFound` policy matter. What survives a crash is decided by the storage engine and the recovery code, none of it under `src/`; `apply_recovering` checks the recovery policy on a batch as replayed.
- **Command effects.** `applyCommand_inlock`, in particular `drop` and `create`, which change `Existing` during a batch.
- **Not planned, since they do not change the applied state:**
  - the fail point (318-322);
  - slow-op logging (`finishAndLogApply`);
  - lock-mode selection (`fixLockModeForSystemDotViewsChanges`);
  - UUID resolution (`parseUUIDOrNs`, `getNsOrUUID`).
- **Write conflicts on commands** (line 361). Command effects are not modelled, so a retried command is a no-op like the first attempt.
