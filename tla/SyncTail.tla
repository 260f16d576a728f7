------------------------------ MODULE SyncTail ------------------------------
(***************************************************************************)
(* One batch through the parallel applier: the driver thread partitions    *)
(* it (WriterVectors), then NumWriters workers apply their vectors in      *)
(* parallel (MultiSyncApply) and the driver joins them.  The workers'      *)
(* steps interleave arbitrarily; nothing orders two workers' writes.       *)
(***************************************************************************)
EXTENDS WriterVectors, DocumentStore

CONSTANTS MaxWriteConflicts   \* WriteConflicts the storage engine raises in a batch

VARIABLES wState, vec, it, doNotGroupBefore, store, groups, writeConflicts, opsApplied,
          trackedPaths, multikeyInfo

Worker == INSTANCE MultiSyncApply

vars == <<fillVars, wState, vec, it, doNotGroupBefore, store, groups, writeConflicts, opsApplied,
          trackedPaths, multikeyInfo>>

Init ==
    /\ FillInit
    /\ Worker!WorkersInit
    /\ store = InitialStore

\* The driver partitions the whole batch before it schedules any worker.
Partition ==
    /\ FillNext
    /\ UNCHANGED <<wState, vec, it, doNotGroupBefore, store, groups, writeConflicts, opsApplied,
                   trackedPaths, multikeyInfo>>

\* A worker runs once fillWriterVectors has returned.
Apply(w) ==
    /\ pass = "done"
    /\ Worker!WorkerStep(w)
    /\ UNCHANGED <<ops, pass, input, cursor, derivedOps, partialTxnOps,
                   sessionsToUpdate, nsHash, idHash>>

Next == Partition \/ \E w \in Workers : Apply(w)

\* The driver runs fillWriterVectors to completion, and the writer pool keeps
\* running while a scheduled worker has work: weak fairness on both.  Every
\* step advances the cursor, a worker's iterator or a worker's state, so no
\* behaviour cycles, and fairness for each worker separately would add
\* nothing to what fairness for the pool ensures.
Spec == Init /\ [][Next]_vars /\ WF_vars(Partition) /\ WF_vars(\E w \in Workers : Apply(w))

-----------------------------------------------------------------------------
BatchDone == pass = "done" /\ \A w \in Workers : wState[w] \in {"ok", "failed"}
BatchFailed == \E w \in Workers : wState[w] = "failed"

UserDocs(st) == [k \in {d \in DocKeys : d[1] # TxnTableNs} |-> st.docs[k]]

TypeOK ==
    /\ FillTypeOK
    /\ wState \in [Workers -> {"idle", "applying", "ok", "failed"}]
    /\ \A w \in Workers : it[w] \in 1..(Len(vec[w]) + 1)
    /\ doNotGroupBefore \in [Workers -> Nat]
    /\ writeConflicts \in 0..MaxWriteConflicts
    /\ opsApplied \in Nat
    /\ store.docs \in [DocKeys -> Nat]
    /\ store.capped \in [Capped -> Seq(DocKeys)]

\* Applying the writer vectors in parallel, in any interleaving of the
\* workers, leaves what applying the batch one operation at a time leaves:
\* the batch fails exactly when a serial applier would stop on an error, and
\* otherwise every document, every capped collection's insertion order and
\* every session's config.transactions record is the serial one.  This is
\* what the routing of processCrudOp, the per-worker stableSortByNamespace,
\* insert grouping and the error policy of syncApply/multiSyncApply together
\* must guarantee.
ParallelApplyIsSerial ==
    BatchDone =>
        LET serial == SerialOutcome(ops) IN
        /\ BatchFailed <=> serial.failed
        /\ ~serial.failed =>
              /\ UserDocs(store) = UserDocs(serial.store)
              /\ store.capped = serial.store.capped
              /\ \A s \in Sessions :
                    LET srcs == SessionRecordSources(ops, s) IN
                    srcs # {} => store.docs[<<TxnTableNs, s>>] = ops[Max(srcs)].uid

\* What the serial applier counts and makes multikey (spec.md 4.3, 7 and
\* S6): a noop or a command counts, a CRUD operation counts and records its
\* paths when it is applied, and one skipped (a failed update in initial
\* sync, NamespaceNotFound ignored) does neither.
SerialStatsStep(r, op) ==
    LET res == ApplyOperationInlock(r.store, op, SpecAlwaysUpsert)
        applied == op.ns \in Existing /\ res.status = "OK"
        counts == ~IsCrudOpType(op.opType) \/ applied
    IN [SerialStep(r, op) EXCEPT !.n = r.n + (IF counts THEN 1 ELSE 0),
                                 !.paths = IF applied /\ IsCrudOpType(op.opType)
                                           THEN r.paths \cup Worker!WrittenPaths(op)
                                           ELSE r.paths]

SerialStats(b) ==
    FoldLeft(SerialStatsStep, [store |-> InitialStore, failed |-> FALSE, n |-> 0, paths |-> {}],
             EffectiveOps(b))

SessionTableWrites ==
    Cardinality(UNION {{k \in DOMAIN writerVectors[w] : writerVectors[w][k].ns = TxnTableNs}
                       : w \in Workers})

\* When every worker has returned OK, opsAppliedStats has counted each
\* operation of the batch exactly once, as the serial applier counts it,
\* plus the config.transactions writes the driver derived: whatever the
\* interleaving of the workers, the inserts applied as groups and those
\* applied one by one after a group insert failed (lines 422-428), the
\* updates skipped in initial sync (line 435), the NamespaceNotFound errors
\* ignored (lines 345-351, 447-450) and the WriteConflicts retried (line 334).
OpsAppliedCountsEachOpOnce ==
    BatchDone /\ ~BatchFailed => opsApplied = SerialStats(ops).n + SessionTableWrites

\* When every worker has returned OK, the workers' workerMultikeyPathInfo
\* together hold the paths of every write the batch applied, those of the
\* derived config.transactions upserts included, and no other (lines 413-415
\* and 459-464, spec.md testable property 11), whichever worker the routing
\* gave each write and whether it was applied in a group.
MultikeyPathsHandedOff ==
    BatchDone /\ ~BatchFailed =>
          UNION {multikeyInfo[w] : w \in Workers} =
              SerialStats(ops).paths \cup (IF SessionTableWrites > 0 THEN {TxnTableNs} ELSE {})

\* Inserts into a capped collection are never applied as a grouped insert:
\* processCrudOp marks them (lines 242-246) in the driver thread, and the
\* worker's InsertGroup refuses a marked insert.
NoGroupedCappedInsert ==
    \A g \in groups : ~IsCappedCollection(g.ns)

-----------------------------------------------------------------------------
(* Refinement of BatchApplication.  The writer vectors, the sorted vectors  *)
(* and the iterators are hidden: an operation is done once it is behind its *)
(* worker's iterator, and the session-table writes the tracker derives are  *)
(* hidden from the store (SessionRecordLatestLast is about them).           *)
AppliedUids ==
    UNION {{vec[w][k].uid : k \in {j \in 1..(it[w] - 1) : UserOp(vec[w][j])}} : w \in Workers}

UserStore ==
    [store EXCEPT !.docs = [k \in DocKeys |-> IF k[1] = TxnTableNs THEN Absent ELSE @[k]]]

Abstract == INSTANCE BatchApplication
                WITH batch <- ops, store <- UserStore, done <- AppliedUids,
                     failed <- BatchFailed

\* Every step of the driver and the workers is a step of BatchApplication or
\* leaves its state alone: no worker applies an operation before an earlier
\* operation with its OrderKey, whatever the routing (processCrudOp), the
\* per-worker sort and the grouping of inserts; what each step does to the
\* user collections is the serial step; and the batch is eventually applied
\* in full unless an operation fails.
RefinesBatchApplication == Abstract!Spec

=============================================================================
