--------------------------- MODULE MultiSyncApply ---------------------------
(***************************************************************************)
(* The writer workers: multiSyncApply (sync_tail.cpp:383-467) run by every *)
(* worker on its own writer vector, with the InsertGroup it builds and the *)
(* syncApply (lines 282-370) it calls for each entry that is not grouped.  *)
(* Workers run in parallel threads; one step of a worker applies one entry *)
(* or one group of inserts, which holds the collection lock for its whole  *)
(* write unit, so steps of different workers interleave arbitrarily.       *)
(*                                                                         *)
(* applyCommand_inlock and InsertGroup are not under src/; InsertGroup is  *)
(* taken from spec.md 4.9, the store from DocumentStore.                   *)
(* Write conflicts are retried inside writeConflictRetry until the write   *)
(* unit commits, with no effect on the store, so a step is the committed   *)
(* attempt.                                                                *)
(***************************************************************************)
EXTENDS DocumentStore

CONSTANTS
    NumWriters,
    MaxWriteConflicts   \* how many WriteConflicts the storage engine raises in a batch

ASSUME MaxWriteConflicts \in Nat

Workers == 0..(NumWriters - 1)

VARIABLES
    writerVectors,    \* [Workers -> Seq(entry)], filled by the driver
    wState,           \* "idle", "applying", "ok", "failed"
    vec,              \* the worker's vector after stableSortByNamespace
    it,               \* the loop iterator of line 417
    doNotGroupBefore, \* InsertGroup::_doNotGroupBeforePoint
    store,            \* the collections: [docs, capped] (DocumentStore)
    groups,           \* history: the namespaces and uids of the grouped inserts applied
    writeConflicts,   \* the WriteConflicts raised so far
    opsApplied,       \* opsAppliedStats (line 91), shared by all workers
    trackedPaths,     \* the MultikeyPathTracker of the worker's operation context
    multikeyInfo      \* the worker's workerMultikeyPathInfo, handed to the driver

applyVars == <<writerVectors, wState, vec, it, doNotGroupBefore, store, groups, writeConflicts,
               opsApplied, trackedPaths, multikeyInfo>>

-----------------------------------------------------------------------------
(* stableSortByNamespace (lines 372-380): std::stable_sort by nss, written  *)
(* as an insertion sort that moves an entry only past entries of a greater  *)
(* namespace.                                                               *)
RECURSIVE InsertByNamespace(_, _)
InsertByNamespace(sorted, op) ==
    IF sorted # <<>> /\ NsRank[op.ns] < NsRank[Last(sorted).ns]
    THEN Append(InsertByNamespace(Front(sorted), op), Last(sorted))
    ELSE Append(sorted, op)

StableSortByNamespace(s) == FoldLeft(InsertByNamespace, <<>>, s)

Present(k) == store.docs[k] # Absent

\* Updates turned into upserts in every mode.
ShouldAlwaysUpsertInEveryMode == TRUE

\* syncApply line 306: updates become upserts except in initial sync.
ShouldAlwaysUpsert == Mode # "InitialSync"

\* The applyOp lambda of syncApply (lines 297-313) on store st.
ApplyOp(st, op) == ApplyOperationInlock(st, op, ShouldAlwaysUpsert)

-----------------------------------------------------------------------------
(* InsertGroup::groupAndApplyInserts (insert_group.cpp, not under src/;    *)
(* spec.md 4.9): from an insert not marked isForCappedCollection and not   *)
(* inside a group that already failed, take the following inserts into the *)
(* same namespace; with two or more, apply them as one insert, which fails *)
(* as a whole on a duplicate _id or a missing collection.                  *)
GroupEnd(w) ==
    LET v == vec[w]
        stop(j) == v[j].opType # "i" \/ v[j].ns # v[it[w]].ns
        ends == {j \in (it[w] + 1)..Len(v) : stop(j)}
    IN IF ends = {} THEN Len(v) + 1 ELSE Min(ends)

CanGroup(w) ==
    /\ vec[w][it[w]].opType = "i"
    /\ ~vec[w][it[w]].forCapped
    /\ it[w] > doNotGroupBefore[w]
    /\ GroupEnd(w) - it[w] >= 2

GroupOps(w) == SubSeq(vec[w], it[w], GroupEnd(w) - 1)

\* syncApply on the grouped insert returns OK: the inserts are all new, or
\* the collection is missing and NamespaceNotFound is ignored (line 350).
GroupSucceeds(w) ==
    LET g == GroupOps(w) IN
    IF g[1].ns \in Existing
    THEN /\ \A k \in DOMAIN g : ~Present(DocKey(g[k]))
         /\ \A j, k \in DOMAIN g : j # k => DocKey(g[j]) # DocKey(g[k])
    ELSE Mode = "Recovering"

\* Whether the entry at it[w] is left to syncApply (line 428).
NotGrouped(w) == ~CanGroup(w) \/ ~GroupSucceeds(w)

-----------------------------------------------------------------------------
(* Actions of worker w.                                                    *)
CurrentEntry(w) == vec[w][it[w]]
Looping(w) == wState[w] = "applying" /\ it[w] \in DOMAIN vec[w]

\* Lines 387-415: set up the operation context, sort, start tracking.
StartWorker(w) ==
    /\ wState[w] = "idle"
    /\ wState' = [wState EXCEPT ![w] = "applying"]
    /\ vec' = [vec EXCEPT ![w] = StableSortByNamespace(writerVectors[w])]
    /\ it' = [it EXCEPT ![w] = 1]
    /\ doNotGroupBefore' = [doNotGroupBefore EXCEPT ![w] = 0]
    /\ UNCHANGED <<writerVectors, store, groups, writeConflicts, opsApplied, trackedPaths, multikeyInfo>>

\* incrementOpsAppliedStats (line 295), passed to applyOperation_inlock, is
\* called for each entry the grouped insert writes (spec.md 4.7: one count
\* per successful apply); a group whose collection is missing writes none.
GroupOpsCounted(w) == IF GroupOps(w)[1].ns \in Existing THEN Len(GroupOps(w)) ELSE 0

\* The multikey paths a write records in the tracker started at line 415
\* (index_catalog, not under src/): the paths of the indexes it makes
\* multikey, abstracted to the namespace of a document it writes.  A write
\* unit that is rolled back (a failed group insert, a WriteConflict) is
\* applied again in the same worker, which records the same namespace.
WrittenPaths(op) == IF op.opType \in {"i", "u"} THEN {op.ns} ELSE {}

GroupPaths(w) ==
    IF GroupOps(w)[1].ns \in Existing THEN UNION {WrittenPaths(op) : op \in Range(GroupOps(w))} ELSE {}

\* The loop moving one entry too far after a group.
ApplyInsertGroupPastEnd(w) ==
    LET g == GroupOps(w) IN
    /\ Looping(w)
    /\ CanGroup(w)
    /\ GroupSucceeds(w)
    /\ store' = IF g[1].ns \in Existing
                THEN FoldLeft(LAMBDA st, op : ApplyOp(st, op).store, store, g)
                ELSE store
    /\ it' = [it EXCEPT ![w] = GroupEnd(w) + 1]
    /\ groups' = groups \cup {[ns |-> g[1].ns, uids |-> UidSeq(g)]}
    /\ opsApplied' = opsApplied + GroupOpsCounted(w)
    /\ trackedPaths' = [trackedPaths EXCEPT ![w] = @ \cup GroupPaths(w)]
    /\ UNCHANGED <<writerVectors, wState, vec, doNotGroupBefore, writeConflicts, multikeyInfo>>

\* Lines 422-426: a group of inserts applied, the loop moves past it.
ApplyInsertGroup(w) ==
    LET g == GroupOps(w) IN
    /\ Looping(w)
    /\ CanGroup(w)
    /\ GroupSucceeds(w)
    /\ store' = IF g[1].ns \in Existing
                THEN FoldLeft(LAMBDA st, op : ApplyOp(st, op).store, store, g)
                ELSE store
    /\ it' = [it EXCEPT ![w] = GroupEnd(w)]
    /\ groups' = groups \cup {[ns |-> g[1].ns, uids |-> UidSeq(g)]}
    /\ opsApplied' = opsApplied + GroupOpsCounted(w)
    /\ trackedPaths' = [trackedPaths EXCEPT ![w] = @ \cup GroupPaths(w)]
    /\ UNCHANGED <<writerVectors, wState, vec, doNotGroupBefore, writeConflicts, multikeyInfo>>

\* The group insert failed: InsertGroup remembers not to group again before
\* its end, and the first entry is applied by itself (the actions below).
\* This is folded into the individual actions through GroupFailedMark.
GroupFailedMark(w) ==
    IF CanGroup(w) /\ ~GroupSucceeds(w)
    THEN [doNotGroupBefore EXCEPT ![w] = GroupEnd(w) - 1]
    ELSE doNotGroupBefore

\* syncApply of a noop (lines 330-332) or of a command (lines 360-366,
\* whose effect belongs to applyCommand_inlock and is outside this model).
ApplyNoopOrCommand(w) ==
    /\ Looping(w)
    /\ CurrentEntry(w).opType \in {"n", "c"}
    /\ it' = [it EXCEPT ![w] = @ + 1]
    /\ opsApplied' = opsApplied + 1
    /\ UNCHANGED <<writerVectors, wState, vec, doNotGroupBefore, store, groups, writeConflicts,
                   trackedPaths, multikeyInfo>>

\* The abandoned attempt counted as well, as if the count were taken before
\* the write unit commits.
ApplyCrudWriteConflictCounted(w) ==
    /\ Looping(w)
    /\ IsCrudOpType(CurrentEntry(w).opType)
    /\ CurrentEntry(w).ns \in Existing
    /\ NotGrouped(w)
    /\ writeConflicts < MaxWriteConflicts
    /\ writeConflicts' = writeConflicts + 1
    /\ opsApplied' = opsApplied + 1
    /\ doNotGroupBefore' = GroupFailedMark(w)
    /\ UNCHANGED <<writerVectors, wState, vec, it, store, groups, trackedPaths, multikeyInfo>>

\* Lines 309-311 and 334: applyOperation_inlock reports a WriteConflict,
\* applyOp throws it, and writeConflictRetry abandons the write unit (the
\* storage engine rolls its writes back) and runs the lambda again: the
\* entry stays at the iterator, the store is unchanged.
ApplyCrudWriteConflict(w) ==
    /\ Looping(w)
    /\ IsCrudOpType(CurrentEntry(w).opType)
    /\ CurrentEntry(w).ns \in Existing
    /\ NotGrouped(w)
    /\ writeConflicts < MaxWriteConflicts
    /\ writeConflicts' = writeConflicts + 1
    /\ doNotGroupBefore' = GroupFailedMark(w)
    /\ UNCHANGED <<writerVectors, wState, vec, it, store, groups, opsApplied, trackedPaths, multikeyInfo>>

\* applyOperation_inlock calls incrementOpsAppliedStats when it applies the
\* entry (spec.md 4.7); a failed update is not counted.
CrudCounted(res) == IF res.status = "OK" THEN 1 ELSE 0
CrudPaths(op, res) == IF res.status = "OK" THEN WrittenPaths(op) ELSE {}

\* ApplyCrud counting the update that initial sync skips.
ApplyCrudCountingSkipped(w) ==
    LET op  == CurrentEntry(w)
        res == ApplyOp(store, op)
    IN
    /\ Looping(w)
    /\ IsCrudOpType(op.opType)
    /\ op.ns \in Existing
    /\ NotGrouped(w)
    /\ store' = res.store
    /\ IF res.status = "OK" \/ Mode = "InitialSync"
       THEN /\ it' = [it EXCEPT ![w] = @ + 1]
            /\ UNCHANGED wState
       ELSE /\ wState' = [wState EXCEPT ![w] = "failed"]
            /\ UNCHANGED it
    /\ opsApplied' = opsApplied + 1
    /\ trackedPaths' = [trackedPaths EXCEPT ![w] = @ \cup CrudPaths(op, res)]
    /\ doNotGroupBefore' = GroupFailedMark(w)
    /\ UNCHANGED <<writerVectors, vec, groups, writeConflicts, multikeyInfo>>

\* syncApply of a CRUD entry whose collection exists (lines 333-344).  A
\* status other than OK is UpdateOperationFailed, which multiSyncApply skips
\* in initial sync (lines 435-437) and returns otherwise (lines 440-442).
ApplyCrud(w) ==
    LET op  == CurrentEntry(w)
        res == ApplyOp(store, op)
    IN
    /\ Looping(w)
    /\ IsCrudOpType(op.opType)
    /\ op.ns \in Existing
    /\ NotGrouped(w)
    /\ store' = res.store
    /\ IF res.status = "OK" \/ Mode = "InitialSync"
       THEN /\ it' = [it EXCEPT ![w] = @ + 1]
            /\ UNCHANGED wState
       ELSE /\ wState' = [wState EXCEPT ![w] = "failed"]
            /\ UNCHANGED it
    /\ opsApplied' = opsApplied + CrudCounted(res)
    /\ trackedPaths' = [trackedPaths EXCEPT ![w] = @ \cup CrudPaths(op, res)]
    /\ doNotGroupBefore' = GroupFailedMark(w)
    /\ UNCHANGED <<writerVectors, vec, groups, writeConflicts, multikeyInfo>>

\* NamespaceNotFound on a CRUD entry (lines 340-358): success for a delete or
\* in recovery; otherwise thrown, and skipped by multiSyncApply only when
\* allowNamespaceNotFoundErrorsOnCrudOps (lines 447-450).
CrudNamespaceNotFoundIgnored(w) ==
    LET op == CurrentEntry(w) IN
    /\ Looping(w)
    /\ IsCrudOpType(op.opType)
    /\ op.ns \notin Existing
    /\ NotGrouped(w)
    /\ \/ op.opType = "d"
       \/ Mode = "Recovering"
       \/ AllowNamespaceNotFoundErrorsOnCrudOps
    /\ it' = [it EXCEPT ![w] = @ + 1]
    /\ doNotGroupBefore' = GroupFailedMark(w)
    /\ UNCHANGED <<writerVectors, wState, vec, store, groups, writeConflicts, opsApplied, trackedPaths, multikeyInfo>>

\* NamespaceNotFound failing the worker in recovery as well.
CrudNamespaceNotFoundFailsInRecovery(w) ==
    LET op == CurrentEntry(w) IN
    /\ Looping(w)
    /\ IsCrudOpType(op.opType)
    /\ op.ns \notin Existing
    /\ NotGrouped(w)
    /\ op.opType # "d"
    /\ ~AllowNamespaceNotFoundErrorsOnCrudOps
    /\ wState' = [wState EXCEPT ![w] = "failed"]
    /\ UNCHANGED <<writerVectors, vec, it, doNotGroupBefore, store, groups, writeConflicts, opsApplied, trackedPaths, multikeyInfo>>

\* Lines 452-454: any other NamespaceNotFound ends the worker with an error.
CrudNamespaceNotFoundFails(w) ==
    LET op == CurrentEntry(w) IN
    /\ Looping(w)
    /\ IsCrudOpType(op.opType)
    /\ op.ns \notin Existing
    /\ NotGrouped(w)
    /\ op.opType # "d"
    /\ Mode # "Recovering"
    /\ ~AllowNamespaceNotFoundErrorsOnCrudOps
    /\ wState' = [wState EXCEPT ![w] = "failed"]
    /\ UNCHANGED <<writerVectors, vec, it, doNotGroupBefore, store, groups, writeConflicts, opsApplied, trackedPaths, multikeyInfo>>

\* The worker returning without handing its paths over (lines 462-464 missing).
FinishWorkerKeepingPaths(w) ==
    /\ wState[w] = "applying"
    /\ it[w] = Len(vec[w]) + 1
    /\ wState' = [wState EXCEPT ![w] = "ok"]
    /\ UNCHANGED <<writerVectors, vec, it, doNotGroupBefore, store, groups, writeConflicts, opsApplied,
                   trackedPaths, multikeyInfo>>

\* Lines 459-466: the loop is done, tracking stopped (line 414), the worker
\* swaps the tracked paths into its empty workerMultikeyPathInfo and
\* returns OK.  An error returns before this, leaving the info empty.
FinishWorker(w) ==
    /\ wState[w] = "applying"
    /\ it[w] = Len(vec[w]) + 1
    /\ wState' = [wState EXCEPT ![w] = "ok"]
    /\ multikeyInfo' = [multikeyInfo EXCEPT ![w] = trackedPaths[w]]
    /\ UNCHANGED <<writerVectors, vec, it, doNotGroupBefore, store, groups, writeConflicts, opsApplied,
                   trackedPaths>>

WorkerStep(w) ==
    \/ StartWorker(w)
    \/ ApplyInsertGroup(w)
    \/ ApplyNoopOrCommand(w)
    \/ ApplyCrud(w)
    \/ ApplyCrudWriteConflict(w)
    \/ CrudNamespaceNotFoundIgnored(w)
    \/ CrudNamespaceNotFoundFails(w)
    \/ FinishWorker(w)

WorkersInit ==
    /\ wState = [w \in Workers |-> "idle"]
    /\ vec = [w \in Workers |-> <<>>]
    /\ it = [w \in Workers |-> 1]
    /\ doNotGroupBefore = [w \in Workers |-> 0]
    /\ groups = {}
    /\ writeConflicts = 0
    /\ opsApplied = 0
    /\ trackedPaths = [w \in Workers |-> {}]
    /\ multikeyInfo = [w \in Workers |-> {}]

=============================================================================
