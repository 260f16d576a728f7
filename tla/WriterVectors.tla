--------------------------- MODULE WriterVectors ---------------------------
(***************************************************************************)
(* SyncTail::fillWriterVectors and _deriveOpsAndFillWriterVectors          *)
(* (sync_tail.cpp:169-278, 478-595): the single driver thread walks one    *)
(* batch and partitions it into NumWriters writer vectors.  One step of    *)
(* the model is one iteration of the loop at line 487, with every call it  *)
(* makes (session tracking, transaction buffering, hashing, routing).      *)
(* After the loop, flushAll's session updates are partitioned by a second  *)
(* pass without a tracker (lines 589-594).                                 *)
(*                                                                         *)
(* Hash functions are arbitrary: nsHash and idHash are chosen in Init, so  *)
(* every way the 32-bit hashes of the namespaces and _ids can collide      *)
(* modulo NumWriters is checked.                                           *)
(***************************************************************************)
EXTENDS OplogApplication

CONSTANTS
    NumWriters,      \* writerVectors->size()
    HashValues,      \* the values a 32-bit hash is abstracted to
    Murmur3(_, _),   \* MurmurHash3_x86_32(&key, sizeof(key), seed, out)
    NsHashes,        \* the StringMapHasher functions checked
    IdHashes         \* the BSONElementComparator hash functions checked

ASSUME /\ NumWriters \in Nat \ {0}
       /\ HashValues \subseteq Nat
       /\ NsHashes \subseteq [NS -> HashValues]
       /\ IdHashes \subseteq [Ids \cup Sessions -> HashValues]

Workers == 0..(NumWriters - 1)
NoEntry == [uid |-> 0]

VARIABLES
    ops,              \* the batch, MultiApplier::Operations* ops
    pass,             \* "main": first call; "flush": the call on flushAll's writes
    input,            \* the sequence the current call iterates
    cursor,           \* the loop position in input
    writerVectors,    \* [Workers -> Seq(entry)]
    derivedOps,       \* the owning pool of derived entries
    partialTxnOps,    \* [Sessions -> Seq(entry)], local to one call
    sessionsToUpdate, \* SessionUpdateTracker::_sessionsToUpdate
    nsHash,           \* StringMapHasher hash of a namespace string
    idHash            \* BSONElementComparator hash of an _id element

fillVars == <<ops, pass, input, cursor, writerVectors, derivedOps,
              partialTxnOps, sessionsToUpdate, nsHash, idHash>>

-----------------------------------------------------------------------------
(* CachedCollectionProperties (lines 173-215).  The catalog does not change *)
(* while the driver partitions a batch, so the cache returns what a lookup  *)
(* returns; a missing database or collection gives the defaults.            *)
CollectionProperties(ns) ==
    [isCapped |-> ns \in Capped \cap Existing,
     collator |-> ns \in CaseInsensitive \cap Existing]

\* processCrudOp hashing the raw _id whatever the collection's collator.
ProcessCrudOpIgnoringCollator(op, hash) ==
    LET props == CollectionProperties(op.ns) IN
    [op   |-> IF op.opType = "i" /\ props.isCapped
              THEN [op EXCEPT !.forCapped = TRUE] ELSE op,
     hash |-> IF SupportsDocLocking /\ ~props.isCapped
              THEN Murmur3(idHash[op.id], hash) ELSE hash]

\* processCrudOp without the isForCappedCollection mark of lines 242-246.
ProcessCrudOpUnmarked(op, hash) ==
    LET props  == CollectionProperties(op.ns)
        idElem == IF props.collator THEN Fold(op.id) ELSE op.id
    IN [op   |-> op,
        hash |-> IF SupportsDocLocking /\ ~props.isCapped
                 THEN Murmur3(idHash[idElem], hash) ELSE hash]

(* processCrudOp (lines 220-247): mix the collation-aware _id hash into the *)
(* namespace hash, and mark inserts into capped collections.                *)
ProcessCrudOp(op, hash) ==
    LET props  == CollectionProperties(op.ns)
        idElem == IF props.collator THEN Fold(op.id) ELSE op.id
    IN [op   |-> IF op.opType = "i" /\ props.isCapped
                 THEN [op EXCEPT !.forCapped = TRUE] ELSE op,
        hash |-> IF SupportsDocLocking /\ ~props.isCapped
                 THEN Murmur3(idHash[idElem], hash) ELSE hash]

(* addToWriterVector (lines 252-261). *)
AddToWriterVector(wv, op, hash) ==
    [wv EXCEPT ![hash % NumWriters] = Append(@, op)]

(* One iteration of addDerivedOps (lines 270-277). *)
RouteDerived(wv, op) ==
    IF IsCrudOpType(op.opType)
    THEN LET r == ProcessCrudOp(op, nsHash[op.ns])
         IN AddToWriterVector(wv, r.op, r.hash)
    ELSE AddToWriterVector(wv, op, nsHash[op.ns])

(* addDerivedOps (lines 266-278). *)
AddDerivedOps(wv, derived) == FoldLeft(RouteDerived, wv, derived)

-----------------------------------------------------------------------------
(* SessionUpdateTracker (session_update_tracker.cpp, not under src/; from   *)
(* spec.md 4.4).  A retryable write leaves a pending update of its          *)
(* session's config.transactions record; a transaction's end emits the      *)
(* session's pending update followed by the transaction's own update.       *)
SessionUpdate(op) ==
    [Entry(100 + op.uid, op.ts, "u", TxnTableNs, op.lsid, NoSession, 0,
           "none", FALSE, <<>>) EXCEPT !.val = op.uid, !.upsert = TRUE]

PendingOf(pending, s) ==
    IF pending[s] = NoEntry THEN <<>> ELSE <<pending[s]>>

UpdateSession(op, pending) ==
    IF IsTransactionEntry(op) /\ ~op.partialTxn
    THEN [emit    |-> PendingOf(pending, op.lsid) \o <<SessionUpdate(op)>>,
          pending |-> [pending EXCEPT ![op.lsid] = NoEntry]]
    ELSE IF HasTxn(op) /\ ~IsTransactionEntry(op)
    THEN [emit    |-> <<>>,
          pending |-> [pending EXCEPT ![op.lsid] = SessionUpdate(op)]]
    ELSE [emit |-> <<>>, pending |-> pending]

FlushAllWrites(pending) ==
    FlattenSeq([k \in 1..Cardinality(Sessions) |->
                   PendingOf(pending, SetToSeq(Sessions)[k])])

(* readTransactionOperationsFromOplogChain (not under src/; spec.md 6):     *)
(* walks the chain back from op, reads from the oplog the entries that are  *)
(* not cached, and takes the cached entries from the partial list.          *)
ReadTransactionOperationsFromOplogChain(op, cached) ==
    LET chain == TxnChain(ops, op)
        fromOplog == SubSeq(chain, 1, Len(chain) - Len(cached))
    IN InnerOps(fromOplog) \o InnerOps(cached) \o op.inner

-----------------------------------------------------------------------------
(* The loop of _deriveOpsAndFillWriterVectors.  Each action below is one    *)
(* iteration, distinguished by the branch the entry takes.                  *)
CurrentOp == input[cursor]
Scanning == pass \in {"main", "flush"} /\ cursor \in DOMAIN input
\* The floor test of line 490 taken as ts >= beginApplyingOpTime.
ApplicableAtBegin == Scanning /\ CurrentOp.ts >= BeginApplyingOpTime
Applicable == Scanning /\ CurrentOp.ts > BeginApplyingOpTime

\* Lines 502-507: the tracker runs only in the main call.
Tracked ==
    IF pass = "main" THEN UpdateSession(CurrentOp, sessionsToUpdate)
    ELSE [emit |-> <<>>, pending |-> sessionsToUpdate]
TrackedPool == IF Tracked.emit = <<>> THEN derivedOps
               ELSE Append(derivedOps, Tracked.emit)
TrackedVectors == AddDerivedOps(writerVectors, Tracked.emit)

\* Lines 490-492.
SkipBeforeBegin ==
    /\ Scanning
    /\ CurrentOp.ts <= BeginApplyingOpTime
    /\ cursor' = cursor + 1
    /\ UNCHANGED <<ops, pass, input, writerVectors, derivedOps, partialTxnOps,
                   sessionsToUpdate, nsHash, idHash>>

\* Line 514 as it read before prepared transactions: only partial entries.
BufferedUntilCommitNotPrepare(op) == IsPartialTransaction(op)

\* Lines 514-515: partial entries, and in initial sync the prepare, wait in
\* the session's partial list until the transaction's commit.
BufferedUntilCommit(op) ==
    IsPartialTransaction(op) \/ (ShouldPrepare(op) /\ Mode = "InitialSync")

\* Buffering that also takes the terminal applyOps of a transaction.
BufferPartialTxnOpAnyApplyOps ==
    LET op == CurrentOp IN
    /\ Applicable
    /\ BufferedUntilCommit(op) \/ (IsTerminalApplyOps(op) /\ HasTxn(op))
    /\ partialTxnOps' = [partialTxnOps EXCEPT ![op.lsid] = Append(@, op)]
    /\ writerVectors' = TrackedVectors
    /\ derivedOps' = TrackedPool
    /\ sessionsToUpdate' = Tracked.pending
    /\ cursor' = cursor + 1
    /\ UNCHANGED <<ops, pass, input, nsHash, idHash>>

\* Lines 514-523.
BufferPartialTxnOp ==
    LET op == CurrentOp IN
    /\ Applicable
    /\ BufferedUntilCommit(op)
    /\ partialTxnOps' = [partialTxnOps EXCEPT ![op.lsid] = Append(@, op)]
    /\ writerVectors' = TrackedVectors
    /\ derivedOps' = TrackedPool
    /\ sessionsToUpdate' = Tracked.pending
    /\ cursor' = cursor + 1
    /\ UNCHANGED <<ops, pass, input, nsHash, idHash>>

\* Lines 534-549: the commit of an unprepared transaction.
ApplyOpsOfTransaction ==
    LET op == CurrentOp
        derived == ReadTransactionOperationsFromOplogChain(op, partialTxnOps[op.lsid])
    IN
    /\ Applicable
    /\ ~BufferedUntilCommit(op)
    /\ IsTerminalApplyOps(op)
    /\ HasTxn(op)
    /\ derivedOps' = Append(TrackedPool, derived)
    /\ writerVectors' = AddDerivedOps(TrackedVectors, derived)
    /\ partialTxnOps' = [partialTxnOps EXCEPT ![op.lsid] = <<>>]
    /\ sessionsToUpdate' = Tracked.pending
    /\ cursor' = cursor + 1
    /\ UNCHANGED <<ops, pass, input, nsHash, idHash>>

\* Lines 550-558: an applyOps that no transaction generated.
ApplyOpsNested ==
    LET op == CurrentOp IN
    /\ Applicable
    /\ ~BufferedUntilCommit(op)
    /\ IsTerminalApplyOps(op)
    /\ ~HasTxn(op)
    /\ derivedOps' = Append(TrackedPool, op.inner)
    /\ writerVectors' = AddDerivedOps(TrackedVectors, op.inner)
    /\ sessionsToUpdate' = Tracked.pending
    /\ cursor' = cursor + 1
    /\ UNCHANGED <<ops, pass, input, partialTxnOps, nsHash, idHash>>

\* ApplyPreparedCommit leaving the committed transaction in the partial list.
ApplyPreparedCommitKeepingList ==
    LET op == CurrentOp
        derived == ReadTransactionOperationsFromOplogChain(op, partialTxnOps[op.lsid])
    IN
    /\ Applicable
    /\ IsPreparedCommit(op)
    /\ Mode = "InitialSync"
    /\ derivedOps' = Append(TrackedPool, derived)
    /\ writerVectors' = AddDerivedOps(TrackedVectors, derived)
    /\ sessionsToUpdate' = Tracked.pending
    /\ cursor' = cursor + 1
    /\ UNCHANGED <<ops, pass, input, partialTxnOps, nsHash, idHash>>

\* Lines 565-575: in initial sync, the commit of a prepared transaction
\* expands the prepare and the partial entries before it.
ApplyPreparedCommit ==
    LET op == CurrentOp
        derived == ReadTransactionOperationsFromOplogChain(op, partialTxnOps[op.lsid])
    IN
    /\ Applicable
    /\ IsPreparedCommit(op)
    /\ Mode = "InitialSync"
    /\ derivedOps' = Append(TrackedPool, derived)
    /\ writerVectors' = AddDerivedOps(TrackedVectors, derived)
    /\ partialTxnOps' = [partialTxnOps EXCEPT ![op.lsid] = <<>>]
    /\ sessionsToUpdate' = Tracked.pending
    /\ cursor' = cursor + 1
    /\ UNCHANGED <<ops, pass, input, nsHash, idHash>>

\* An entry that no earlier branch of the loop consumes reaches line 577.
RoutedItself(op) ==
    /\ ~BufferedUntilCommit(op)
    /\ ~IsTerminalApplyOps(op)
    /\ ~(IsPreparedCommit(op) /\ Mode = "InitialSync")

\* RouteOp leaving the partial list of an aborted transaction in place.
RouteOpKeepingAborted ==
    LET op == CurrentOp
        r  == IF IsCrudOpType(op.opType) THEN ProcessCrudOp(op, nsHash[op.ns])
              ELSE [op |-> op, hash |-> nsHash[op.ns]]
    IN
    /\ Applicable
    /\ RoutedItself(op)
    /\ writerVectors' = AddToWriterVector(TrackedVectors, r.op, r.hash)
    /\ derivedOps' = TrackedPool
    /\ sessionsToUpdate' = Tracked.pending
    /\ cursor' = cursor + 1
    /\ UNCHANGED <<ops, pass, input, partialTxnOps, nsHash, idHash>>

\* Lines 525-531 and 577: abortTransaction clears the session's partial
\* list; every other entry is hashed and routed itself.
RouteOp ==
    LET op == CurrentOp
        r  == IF IsCrudOpType(op.opType) THEN ProcessCrudOp(op, nsHash[op.ns])
              ELSE [op |-> op, hash |-> nsHash[op.ns]]
    IN
    /\ Applicable
    /\ RoutedItself(op)
    /\ partialTxnOps' = IF IsAbortTransaction(op)
                        THEN [partialTxnOps EXCEPT ![op.lsid] = <<>>]
                        ELSE partialTxnOps
    /\ writerVectors' = AddToWriterVector(TrackedVectors, r.op, r.hash)
    /\ derivedOps' = TrackedPool
    /\ sessionsToUpdate' = Tracked.pending
    /\ cursor' = cursor + 1
    /\ UNCHANGED <<ops, pass, input, nsHash, idHash>>

\* Lines 589-593: flushAll's writes are partitioned by a second call with no
\* tracker, which starts with an empty partial-transaction map.
FlushSessionUpdates ==
    LET writes == FlushAllWrites(sessionsToUpdate) IN
    /\ pass = "main"
    /\ cursor = Len(input) + 1
    /\ writes # <<>>
    /\ derivedOps' = Append(derivedOps, writes)
    /\ input' = writes
    /\ cursor' = 1
    /\ pass' = "flush"
    /\ partialTxnOps' = [s \in Sessions |-> <<>>]
    /\ sessionsToUpdate' = [s \in Sessions |-> NoEntry]
    /\ UNCHANGED <<ops, writerVectors, nsHash, idHash>>

\* fillWriterVectors returning without partitioning flushAll's writes.
FinishFillWithoutFlush ==
    /\ pass \in {"main", "flush"}
    /\ cursor = Len(input) + 1
    /\ pass' = "done"
    /\ UNCHANGED <<ops, input, cursor, writerVectors, derivedOps, partialTxnOps,
                   sessionsToUpdate, nsHash, idHash>>

\* Line 590 false, or the end of the second call: fillWriterVectors returns.
FinishFill ==
    /\ \/ pass = "main" /\ FlushAllWrites(sessionsToUpdate) = <<>>
       \/ pass = "flush"
    /\ cursor = Len(input) + 1
    /\ pass' = "done"
    /\ UNCHANGED <<ops, input, cursor, writerVectors, derivedOps, partialTxnOps,
                   sessionsToUpdate, nsHash, idHash>>

FillInit ==
    /\ ops \in Batches
    /\ input = ops
    /\ cursor = 1
    /\ pass = "main"
    /\ writerVectors = [w \in Workers |-> <<>>]
    /\ derivedOps = <<>>
    /\ partialTxnOps = [s \in Sessions |-> <<>>]
    /\ sessionsToUpdate = [s \in Sessions |-> NoEntry]
    /\ nsHash \in NsHashes
    /\ idHash \in IdHashes

FillNext ==
    \/ SkipBeforeBegin
    \/ BufferPartialTxnOp
    \/ ApplyOpsOfTransaction
    \/ ApplyOpsNested
    \/ ApplyPreparedCommit
    \/ RouteOp
    \/ FlushSessionUpdates
    \/ FinishFill

FillSpec == FillInit /\ [][FillNext]_fillVars

-----------------------------------------------------------------------------
(***************************************************************************)
(* Properties of a finished partitioning pass.                              *)
(***************************************************************************)
FillTypeOK ==
    /\ pass \in {"main", "flush", "done"}
    /\ cursor \in 1..(Len(input) + 1)
    /\ writerVectors \in [Workers -> Seq([uid : Nat, ts : Nat, opType : OpTypes,
                                         ns : NS, id : Ids \cup Sessions \cup {NoId},
                                         lsid : Sessions \cup {NoSession},
                                         txnNumber : Nat, cmd : STRING,
                                         partialTxn : BOOLEAN, prepare : BOOLEAN,
                                         inner : Seq(UNION {}),
                                         forCapped : BOOLEAN, upsert : BOOLEAN,
                                         val : Nat])]
    /\ DOMAIN partialTxnOps = Sessions
    /\ \A s \in Sessions : \A k \in DOMAIN partialTxnOps[s] :
          LET e == partialTxnOps[s][k] IN BufferedUntilCommit(e) /\ e.lsid = s /\ HasTxn(e)
    /\ DOMAIN sessionsToUpdate = Sessions

UserOp(op) == op.ns # TxnTableNs
RoutedUserOps ==
    FlattenSeq([k \in 1..NumWriters |-> SelectSeq(writerVectors[k - 1], UserOp)])

\* Every operation that must take effect (EffectiveOps: the entries above
\* beginApplyingOpTime, transactions expanded at their commit, aborted ones
\* dropped, nested applyOps expanded) is in exactly one writer vector, and
\* nothing else is: the floor test at line 490, the buffering at 514-523, the
\* clearing at 525-527 and 546, and the expansions at 544 and 554 agree.
RoutedExactlyOnce ==
    pass = "done" =>
        LET eff == EffectiveOps(ops) IN
        /\ Len(RoutedUserOps) = Len(eff)
        /\ Uids(RoutedUserOps) = Uids(eff)

\* Invariant 1 of spec.md: operations that must keep their relative order
\* (one document under the collection's collator; a whole capped collection;
\* a whole collection without document locking) all land in one writer
\* vector, in the order they take effect.  It rests on processCrudOp hashing
\* the collation-aware _id only for non-capped collections (lines 234-240).
OrderPreserved ==
    pass = "done" =>
        LET eff == EffectiveOps(ops)
            crud == SelectSeq(eff, LAMBDA op : IsCrudOpType(op.opType))
        IN \A i \in DOMAIN crud :
             LET onKey(op) == /\ IsCrudOpType(op.opType)
                              /\ UserOp(op)
                              /\ OrderKey(op) = OrderKey(crud[i])
             IN \E w \in Workers :
                  /\ UidSeq(SelectSeq(writerVectors[w], onKey))
                        = UidSeq(SelectSeq(crud, onKey))
                  /\ \A v \in Workers \ {w} : SelectSeq(writerVectors[v], onKey) = <<>>

\* A session's config.transactions record is written from one writer vector,
\* in oplog order, and the last write comes from the session's latest
\* retryable write or transaction end, although the tracker defers retryable
\* writes to flushAll's second pass (lines 589-593).
SessionRecordLatestLast ==
    pass = "done" =>
        \A s \in Sessions :
            LET srcs == SessionRecordSources(ops, s)
                isRecord(op) == op.ns = TxnTableNs /\ op.id = s
            IN srcs # {} =>
                \E w \in Workers :
                    LET recs == SelectSeq(writerVectors[w], isRecord) IN
                    /\ recs # <<>>
                    /\ \A v \in Workers \ {w} : SelectSeq(writerVectors[v], isRecord) = <<>>
                    /\ \A k \in 1..(Len(recs) - 1) : recs[k].val < recs[k + 1].val
                    /\ recs[Len(recs)].val = ops[Max(srcs)].uid

\* The invariant at lines 519-520: a partial entry (or, in initial sync, a
\* prepare) joins a session's list only when the list holds entries of the
\* same transaction, so a list is never left over from a transaction that
\* ended by commit (546, 571) or abort (525-527).
PartialTxnListOfOneTxn ==
    Applicable /\ BufferedUntilCommit(CurrentOp) =>
        LET l == partialTxnOps[CurrentOp.lsid] IN
        l = <<>> \/ l[1].txnNumber = CurrentOp.txnNumber

=============================================================================
