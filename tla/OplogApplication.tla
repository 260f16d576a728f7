-------------------------- MODULE OplogApplication --------------------------
(***************************************************************************)
(* What applying one batch must achieve, stated without writer vectors or  *)
(* workers (spec.md sections 3 and 8): the entries above                   *)
(* beginApplyingOpTime take effect one after the other in oplog order, a   *)
(* transaction's operations take effect at its terminal applyOps, an       *)
(* aborted transaction has no effect, and the nested operations of a       *)
(* standalone applyOps take effect in its place.  The detailed modules are *)
(* checked against these definitions.                                      *)
(***************************************************************************)
EXTENDS OplogEntry

\* The partial entries of the transaction that e ends, in oplog order.
TxnChain(b, e) ==
    SelectSeq(b, LAMBDA x : /\ x.partialTxn \/ x.prepare
                            /\ x.lsid = e.lsid
                            /\ x.txnNumber = e.txnNumber
                            /\ x.ts < e.ts)

InnerOps(s) == FlattenSeq([k \in DOMAIN s |-> s[k].inner])

\* The operations that take effect at entry e.  In initial sync a prepared
\* transaction takes effect at its commit (spec.md 3, invariant 5); in the
\* other modes its prepare and commit are commands applied by their own
\* mechanism.
MaterializesPrepared == Mode = "InitialSync"
EffectOf(b, e) ==
    IF e.ts <= BeginApplyingOpTime \/ e.partialTxn \/ (e.prepare /\ MaterializesPrepared)
    THEN <<>>
    ELSE IF IsTerminalApplyOps(e) /\ HasTxn(e) THEN InnerOps(TxnChain(b, e)) \o e.inner
    ELSE IF IsPreparedCommit(e) /\ MaterializesPrepared THEN InnerOps(TxnChain(b, e))
    ELSE IF IsTerminalApplyOps(e) THEN e.inner
    ELSE <<e>>

\* The batch as the serial sequence of operations that take effect.
EffectiveOps(b) == FlattenSeq([i \in DOMAIN b |-> EffectOf(b, b[i])])

Uids(s) == {s[k].uid : k \in DOMAIN s}
UidSeq(s) == [k \in DOMAIN s |-> s[k].uid]

\* Which operations must keep their relative order: those on one document, or
\* on one collection when it is capped (insertion order is its content) or
\* when the storage engine locks whole collections.
IsCappedCollection(ns) == ns \in Capped \cap Existing

OrderKey(op) ==
    IF IsCappedCollection(op.ns) \/ ~SupportsDocLocking THEN <<op.ns>> ELSE DocKey(op)

\* The entries of the batch that update a session's record in
\* config.transactions: retryable writes and transaction ends.
SessionRecordSources(b, s) ==
    {i \in DOMAIN b : /\ b[i].ts > BeginApplyingOpTime
                      /\ b[i].lsid = s
                      /\ HasTxn(b[i])
                      /\ ~b[i].partialTxn}

=============================================================================
