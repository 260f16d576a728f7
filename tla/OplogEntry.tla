----------------------------- MODULE OplogEntry -----------------------------
(***************************************************************************)
(* The data the parallel oplog applier (src/mongo/db/repl/sync_tail.cpp)   *)
(* works on: oplog entries, the catalog facts it reads, and the batches    *)
(* the oplog buffer can hand it.  OplogEntry, NamespaceString and the      *)
(* catalog are defined outside src/, so the predicates below are taken     *)
(* from spec.md section 3 (spec_modelled).                                 *)
(*                                                                         *)
(* Data is abstracted to what the properties tell apart: a namespace and   *)
(* an _id are model values, a document is the uid of the entry that last   *)
(* wrote it, an opTime is the entry's position in the batch.               *)
(***************************************************************************)
EXTENDS Naturals, Sequences, SequencesExt, FiniteSets

CONSTANTS
    NS,              \* namespaces that entries name
    NsRank,          \* [NS -> Nat]: NamespaceString::operator< as a rank
    Capped,          \* capped collections (CollectionProperties.isCapped)
    CaseInsensitive, \* collections whose default collator folds case
    Existing,        \* collections present in the local catalog
    TxnTableNs,      \* config.transactions, written by session updates
    AdminNs,         \* admin.$cmd, the namespace of transaction commands
    Ids,             \* raw _id values
    Fold(_),         \* the case-folding of an _id by a case-insensitive collator
    Sessions,        \* logical session ids
    SupportsDocLocking,
    BeginApplyingOpTime,
    Mode,            \* OplogApplication::Mode of the applier
    Templates,       \* the entries a batch position may hold (see MakeBatch)
    MaxBatch         \* bound: the length of a batch

ASSUME /\ Capped \cup CaseInsensitive \cup Existing \subseteq NS
       /\ {TxnTableNs, AdminNs} \subseteq NS
       /\ NsRank \in [NS -> Nat]
       /\ \A n, m \in NS : NsRank[n] = NsRank[m] => n = m
       /\ \A i \in Ids : Fold(i) \in Ids /\ Fold(Fold(i)) = Fold(i)
       /\ SupportsDocLocking \in BOOLEAN
       /\ BeginApplyingOpTime \in Nat
       /\ Mode \in {"Secondary", "InitialSync", "Recovering"}
       /\ MaxBatch \in Nat \ {0}

NoSession == "none"
NoId == "none"

OpTypes == {"n", "i", "u", "d", "c"}

\* OplogEntry::isCrudOpType
IsCrudOpType(t) == t \in {"i", "u", "d"}

\* The identity of the document a CRUD op writes, as the collection's
\* collator sees it: two _ids equal under the collator name one document.
DocKey(op) ==
    <<op.ns, IF op.ns \in CaseInsensitive THEN Fold(op.id) ELSE op.id>>

\* OplogEntry predicates used by _deriveOpsAndFillWriterVectors.
IsPartialTransaction(op) == op.partialTxn
IsAbortTransaction(op)   == op.cmd = "abortTransaction"
IsTerminalApplyOps(op)   == op.cmd = "applyOps" /\ ~op.partialTxn /\ ~op.prepare
ShouldPrepare(op)        == op.prepare
IsPreparedCommit(op)     == op.cmd = "commitTransaction"
HasTxn(op)               == op.lsid # NoSession /\ op.txnNumber > 0
\* SessionUpdateTracker::isTransactionEntry
IsTransactionEntry(op) ==
    HasTxn(op) /\ (op.partialTxn \/ op.cmd \in {"applyOps", "abortTransaction", "commitTransaction"})

-----------------------------------------------------------------------------
(***************************************************************************)
(* Batches.  A template names the kind of entry at one batch position:     *)
(*   crud       an insert/update/delete of <<ns, id>>                      *)
(*   noop       a no-op entry                                              *)
(*   retryable  a retryable write: a CRUD op with a session and its own    *)
(*              txnNumber                                                  *)
(*   partial    a partialTxn applyOps of a multi-entry transaction,        *)
(*              carrying one CRUD op                                       *)
(*   commit     the terminal applyOps of a transaction, carrying one op    *)
(*   abort      an abortTransaction command                                *)
(*   prepare    the applyOps that prepares a transaction, carrying one op  *)
(*   preparedCommit  the commitTransaction of a prepared transaction       *)
(*   nested     an applyOps with no session, carrying one op               *)
(* A transaction's txnNumber is derived from the entries before it, so     *)
(* every generated batch is a legal piece of a primary's oplog.            *)
(***************************************************************************)
Entry(uid, ts, type, ns, id, lsid, txn, cmd, partial, inner) ==
    [uid |-> uid, ts |-> ts, opType |-> type, ns |-> ns, id |-> id,
     lsid |-> lsid, txnNumber |-> txn, cmd |-> cmd, partialTxn |-> partial,
     prepare |-> FALSE, inner |-> inner, forCapped |-> FALSE, upsert |-> FALSE,
     val |-> uid]

TxnKinds == {"retryable", "partial", "commit", "abort", "prepare", "preparedCommit"}

\* A txnNumber is used up by a retryable write and by the end of a transaction.
EndsTxnNumber(t) == t.kind \in {"retryable", "commit", "abort", "preparedCommit"}

TxnNumberAt(tpl, i) ==
    1 + Cardinality({j \in 1..(i - 1) :
                        tpl[j].lsid = tpl[i].lsid /\ EndsTxnNumber(tpl[j])})

MakeEntry(tpl, i) ==
    LET t     == tpl[i]
        txn   == IF t.kind \in TxnKinds
                 THEN TxnNumberAt(tpl, i) ELSE 0
        lsid  == IF txn > 0 THEN t.lsid ELSE NoSession
        crud  == Entry(10 * i + 1, i, t.type, t.ns, t.id, lsid, txn,
                       "none", FALSE, <<>>)
    IN CASE t.kind = "crud"      -> Entry(i, i, t.type, t.ns, t.id, NoSession, 0,
                                          "none", FALSE, <<>>)
         [] t.kind = "noop"      -> Entry(i, i, "n", t.ns, NoId, NoSession, 0,
                                          "none", FALSE, <<>>)
         [] t.kind = "retryable" -> Entry(i, i, t.type, t.ns, t.id, lsid, txn,
                                          "none", FALSE, <<>>)
         [] t.kind = "partial"   -> Entry(i, i, "c", AdminNs, NoId, lsid, txn,
                                          "applyOps", TRUE, <<crud>>)
         [] t.kind = "commit"    -> Entry(i, i, "c", AdminNs, NoId, lsid, txn,
                                          "applyOps", FALSE, <<crud>>)
         [] t.kind = "abort"     -> Entry(i, i, "c", AdminNs, NoId, lsid, txn,
                                          "abortTransaction", FALSE, <<>>)
         [] t.kind = "prepare"   -> [Entry(i, i, "c", AdminNs, NoId, lsid, txn,
                                          "applyOps", FALSE, <<crud>>) EXCEPT !.prepare = TRUE]
         [] t.kind = "preparedCommit" -> Entry(i, i, "c", AdminNs, NoId, lsid, txn,
                                          "commitTransaction", FALSE, <<>>)
         [] t.kind = "nested"    -> Entry(i, i, "c", AdminNs, NoId, NoSession, 0,
                                          "applyOps", FALSE, <<crud>>)

MakeBatch(tpl) == [i \in DOMAIN tpl |-> MakeEntry(tpl, i)]

\* A session runs one transaction at a time.  Its transaction entries follow
\*   (retryable | partial* (commit | abort) | partial* prepare (preparedCommit | abort))*
\* and the batch may end inside a transaction.  A prepared transaction's
\* commit follows its prepare in the batch.
SessionStep(st, kind) ==
    CASE st = "bad"                                       -> "bad"
      [] kind = "retryable"      /\ st = "none"           -> "none"
      [] kind = "partial"        /\ st \in {"none", "open"} -> "open"
      [] kind = "commit"         /\ st \in {"none", "open"} -> "none"
      [] kind = "prepare"        /\ st \in {"none", "open"} -> "prepared"
      [] kind = "preparedCommit" /\ st = "prepared"       -> "none"
      [] kind = "abort"                                   -> "none"
      [] OTHER                                            -> "bad"

LegalTemplates(tpl) ==
    \A s \in Sessions :
        LET kinds == [k \in DOMAIN SelectSeq(tpl, LAMBDA t : t.kind \in TxnKinds /\ t.lsid = s)
                        |-> SelectSeq(tpl, LAMBDA t : t.kind \in TxnKinds /\ t.lsid = s)[k].kind]
        IN FoldLeft(SessionStep, "none", kinds) # "bad"

Batches ==
    {MakeBatch(tpl) : tpl \in {t \in [1..MaxBatch -> Templates] : LegalTemplates(t)}}

=============================================================================
