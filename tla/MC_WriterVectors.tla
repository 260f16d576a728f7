-------------------------- MODULE MC_WriterVectors --------------------------
(***************************************************************************)
(* Partitioning of every legal batch of MaxBatch entries, built from the    *)
(* templates below, over two writers and every _id hash.                    *)
(*   cc     a capped collection, simple collation                           *)
(*   cn     a collection whose default collator folds case (a = A)          *)
(*   txns   config.transactions;  admin   admin.$cmd                        *)
(***************************************************************************)
EXTENDS WriterVectors, TLC

CONSTANTS cc, cn, txns, admin, a, A, b, s1,
          PrepareSharesBatch  \* a prepare may share a batch outside initial sync

MCNsRank == (admin :> 1) @@ (txns :> 2) @@ (cc :> 3) @@ (cn :> 4)
MCFold(i) == IF i = A THEN a ELSE i
MCMurmur3(key, seed) == (key + seed) % 2

Crud(t, n, i)  == [kind |-> "crud", type |-> t, ns |-> n, id |-> i, lsid |-> s1]
Txn(k, t, n, i) == [kind |-> k, type |-> t, ns |-> n, id |-> i, lsid |-> s1]

BaseTemplates ==
    { Crud("i", cc, a), Crud("i", cc, b), Crud("i", cn, a), Crud("d", cn, A),
      Crud("u", cn, a), [Crud("n", cn, a) EXCEPT !.kind = "noop"],
      Txn("partial", "i", cn, a), Txn("commit", "u", cn, A), Txn("abort", "i", cn, a),
      Txn("nested", "i", cc, b), Txn("retryable", "i", cn, A) }

\* Outside initial sync a prepare or a prepared commit is applied in a batch
\* of its own by a mechanism outside sync_tail.cpp, so only initial sync
\* sees them among other entries, unless PrepareSharesBatch drops that
\* precondition.  The noop and the nested applyOps make room for them.
PreparedTemplates ==
    { Txn("prepare", "u", cn, A), Txn("preparedCommit", "n", admin, b) }

MCTemplates ==
    IF Mode = "InitialSync" \/ PrepareSharesBatch
    THEN (BaseTemplates \ {[Crud("n", cn, a) EXCEPT !.kind = "noop"],
                           Txn("nested", "i", cc, b)}) \cup PreparedTemplates
    ELSE BaseTemplates

MCNsHashes == {(admin :> 0) @@ (txns :> 1) @@ (cc :> 0) @@ (cn :> 1)}
MCIdHashes == [{a, A, b, s1} -> {0, 1}]

=============================================================================
