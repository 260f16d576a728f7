---------------------------- MODULE MC_SyncTail ----------------------------
(***************************************************************************)
(* One batch of MaxBatch entries, partitioned and applied by two workers.  *)
(*   cc     a capped collection, simple collation                          *)
(*   cn     a collection whose default collator folds case (a = A)         *)
(*   gone   a collection the primary has and this node has already dropped *)
(*   txns   config.transactions;  admin   admin.$cmd                       *)
(***************************************************************************)
EXTENDS SyncTail, TLC

CONSTANTS cc, cn, gone, txns, admin, a, A, b, s1

MCNsRank == (admin :> 1) @@ (txns :> 2) @@ (cc :> 3) @@ (cn :> 4) @@ (gone :> 5)
MCFold(i) == IF i = A THEN a ELSE i
MCMurmur3(key, seed) == (key + seed) % 2

Crud(t, n, i)  == [kind |-> "crud", type |-> t, ns |-> n, id |-> i, lsid |-> s1]
Txn(k, t, n, i) == [kind |-> k, type |-> t, ns |-> n, id |-> i, lsid |-> s1]

BaseTemplates ==
    { Crud("i", cc, a), Crud("i", cc, b), Crud("i", cn, a), Crud("d", cn, A),
      Crud("u", cn, A), Crud("i", gone, a),
      Txn("partial", "i", cn, b), Txn("commit", "d", cn, a), Txn("abort", "i", cn, a),
      Txn("retryable", "i", cn, b) }

\* Only initial sync applies a prepared transaction among other entries
\* (outside it, the prepare and its commit come in batches of their own).
PreparedTemplates ==
    { Txn("prepare", "u", cn, A), Txn("preparedCommit", "n", admin, b) }

MCTemplates ==
    IF Mode = "InitialSync" THEN BaseTemplates \cup PreparedTemplates ELSE BaseTemplates

MCNsHashes == {(admin :> 0) @@ (txns :> 1) @@ (cc :> 0) @@ (cn :> 1) @@ (gone :> 0)}
\* Only the relative hashes of a, A and b matter to which ops share a writer,
\* given the fixed namespace hashes: a's is fixed, A's and b's range over both.
MCIdHashes == {h \in [{a, A, b, s1} -> {0, 1}] : h[a] = 0 /\ h[s1] = 0}

=============================================================================
