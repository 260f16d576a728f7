\* fillWriterVectors in secondary mode on batches in which a prepared
\* transaction shares a batch with other entries of its session, which the
\* batcher outside sync_tail.cpp never builds: the invariant at lines
\* 519-520 then fails.
CONSTANTS
    cc = cc
    cn = cn
    txns = txns
    admin = admin
    a = a
    A = A
    b = b
    s1 = s1
    PrepareSharesBatch = TRUE
    NS = {cc, cn, txns, admin}
    NsRank <- MCNsRank
    Capped = {cc}
    CaseInsensitive = {cn}
    Existing = {cc, cn, txns, admin}
    TxnTableNs = txns
    AdminNs = admin
    Ids = {a, A, b}
    Fold <- MCFold
    Sessions = {s1}
    SupportsDocLocking = TRUE
    BeginApplyingOpTime = 0
    Mode = "Secondary"
    Templates <- MCTemplates
    MaxBatch = 4
    NumWriters = 2
    HashValues = {0, 1}
    Murmur3 <- MCMurmur3
    NsHashes <- MCNsHashes
    IdHashes <- MCIdHashes

INIT FillInit
NEXT FillNext

INVARIANT PartialTxnListOfOneTxn

\* fillWriterVectors returns once the batch is partitioned.
CHECK_DEADLOCK FALSE
