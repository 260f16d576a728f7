\* fillWriterVectors in initial sync, where prepared transactions are
\* buffered at their prepare and expanded at their commit: every legal
\* 4-entry batch, two writers, every _id hash.
CONSTANTS
    cc = cc
    cn = cn
    txns = txns
    admin = admin
    a = a
    A = A
    b = b
    s1 = s1
    PrepareSharesBatch = FALSE
    NS = {cc, cn, txns, admin}
    NsRank <- MCNsRank
    Capped = {cc}
    CaseInsensitive = {cn}
    Existing = {cc, cn, txns, admin}
    TxnTableNs = txns
    AdminNs = admin
    Ids = {a, A, b}
    Fold <- MCFold
    Sessions = {s1}
    SupportsDocLocking = TRUE
    BeginApplyingOpTime = 1
    Mode = "InitialSync"
    Templates <- MCTemplates
    MaxBatch = 4
    NumWriters = 2
    HashValues = {0, 1}
    Murmur3 <- MCMurmur3
    NsHashes <- MCNsHashes
    IdHashes <- MCIdHashes

INIT FillInit
NEXT FillNext

INVARIANT RoutedExactlyOnce
INVARIANT PartialTxnListOfOneTxn

\* fillWriterVectors returns once the batch is partitioned.
CHECK_DEADLOCK FALSE
