\* Every legal 3-entry batch in secondary mode, two writers,
\* all worker interleavings, every relative hash of the _ids.
CONSTANTS
    cc = cc
    cn = cn
    gone = gone
    txns = txns
    admin = admin
    a = a
    A = A
    b = b
    s1 = s1
    NS = {cc, cn, gone, txns, admin}
    NsRank <- MCNsRank
    Capped = {cc}
    CaseInsensitive = {cn}
    Existing = {cc, cn, txns, admin}
    TxnTableNs = txns
    AdminNs = admin
    Ids = {a, A, b}
    Fold <- MCFold
    Sessions = {s1}
    SupportsDocLocking = TRUE
    BeginApplyingOpTime = 0
    Templates <- MCTemplates
    MaxBatch = 3
    NumWriters = 2
    MaxWriteConflicts = 0
    HashValues = {0, 1}
    Murmur3 <- MCMurmur3
    NsHashes <- MCNsHashes
    IdHashes <- MCIdHashes
    Mode = "Secondary"
    AllowNamespaceNotFoundErrorsOnCrudOps = FALSE
    InitialDocs = {}

SPECIFICATION Spec

INVARIANT TypeOK
INVARIANT ParallelApplyIsSerial
INVARIANT NoGroupedCappedInsert
INVARIANT MultikeyPathsHandedOff

\* One batch is modelled: after the driver's join the applier goes on to
\* the next batch, which is outside the model.
CHECK_DEADLOCK FALSE
