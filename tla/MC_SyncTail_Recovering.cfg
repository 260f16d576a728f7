\* The same batches applied during startup recovery: NamespaceNotFound is
\* success for every CRUD entry, so grouped inserts into a dropped collection
\* succeed as a whole.
CONSTANTS
    cc = cc
    cn = cn
    gone = gone
    txns = txns
    admin = admin
    a = a
    A = A
    b = b
    s1 = s1
    NS = {cc, cn, gone, txns, admin}
    NsRank <- MCNsRank
    Capped = {cc}
    CaseInsensitive = {cn}
    Existing = {cc, cn, txns, admin}
    TxnTableNs = txns
    AdminNs = admin
    Ids = {a, A, b}
    Fold <- MCFold
    Sessions = {s1}
    SupportsDocLocking = TRUE
    BeginApplyingOpTime = 0
    Templates <- MCTemplates
    MaxBatch = 3
    NumWriters = 2
    MaxWriteConflicts = 0
    HashValues = {0, 1}
    Murmur3 <- MCMurmur3
    NsHashes <- MCNsHashes
    IdHashes <- MCIdHashes
    Mode = "Recovering"
    AllowNamespaceNotFoundErrorsOnCrudOps = FALSE
    InitialDocs = {}

SPECIFICATION Spec

INVARIANT ParallelApplyIsSerial

\* One batch is modelled: after the driver's join the applier goes on to
\* the next batch, which is outside the model.
CHECK_DEADLOCK FALSE
