--------------------------- MODULE DocumentStore ---------------------------
(***************************************************************************)
(* The collections the applier writes, and the effect of one CRUD         *)
(* operation on them: applyOperation_inlock (oplog.cpp, not under src/;    *)
(* spec.md 4.7 and 7).  A document is the value of the operation that      *)
(* last wrote it; a capped collection also keeps its insertion order.      *)
(*                                                                         *)
(* SerialOutcome applies a batch's effective operations one after the      *)
(* other with the error policy of spec.md section 7: what a single-threaded *)
(* applier would leave.                                                    *)
(***************************************************************************)
EXTENDS OplogApplication

CONSTANTS
    AllowNamespaceNotFoundErrorsOnCrudOps,
    InitialDocs               \* documents present before the batch

DocKeys == NS \X (Ids \cup Sessions)
Absent == 0
PreBatch == 999               \* the value of a document present before the batch

ASSUME /\ AllowNamespaceNotFoundErrorsOnCrudOps \in BOOLEAN
       /\ InitialDocs \subseteq DocKeys

InitialStore ==
    [docs   |-> [k \in DocKeys |-> IF k \in InitialDocs THEN PreBatch ELSE Absent],
     capped |-> [n \in Capped |-> SetToSeq({k \in InitialDocs : k[1] = n})]]

\* applyOperation_inlock on a collection that exists: an insert writes its
\* document (an existing _id is overwritten), an update writes it when
\* present or when it may upsert (alwaysUpsert, or the entry's own upsert
\* flag, which the session-table updates carry) and otherwise fails with
\* UpdateOperationFailed, a delete removes it.
ApplyOperationInlock(st, op, alwaysUpsert) ==
    LET k == DocKey(op)
        new == st.docs[k] = Absent
        isCapped == op.ns \in Capped
    IN IF op.opType = "u" /\ new /\ ~alwaysUpsert /\ ~op.upsert
       THEN [status |-> "UpdateOperationFailed", store |-> st]
       ELSE IF op.opType = "d"
       THEN [status |-> "OK",
             store  |-> [docs   |-> [st.docs EXCEPT ![k] = Absent],
                         capped |-> IF isCapped
                                    THEN [st.capped EXCEPT ![op.ns] = SelectSeq(@, LAMBDA x : x # k)]
                                    ELSE st.capped]]
       ELSE [status |-> "OK",
             store  |-> [docs   |-> [st.docs EXCEPT ![k] = op.val],
                         capped |-> IF isCapped /\ new
                                    THEN [st.capped EXCEPT ![op.ns] = Append(@, k)]
                                    ELSE st.capped]]

-----------------------------------------------------------------------------
(* The serial reference, from spec.md sections 4.7 and 7.                  *)
SpecAlwaysUpsert == Mode # "InitialSync"

SpecNamespaceNotFoundIgnored(op) ==
    \/ op.opType = "d"
    \/ Mode = "Recovering"
    \/ AllowNamespaceNotFoundErrorsOnCrudOps

SerialStep(r, op) ==
    LET res == ApplyOperationInlock(r.store, op, SpecAlwaysUpsert) IN
    IF r.failed \/ ~IsCrudOpType(op.opType) THEN r
    ELSE IF op.ns \notin Existing
         THEN IF SpecNamespaceNotFoundIgnored(op) THEN r ELSE [r EXCEPT !.failed = TRUE]
    ELSE IF res.status = "OK" THEN [r EXCEPT !.store = res.store]
    ELSE IF Mode = "InitialSync" THEN r
    ELSE [r EXCEPT !.failed = TRUE]

SerialOutcome(b) ==
    FoldLeft(SerialStep, [store |-> InitialStore, failed |-> FALSE], EffectiveOps(b))

=============================================================================
