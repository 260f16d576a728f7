-------------------------- MODULE BatchApplication --------------------------
(***************************************************************************)
(* What the parallel applier promises for one batch (spec.md sections 3,   *)
(* 7 and 8), with no writer vectors and no workers.  The operations that   *)
(* take effect (EffectiveOps) are applied in any order that keeps, for     *)
(* every OrderKey, the oplog order of the operations with that key; a step *)
(* applies one operation, or several at once as a grouped insert does.     *)
(* An operation whose serial application fails may fail the batch, and     *)
(* the other operations may still be applied afterwards, as the workers    *)
(* that did not fail finish their vectors.  Each operation is applied with *)
(* the serial step of DocumentStore, so its effect and its error policy    *)
(* are those of a single-threaded applier.                                 *)
(***************************************************************************)
EXTENDS DocumentStore

VARIABLES
    batch,   \* the oplog entries of the batch
    store,   \* the user collections
    done,    \* the uids of the operations applied or skipped
    failed   \* whether an operation failed

vars == <<batch, store, done, failed>>

\* The operators below take o, the batch's EffectiveOps, computed once a step.
Pending(o) == {k \in DOMAIN o : o[k].uid \notin done}

\* Operation k may be applied together with the operations S once every
\* earlier operation with its OrderKey is applied or is in S.
ReadyWith(o, k, S) ==
    \A j \in 1..(k - 1) : OrderKey(o[j]) = OrderKey(o[k]) => o[j].uid \in done \/ j \in S

\* The operations S, in oplog order, each with the serial step.
Outcome(o, S) ==
    FoldLeft(SerialStep, [store |-> store, failed |-> FALSE],
             [i \in 1..Cardinality(S) |-> o[SetToSortSeq(S, <)[i]]])

Init ==
    /\ batch \in Batches
    /\ store = InitialStore
    /\ done = {}
    /\ failed = FALSE

Apply(o, S) ==
    /\ S # {}
    /\ \A k \in S : ReadyWith(o, k, S)
    /\ LET r == Outcome(o, S) IN
       /\ ~r.failed
       /\ store' = r.store
    /\ done' = done \cup {o[k].uid : k \in S}
    /\ UNCHANGED <<batch, failed>>

Fail(o, k) ==
    /\ ReadyWith(o, k, {})
    /\ Outcome(o, {k}).failed
    /\ failed' = TRUE
    /\ UNCHANGED <<batch, store, done>>

Next ==
    LET o == EffectiveOps(batch) IN
    \/ \E S \in SUBSET Pending(o) : Apply(o, S)
    \/ \E k \in Pending(o) : Fail(o, k)

\* A step on the first pending operation of some OrderKey.  It is enabled
\* exactly when ~failed /\ Next is: the earliest operation of any set S
\* that Apply(S) may take is ready by itself.
Progress ==
    LET o == EffectiveOps(batch) IN
    /\ ~failed
    /\ \E k \in Pending(o) : Apply(o, {k}) \/ Fail(o, k)

\* Until an operation fails, the batch keeps being applied.
Spec == Init /\ [][Next]_vars /\ WF_vars(Progress)

=============================================================================
