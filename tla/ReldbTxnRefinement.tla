------------------------- MODULE ReldbTxnRefinement -------------------------
(***************************************************************************)
(* The transactions of ReldbTxn implement SnapshotIsolation.  The abstract *)
(* state is a function of the concrete one; there is no history variable.  *)
(***************************************************************************)
EXTENDS ReldbTxn

\* The timestamp from which a version counts as committed: its stamp or, from
\* the durable intent on, the timestamp its owner is committing with.
EffectiveTs(rec) ==
    IF ~is_provisional(rec) THEN rec.start_ts
    ELSE IF meta[rec.created_by].state = "Committing"
    THEN meta[rec.created_by].commit_ts ELSE 0

CommittedWrites ==
    UNION {{[row |-> r, ts |-> EffectiveTs(ver[r][v]), val |-> ver[r][v].val] :
              v \in {x \in VersionIds : ver[r][x] # NoVersion /\ EffectiveTs(ver[r][x]) # 0}} :
            r \in Rows}

\* A transaction runs until its intent is durable or its abort has begun.
Running ==
    {t \in TxnIds : /\ txn[t].st = "open"
                    /\ meta[t].state = "Open"
                    /\ ~(op.pc = "restore" /\ op.t = t)}

Snap == [t \in TxnIds |-> IF t \in Running THEN txn[t].start_ts ELSE 0]

WriteSet ==
    [t \in TxnIds |-> IF t \in Running
                      THEN {txn[t].written[i].row : i \in 1 .. Len(txn[t].written)} ELSE {}]

View == [t \in TxnIds |-> [r \in Rows |-> IF t \in Running THEN Get(t, r) ELSE NoRow]]

SI == INSTANCE SnapshotIsolation WITH
        Timestamps <- 0 .. MaxTs, history <- CommittedWrites, active <- Running,
        snap <- Snap, wset <- WriteSet, view <- View

\* Every behaviour of the transaction layer, crashes and recovery included, is
\* a behaviour of SnapshotIsolation: stable snapshots, read-your-writes, atomic
\* commit and first-committer-wins.
ImplementsSnapshotIsolation == SI!Spec
=============================================================================
