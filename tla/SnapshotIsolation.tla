------------------------- MODULE SnapshotIsolation -------------------------
(***************************************************************************)
(* What the relational layer promises its clients (docs/RELATIONAL.md,     *)
(* "What SI guarantees"), with no versions, heads, intents or recovery:    *)
(* a transaction reads the committed state of one timestamp plus its own   *)
(* writes until it ends, its writes appear all at once, and of two         *)
(* transactions that write one row concurrently only one commits.          *)
(***************************************************************************)
EXTENDS Naturals

CONSTANTS
    Rows, Payloads,
    NoRow,       \* the row is absent
    TxnIds,
    Timestamps   \* a set of naturals

VARIABLES
    history,   \* committed writes, [row, ts, val]
    active,    \* transactions that began and did not end
    snap,      \* their snapshot timestamps
    wset,      \* the rows they wrote
    view       \* what a read of each row answers them

vars == <<history, active, snap, wset, view>>

Vals == Payloads \cup {NoRow}

\* The committed writes of row r that a snapshot includes.
Included(hist, r, s) == {e \in hist : e.row = r /\ e.ts <= s}

\* The value of row r in the committed state of timestamp s.
AsOf(hist, r, s) ==
    LET E == Included(hist, r, s)
    IN  IF E = {} THEN NoRow
        ELSE (CHOOSE e \in E : \A f \in E : f.ts <= e.ts).val

Nothing == [r \in Rows |-> NoRow]

Init ==
    /\ history = {}
    /\ active = {}
    /\ snap = [t \in TxnIds |-> 0]
    /\ wset = [t \in TxnIds |-> {}]
    /\ view = [t \in TxnIds |-> Nothing]

Begin(t) ==
    /\ t \notin active
    /\ active' = active \cup {t}
    /\ \E s \in Timestamps :
          /\ snap' = [snap EXCEPT ![t] = s]
          /\ view' = [view EXCEPT ![t] = [r \in Rows |-> AsOf(history, r, s)]]
    /\ UNCHANGED <<history, wset>>

\* A row that another active transaction wrote, or that was committed after
\* the snapshot, cannot be written.
Write(t, r, v) ==
    /\ t \in active
    /\ \A u \in active \ {t} : r \notin wset[u]
    /\ \A e \in history : e.row = r => e.ts <= snap[t]
    /\ wset' = [wset EXCEPT ![t] = @ \cup {r}]
    /\ view' = [view EXCEPT ![t][r] = v]
    /\ UNCHANGED <<history, active, snap>>

End(T) ==
    /\ active' = active \ T
    /\ snap' = [t \in TxnIds |-> IF t \in T THEN 0 ELSE snap[t]]
    /\ wset' = [t \in TxnIds |-> IF t \in T THEN {} ELSE wset[t]]
    /\ view' = [t \in TxnIds |-> IF t \in T THEN Nothing ELSE view[t]]

\* All writes of t enter the history together, at a timestamp later than every
\* running snapshot and than every committed write of the same rows.
Commit(t) ==
    /\ t \in active
    /\ \E ts \in Timestamps :
          /\ \A u \in active : snap[u] < ts
          /\ \A e \in history : e.row \in wset[t] => e.ts <= snap[t]
          /\ history' = history \cup
                {[row |-> r, ts |-> ts, val |-> view[t][r]] : r \in wset[t]}
    /\ End({t})

Abort(t) ==
    /\ t \in active
    /\ End({t})
    /\ UNCHANGED history

\* A crash ends every running transaction.
Crash ==
    /\ active # {}
    /\ End(active)
    /\ UNCHANGED history

Next ==
    \/ \E t \in TxnIds :
          \/ Begin(t) \/ Commit(t) \/ Abort(t)
          \/ \E r \in Rows, v \in Vals : Write(t, r, v)
    \/ Crash

Spec == Init /\ [][Next]_vars

-----------------------------------------------------------------------------
\* A running transaction reads one committed state, the same from Begin to its
\* end, wherever it has not written itself.
ViewIsSnapshot ==
    \A t \in active, r \in Rows :
        r \notin wset[t] => view[t][r] = AsOf(history, r, snap[t])

\* First committer wins: the rows a running transaction wrote carry no commit
\* from after its snapshot, and nobody else holds them.
FirstCommitterWins ==
    \A t \in active : \A r \in wset[t] :
        /\ \A e \in history : e.row = r => e.ts <= snap[t]
        /\ \A u \in active \ {t} : r \notin wset[u]
=============================================================================
