------------------------------ MODULE ReldbTxn ------------------------------
(***************************************************************************)
(* Transactions of the relational layer: Database (database.cpp),          *)
(* Transaction (txn.cpp) and MvccStore (mvcc.cpp) over the key-value       *)
(* engine, with process crashes and the recovery that Database::Open runs. *)
(*                                                                         *)
(* Every mutating handler holds Database::mu_ exclusively, so handlers do  *)
(* not interleave with each other: `op' is the handler that holds the lock *)
(* and how far it got.  A step is one Put of the engine together with the  *)
(* in-memory assignments next to it, because a crash (or an engine error)  *)
(* can fall between any two Puts.  A crash that loses a suffix of the      *)
(* engine's writes is an earlier crash here.  Reads (GetRow, Get) take the *)
(* lock shared and change nothing: they are state functions.  The DDL gate *)
(* (open_txn_count_, ddl_in_progress_) is left out: no DDL runs here.      *)
(***************************************************************************)
EXTENDS Naturals, Sequences

CONSTANTS
    Rows,         \* (table, primary key) pairs
    Payloads,     \* encoded rows
    NoRow,        \* a tombstone; also what a read of an absent row returns
    NoVersion,    \* engine answers NotFound for a version key
    MaxTxn,       \* bound: transaction ids are 1..MaxTxn
    MaxVersion,   \* bound: version ids are 1..MaxVersion
    MaxTs,        \* bound: commit timestamps are 1..MaxTs
    MaxCrashes,   \* bound: process crashes
    MaxFaults     \* bound: engine calls that return an error

TxnIds == 1 .. MaxTxn
VersionIds == 1 .. MaxVersion
Vals == Payloads \cup {NoRow}

VersionRecord == [start_ts : Nat, end_ts : Nat, prev_id : 0 .. MaxVersion,
                  created_by : TxnIds, val : Vals]
TxnWrite == [row : Rows, vid : VersionIds]
TxnState == {"NotFound", "Open", "Committing", "Committed", "Aborted"}
TxnMeta == [state : TxnState, commit_ts : Nat, writes : Seq(TxnWrite)]

ASSUME BoundsAssumption ==
    /\ MaxTxn \in Nat /\ MaxVersion \in Nat /\ MaxTs \in Nat
    /\ MaxCrashes \in Nat /\ MaxFaults \in Nat
ASSUME ValuesAssumption ==
    NoVersion \notin VersionRecord /\ NoRow \notin Payloads /\ "Corruption" \notin Vals

VARIABLES
    \* --- durable: keys of the engine
    ver,      \* v/<table>/<pk>/<vid>
    head,     \* d/<table>/<pk>, 0 when the key is absent
    meta,     \* m/txn/<id>
    stored,   \* m/next_ts, m/next_txn, m/next_vid
    \* --- in memory
    next,     \* next_ts_, next_txn_id_, next_version_id_
    txn,      \* Transaction objects: finished_, start_ts_, written_
    op,       \* the handler inside mu_
    \* --- bounds
    crashes, faults

durable == <<ver, head, meta, stored>>
vars == <<ver, head, meta, stored, next, txn, op, crashes, faults>>

NoTxn == [st |-> "none", start_ts |-> 0, written |-> <<>>]
NoMeta == [state |-> "NotFound", commit_ts |-> 0, writes |-> <<>>]
FirstOracle == [ts |-> 1, txn |-> 1, vid |-> 1]

\* A handler at program point pc.  The other fields are its locals: t the
\* transaction, r/val/prev the version being installed, w/i the write list and
\* the position in it, cts the commit timestamp, by whether a client call or
\* Database::Open runs it, k the next counter that PersistOracles puts, ret where
\* it returns to.
Op(pc) == [pc |-> pc, ret |-> "none", k |-> 0, t |-> 0, r |-> NoRow, val |-> NoRow,
           prev |-> 0, w |-> <<>>, i |-> 0, cts |-> 0, by |-> "client"]
Idle == Op("idle")
Down == Op("down")

Persist(o, ret) == [o EXCEPT !.pc = "persist", !.k = 1, !.ret = ret]

Init ==
    /\ ver = [r \in Rows |-> [v \in VersionIds |-> NoVersion]]
    /\ head = [r \in Rows |-> 0]
    /\ meta = [t \in TxnIds |-> NoMeta]
    /\ stored = FirstOracle
    /\ next = FirstOracle
    /\ txn = [t \in TxnIds |-> NoTxn]
    /\ op = Idle
    /\ crashes = 0
    /\ faults = 0

-----------------------------------------------------------------------------
\* MvccStore.

is_provisional(rec) == rec.start_ts = 0

\* Mutant: versions committed after the snapshot are visible too.
VisibleAfterSnapshot(rec, snapshot) ==
    ~is_provisional(rec) /\ (rec.end_ts # 0 => rec.end_ts > snapshot)

IsCommittedVisible(rec, snapshot) ==
    /\ ~is_provisional(rec)
    /\ rec.start_ts <= snapshot
    /\ rec.end_ts # 0 => rec.end_ts > snapshot

\* What GetRow answers to transaction t at a snapshot: a payload, NoRow
\* (NotFound), or "Corruption".  A version or transaction key that is missing
\* makes the walk return NotFound.
GetRow(r, snapshot, t) ==
    LET walk[id \in 0 .. MaxVersion] ==
            IF id = 0 \/ ver[r][id] = NoVersion THEN NoRow
            ELSE LET rec == ver[r][id]
                     state == meta[rec.created_by].state
                 IN  IF ~is_provisional(rec)
                     THEN IF IsCommittedVisible(rec, snapshot)
                          THEN rec.val ELSE walk[rec.prev_id]
                     ELSE IF rec.created_by = t THEN rec.val
                     ELSE IF state = "NotFound" THEN NoRow
                     ELSE IF state = "Committed" THEN "Corruption"
                     ELSE walk[rec.prev_id]
    IN  walk[head[r]]

\* Transaction::Get of an open transaction.
Get(t, r) == GetRow(r, txn[t].start_ts, t)

-----------------------------------------------------------------------------
\* Database::PersistOracles: three Puts, in this order.

PersistOracles ==
    /\ op.pc = "persist"
    /\ \/ /\ op.k = 1
          /\ stored' = [stored EXCEPT !.ts = next.ts]
          /\ op' = [op EXCEPT !.k = 2]
       \/ /\ op.k = 2
          /\ stored' = [stored EXCEPT !.txn = next.txn]
          /\ op' = [op EXCEPT !.k = 3]
       \/ /\ op.k = 3
          /\ stored' = [stored EXCEPT !.vid = next.vid]
          /\ op' = [op EXCEPT !.pc = op.ret, !.k = 0, !.ret = "none"]
    /\ UNCHANGED <<ver, head, meta, next, txn, crashes, faults>>

\* Database::Begin.
Begin ==
    /\ op = Idle
    /\ next.txn <= MaxTxn
    /\ next' = [next EXCEPT !.txn = @ + 1]
    /\ op' = Persist([Idle EXCEPT !.t = next.txn], "beginMeta")
    /\ UNCHANGED <<ver, head, meta, stored, txn, crashes, faults>>

\* Mutant: the snapshot is one timestamp too old.
StaleLastCommit == next.ts - 2

LastCommit == next.ts - 1

BeginMeta ==
    /\ op.pc = "beginMeta"
    /\ meta' = [meta EXCEPT ![op.t] = [NoMeta EXCEPT !.state = "Open"]]
    /\ txn' = [txn EXCEPT ![op.t] = [st |-> "open", start_ts |-> LastCommit, written |-> <<>>]]
    /\ op' = Idle
    /\ UNCHANGED <<ver, head, stored, next, crashes, faults>>

-----------------------------------------------------------------------------
\* Transaction::Write, the body of Insert, Update and Delete.

\* Positions of row r in the transaction's write list.
Written(t, r) == {i \in 1 .. Len(txn[t].written) : txn[t].written[i].row = r}

\* The row is already in written_: its provisional version is rewritten in
\* place by one Put.
RewriteOwn(t, r, kind, val) ==
    \E i \in Written(t, r) :
        LET vid == txn[t].written[i].vid
            old == ver[r][vid].val
        IN  /\ kind = "insert" => old = NoRow
            /\ kind = "delete" => old # NoRow
            /\ ver' = [ver EXCEPT ![r][vid].val = val]
            /\ UNCHANGED <<head, meta, stored, next, txn, op, crashes, faults>>

\* The head is a provisional version of another open transaction (or of an
\* owner that cannot be looked up): the write is refused.
HeldByOther(t, r) ==
    LET rec == ver[r][head[r]]
    IN  is_provisional(rec) /\ meta[rec.created_by].state \in {"Open", "NotFound"}

\* The newest committed version is younger than the snapshot (or the walk to it
\* meets a version or an owner that cannot be looked up).
CommittedAfter(t, r) ==
    LET snapshot == txn[t].start_ts
        walk[id \in 0 .. MaxVersion] ==
            IF id = 0 THEN FALSE
            ELSE IF ver[r][id] = NoVersion THEN TRUE
            ELSE LET rec == ver[r][id]
                     owner == meta[rec.created_by]
                 IN  IF ~is_provisional(rec) THEN rec.start_ts > snapshot
                     ELSE IF /\ rec.created_by # t
                             /\ \/ owner.state = "NotFound"
                                \/ owner.state = "Committed" /\ owner.commit_ts > snapshot
                     THEN TRUE ELSE walk[rec.prev_id]
    IN  walk[head[r]]

\* Mutant: the new version points at whatever the head is.
PrevIdKeepsAborted(r) == head[r]

\* An aborted provisional head is left out of the new version's chain.
PrevId(r) ==
    IF head[r] # 0 /\ is_provisional(ver[r][head[r]])
                   /\ meta[ver[r][head[r]].created_by].state = "Aborted"
    THEN ver[r][head[r]].prev_id
    ELSE head[r]

WriteNew(t, r, kind, val) ==
    /\ Written(t, r) = {}
    /\ next.vid <= MaxVersion
    /\ IF head[r] = 0 THEN kind = "insert"
       ELSE /\ ~HeldByOther(t, r)
            /\ ~CommittedAfter(t, r)
            /\ LET g == Get(t, r)
               IN  g # "Corruption" /\ (kind = "insert" <=> g = NoRow)
    /\ next' = [next EXCEPT !.vid = @ + 1]
    /\ op' = Persist([Idle EXCEPT !.t = t, !.r = r, !.val = val, !.prev = PrevId(r)],
                     "putVersion")
    /\ UNCHANGED <<ver, head, meta, stored, txn, crashes, faults>>

Write(t, r, kind, val) ==
    /\ op = Idle
    /\ txn[t].st = "open"
    /\ RewriteOwn(t, r, kind, val) \/ WriteNew(t, r, kind, val)

Insert(t, r, p) == Write(t, r, "insert", p)
Update(t, r, p) == Write(t, r, "update", p)
Delete(t, r) == Write(t, r, "delete", NoRow)

\* Mutant: the id is read again after the increment.
NewVidReadLate == next.vid

\* The version id this Write took from next_version_id_.
NewVid == next.vid - 1

PutVersionValue ==
    /\ op.pc = "putVersion"
    /\ ver' = [ver EXCEPT ![op.r][NewVid] =
                  [start_ts |-> 0, end_ts |-> 0, prev_id |-> op.prev,
                   created_by |-> op.t, val |-> op.val]]
    /\ op' = [op EXCEPT !.pc = "setHead"]
    /\ UNCHANGED <<head, meta, stored, next, txn, crashes, faults>>

SetHead ==
    /\ op.pc = "setHead"
    /\ head' = [head EXCEPT ![op.r] = NewVid]
    /\ txn' = [txn EXCEPT ![op.t].written = Append(@, [row |-> op.r, vid |-> NewVid])]
    /\ op' = [op EXCEPT !.pc = "writeMeta"]
    /\ UNCHANGED <<ver, meta, stored, next, crashes, faults>>

WriteMeta ==
    /\ op.pc = "writeMeta"
    /\ meta' = [meta EXCEPT ![op.t] =
                   [state |-> "Open", commit_ts |-> 0, writes |-> txn[op.t].written]]
    /\ op' = Idle
    /\ UNCHANGED <<ver, head, stored, next, txn, crashes, faults>>

-----------------------------------------------------------------------------
\* Database::CommitTransaction.

\* First-committer-wins re-check of entry i: the row still has our provisional
\* version at its head and nothing committed after our snapshot below it.
StillOurs(t, i) ==
    LET w == txn[t].written[i]
        prev == ver[w.row][w.vid].prev_id
    IN  /\ head[w.row] = w.vid
        /\ prev # 0 /\ ver[w.row][prev] # NoVersion =>
               \/ is_provisional(ver[w.row][prev])
               \/ ver[w.row][prev].start_ts <= txn[t].start_ts

CommitCheck(t) == \A i \in 1 .. Len(txn[t].written) : StillOurs(t, i)

\* The first entry that fails aborts the transaction, unless its head key is
\* gone: then the call returns NotFound and changes nothing.
CommitConflict(t) ==
    \E i \in 1 .. Len(txn[t].written) :
        /\ ~StillOurs(t, i)
        /\ head[txn[t].written[i].row] # 0
        /\ \A j \in 1 .. i - 1 : StillOurs(t, j)

Restoring(t, w, by) ==
    [Idle EXCEPT !.pc = "restore", !.t = t, !.w = w, !.i = Len(w), !.by = by]

Applying(t, w, cts, by) ==
    [Idle EXCEPT !.pc = "apply", !.t = t, !.w = w, !.i = 1, !.cts = cts, !.by = by]

Commit(t) ==
    /\ op = Idle
    /\ txn[t].st = "open"
    /\ IF CommitCheck(t)
       THEN /\ next.ts <= MaxTs
            /\ next' = [next EXCEPT !.ts = @ + 1]
            /\ op' = [Idle EXCEPT !.pc = "intent", !.t = t, !.cts = next.ts]
       ELSE /\ CommitConflict(t)
            /\ op' = Restoring(t, txn[t].written, "client")
            /\ UNCHANGED next
    /\ UNCHANGED <<ver, head, meta, stored, txn, crashes, faults>>

\* Mutant: the transaction is marked Committed before its versions are stamped.
CommittedFirst ==
    /\ op.pc = "intent"
    /\ meta' = [meta EXCEPT ![op.t] =
                   [state |-> "Committed", commit_ts |-> op.cts, writes |-> txn[op.t].written]]
    /\ op' = Applying(op.t, txn[op.t].written, op.cts, "client")
    /\ UNCHANGED <<ver, head, stored, next, txn, crashes, faults>>

PutIntent ==
    /\ op.pc = "intent"
    /\ meta' = [meta EXCEPT ![op.t] =
                   [state |-> "Committing", commit_ts |-> op.cts, writes |-> txn[op.t].written]]
    /\ op' = Applying(op.t, txn[op.t].written, op.cts, "client")
    /\ UNCHANGED <<ver, head, stored, next, txn, crashes, faults>>

\* ApplyCommitWrites, one Put: close the previous committed version, then stamp
\* ours.  A version that is already stamped is passed over; one that belongs to
\* somebody else, or carries another timestamp, is Corruption.
ApplyCommitWrites ==
    /\ op.pc = "apply"
    /\ op.i <= Len(op.w)
    /\ LET r == op.w[op.i].row
           vid == op.w[op.i].vid
           rec == ver[r][vid]
           prev == IF rec.prev_id = 0 THEN NoVersion ELSE ver[r][rec.prev_id]
           Failed == op' = (IF op.by = "Open" THEN Down ELSE Idle) /\ UNCHANGED ver
       IN  IF rec = NoVersion THEN Failed
           ELSE IF rec.created_by # op.t \/ rec.start_ts \notin {0, op.cts} THEN Failed
           ELSE IF rec.start_ts = op.cts THEN
                   op' = [op EXCEPT !.i = @ + 1] /\ UNCHANGED ver
           ELSE IF prev # NoVersion /\ ~is_provisional(prev) /\ prev.end_ts = 0 THEN
                   ver' = [ver EXCEPT ![r][rec.prev_id].end_ts = op.cts] /\ UNCHANGED op
           ELSE /\ ver' = [ver EXCEPT ![r][vid].start_ts = op.cts]
                /\ op' = [op EXCEPT !.i = @ + 1]
    /\ UNCHANGED <<head, meta, stored, next, txn, crashes, faults>>

\* Mark the transaction Committed once every version is stamped.  The caller
\* is CommitTransaction, or RecoverTxns, which persists the oracles only when
\* it had to advance next_ts_.
PutCommitted ==
    /\ op.pc = "apply"
    /\ op.i > Len(op.w)
    /\ meta' = [meta EXCEPT ![op.t] =
                   [state |-> "Committed", commit_ts |-> op.cts, writes |-> <<>>]]
    /\ IF op.by = "client" THEN op' = Persist([Idle EXCEPT !.t = op.t], "committed") /\ UNCHANGED next
       ELSE IF op.cts >= next.ts
       THEN /\ next' = [next EXCEPT !.ts = op.cts + 1]
            /\ op' = Persist([Idle EXCEPT !.t = op.t + 1, !.by = "Open"], "recover")
       ELSE /\ op' = [Idle EXCEPT !.pc = "recover", !.t = op.t + 1, !.by = "Open"]
            /\ UNCHANGED next
    /\ UNCHANGED <<ver, head, stored, txn, crashes, faults>>

\* MarkTxnFinishedLocked at the end of CommitTransaction.
CommitDone ==
    /\ op.pc = "committed"
    /\ txn' = [txn EXCEPT ![op.t].st = "finished"]
    /\ op' = Idle
    /\ UNCHANGED <<ver, head, meta, stored, next, crashes, faults>>

-----------------------------------------------------------------------------
\* Database::AbortTransaction; also what ~Transaction does.
Abort(t) ==
    /\ op = Idle
    /\ txn[t].st = "open"
    /\ op' = Restoring(t, txn[t].written, "client")
    /\ UNCHANGED <<ver, head, meta, stored, next, txn, crashes, faults>>

\* RestoreHeads, one row of the write list, last first.  prev_id 0 clears the
\* head key.
RestoreHeads ==
    /\ op.pc = "restore"
    /\ op.i > 0
    /\ LET w == op.w[op.i]
       IN  head' = IF head[w.row] # w.vid THEN head
                   ELSE [head EXCEPT ![w.row] = ver[w.row][w.vid].prev_id]
    /\ op' = [op EXCEPT !.i = @ - 1]
    /\ UNCHANGED <<ver, meta, stored, next, txn, crashes, faults>>

PutAborted ==
    /\ op.pc = "restore"
    /\ op.i = 0
    /\ meta' = [meta EXCEPT ![op.t] = [NoMeta EXCEPT !.state = "Aborted"]]
    /\ IF op.by = "Open"
       THEN op' = [Idle EXCEPT !.pc = "recover", !.t = op.t + 1, !.by = "Open"] /\ UNCHANGED txn
       ELSE op' = Idle /\ txn' = [txn EXCEPT ![op.t].st = "finished"]
    /\ UNCHANGED <<ver, head, stored, next, crashes, faults>>

-----------------------------------------------------------------------------
\* Process crash, and Database::Open of the next incarnation.

Crash ==
    /\ op # Down
    /\ crashes < MaxCrashes
    /\ crashes' = crashes + 1
    /\ next' = FirstOracle
    /\ txn' = [t \in TxnIds |-> NoTxn]
    /\ op' = Down
    /\ UNCHANGED <<durable, faults>>

\* InitOracles: load the three counters, then write them back.
Open ==
    /\ op = Down
    /\ next' = stored
    /\ op' = Persist([Idle EXCEPT !.t = 1, !.by = "Open"], "recover")
    /\ UNCHANGED <<durable, txn, crashes, faults>>

\* Mutants: intents are aborted; open transactions are left alone; the loop
\* does not advance.
RecoveringAbortsIntents(t, m) ==
    IF m.state \in {"Committing", "Open"} THEN Restoring(t, m.writes, "Open")
    ELSE [op EXCEPT !.t = t + 1]
RecoveringSkipsOpen(t, m) ==
    IF m.state = "Committing" THEN Applying(t, m.writes, m.commit_ts, "Open")
    ELSE [op EXCEPT !.t = t + 1]
RecoveringStuck(t, m) ==
    IF m.state = "Committing" THEN Applying(t, m.writes, m.commit_ts, "Open")
    ELSE op

\* What RecoverTxns does with transaction t whose record is m.
Recovering(t, m) ==
    CASE m.state = "Committing" -> Applying(t, m.writes, m.commit_ts, "Open")
      [] m.state = "Open" -> Restoring(t, m.writes, "Open")
      [] OTHER -> [op EXCEPT !.t = t + 1]

\* RecoverTxns: the loop over transaction ids.
RecoverTxns ==
    /\ op.pc = "recover"
    /\ op' = IF op.t >= next.txn THEN Idle ELSE Recovering(op.t, meta[op.t])
    /\ UNCHANGED <<durable, next, txn, crashes, faults>>

\* A Get or Put of the engine returns an error: every handler returns it at
\* once, releasing mu_ with the assignments made so far.  Open discards the
\* Database object; ~Transaction ignores the error of its Abort.
KvError ==
    /\ op \notin {Idle, Down}
    /\ op.pc # "committed"
    /\ faults < MaxFaults
    /\ faults' = faults + 1
    /\ op' = IF op.by = "Open" THEN Down ELSE Idle
    /\ \/ UNCHANGED txn
       \/ /\ op.pc = "restore" /\ op.by = "client"
          /\ txn' = [txn EXCEPT ![op.t].st = "finished"]
    /\ UNCHANGED <<durable, next, crashes>>

-----------------------------------------------------------------------------
\* A client call.
Call ==
    \/ Begin
    \/ \E t \in TxnIds :
          \/ Commit(t)
          \/ Abort(t)
          \/ \E r \in Rows : \/ Delete(t, r)
                             \/ \E p \in Payloads : Insert(t, r, p) \/ Update(t, r, p)

\* The handler inside mu_ runs on.
HandlerStep ==
    \/ PersistOracles \/ BeginMeta
    \/ PutVersionValue \/ SetHead \/ WriteMeta
    \/ PutIntent \/ ApplyCommitWrites \/ PutCommitted \/ CommitDone
    \/ RestoreHeads \/ PutAborted
    \/ RecoverTxns

Next == Call \/ HandlerStep \/ Open \/ Crash \/ KvError

Spec == Init /\ [][Next]_vars

\* The thread inside mu_ is scheduled, and a crashed process is restarted.
Fairness == WF_vars(HandlerStep) /\ WF_vars(Open)

FairSpec == Spec /\ Fairness

-----------------------------------------------------------------------------
OpPc == {"idle", "down", "persist", "beginMeta", "putVersion", "setHead", "writeMeta",
         "intent", "apply", "committed", "restore", "recover"}

OpRet == {"none", "beginMeta", "putVersion", "committed", "recover"}

OpType == [pc : OpPc, ret : OpRet,
           k : 0 .. 3, t : Nat, r : Rows \cup {NoRow}, val : Vals,
           prev : 0 .. MaxVersion, w : Seq(TxnWrite), i : Nat, cts : Nat, by : {"client", "Open"}]

Oracle == [ts : Nat, txn : Nat, vid : Nat]

TxnObject == [st : {"none", "open", "finished"}, start_ts : Nat, written : Seq(TxnWrite)]

\* Type invariant.
TypeOK ==
    /\ ver \in [Rows -> [VersionIds -> VersionRecord \cup {NoVersion}]]
    /\ head \in [Rows -> 0 .. MaxVersion]
    /\ meta \in [TxnIds -> TxnMeta]
    /\ stored \in Oracle
    /\ next \in Oracle
    /\ txn \in [TxnIds -> TxnObject]
    /\ op \in OpType
    /\ crashes \in 0 .. MaxCrashes
    /\ faults \in 0 .. MaxFaults

\* docs/RELATIONAL.md, commit order: a transaction is never marked Committed
\* while one of its versions is still provisional, whatever crashed in between.
CommittedStamped ==
    \A r \in Rows, v \in VersionIds :
        ver[r][v] # NoVersion /\ is_provisional(ver[r][v]) =>
            meta[ver[r][v].created_by].state # "Committed"

\* docs/RELATIONAL.md, visibility: the committed versions of a row have
\* non-overlapping lifetimes, so no snapshot can see two of them.
LifetimesDisjoint ==
    \A r \in Rows, v1, v2 \in VersionIds :
        /\ v1 < v2
        /\ ver[r][v1] # NoVersion /\ ~is_provisional(ver[r][v1])
        /\ ver[r][v2] # NoVersion /\ ~is_provisional(ver[r][v2])
        => /\ ver[r][v1].start_ts < ver[r][v2].start_ts
           /\ ver[r][v1].end_ts # 0
           /\ ver[r][v1].end_ts <= ver[r][v2].start_ts

\* Once Open has returned, the only unfinished transactions on disk are the
\* live ones: nothing a dead process left behind holds a key against writers.
OnlyLiveTxnsUnfinished ==
    op = Idle => \A t \in TxnIds :
        /\ meta[t].state # "Committing"
        /\ meta[t].state = "Open" <=> txn[t].st = "open"

\* An aborted transaction leaves nothing committed: none of its versions ever
\* carries a commit timestamp, however its commit or its abort was cut short.
AbortedNeverStamped ==
    \A r \in Rows, v \in VersionIds :
        ver[r][v] # NoVersion /\ meta[ver[r][v].created_by].state = "Aborted" =>
            is_provisional(ver[r][v])

\* database.h, Begin: a transaction starts from the last commit, so its
\* snapshot includes every transaction that is already marked Committed.
StartsFromLastCommit ==
    [][\A t, u \in TxnIds :
          txn[t].st # "open" /\ txn'[t].st = "open" /\ meta[u].state = "Committed" =>
              meta[u].commit_ts <= txn'[t].start_ts]_vars

\* mvcc.cpp, GetRow: no read meets a provisional version of a committed
\* transaction, also when an engine error cut a commit or a write short.
ReadsNeverCorrupt ==
    op = Idle => \A t \in TxnIds, r \in Rows :
        txn[t].st = "open" => Get(t, r) # "Corruption"

\* Whatever the handler and wherever it was restarted, mu_ is released again.
LockReleased == (op.pc # "idle") ~> (op.pc = "idle")

\* docs/RELATIONAL.md, RecoverTxns: a transaction whose intent survived a crash
\* is redone to the end and marked Committed.
CommittingRedone ==
    \A t \in TxnIds :
        (op = Down /\ meta[t].state = "Committing") ~> (meta[t].state = "Committed")
=============================================================================
