---------------------------- MODULE ReldbTxnInv ----------------------------
(***************************************************************************)
(* The inductive invariant of ReldbTxn when the engine returns no errors.  *)
(***************************************************************************)
EXTENDS ReldbTxn

Exists(r, v) == ver[r][v] # NoVersion
Provisional(r, v) == Exists(r, v) /\ ver[r][v].start_ts = 0
Stamped(r, v) == Exists(r, v) /\ ver[r][v].start_ts # 0

Lists(w, r, v) == \E j \in 1 .. Len(w) : w[j].row = r /\ w[j].vid = v

\* Where control is, PersistOracles resolved to the handler it returns to.
At(S) == op.pc \in S \/ (op.pc = "persist" /\ op.ret \in S)

\* The counters never fall behind what is stored under them.
OracleInv ==
    /\ stored.ts >= 1 /\ stored.txn >= 1 /\ stored.vid >= 1
    /\ next.ts >= 1 /\ next.txn >= 1 /\ next.vid >= 1
    /\ stored.txn <= MaxTxn + 1 /\ next.txn <= MaxTxn + 1
    /\ op.pc # "down" => stored.txn <= next.txn /\ stored.vid <= next.vid
    /\ \A t \in TxnIds : meta[t].state # "NotFound" => t < stored.txn
    /\ \A r \in Rows, v \in VersionIds : Exists(r, v) => v < stored.vid

\* PersistOracles returns to a handler.
ReturnInv == op.pc = "persist" => op.ret # "none" /\ op.k \in 1 .. 3

\* Locals of the handler inside mu_.
BeginInv ==
    At({"beginMeta"}) =>
        /\ op.by = "client"
        /\ op.t \in TxnIds /\ op.t < next.txn
        /\ meta[op.t].state = "NotFound" /\ txn[op.t].st = "none"
        /\ op.pc = "beginMeta" \/ op.k = 3 => op.t < stored.txn

WriteInv ==
    /\ At({"putVersion", "setHead", "writeMeta"}) =>
        /\ op.by = "client"
        /\ op.t \in TxnIds /\ op.r \in Rows /\ NewVid \in VersionIds
        /\ txn[op.t].st = "open" /\ meta[op.t].state = "Open"
    /\ op.pc = "putVersion" => stored.vid = next.vid
    /\ At({"putVersion"}) => \A r \in Rows : ~Exists(r, NewVid)
    /\ op.pc = "setHead" =>
        /\ Provisional(op.r, NewVid)
        /\ ver[op.r][NewVid].created_by = op.t
        /\ ver[op.r][NewVid].prev_id = op.prev

CommitInv ==
    /\ op.pc = "intent" =>
        /\ op.by = "client" /\ op.t \in TxnIds
        /\ op.cts >= 1 /\ op.cts < next.ts
        /\ txn[op.t].st = "open" /\ meta[op.t].state = "Open"
    /\ op.pc = "apply" =>
        /\ op.t \in TxnIds
        /\ op.by = "client" => txn[op.t].st = "open"
        /\ meta[op.t].state = "Committing"
        /\ op.cts = meta[op.t].commit_ts /\ op.w = meta[op.t].writes
        /\ op.i \in 1 .. Len(op.w) + 1
        /\ \A j \in 1 .. op.i - 1 : ver[op.w[j].row][op.w[j].vid].start_ts = op.cts
    /\ At({"committed"}) =>
        /\ op.by = "client" /\ op.t \in TxnIds
        /\ txn[op.t].st = "open" /\ meta[op.t].state = "Committed"

RestoreInv ==
    op.pc = "restore" =>
        /\ op.t \in TxnIds
        /\ meta[op.t].state = "Open"
        /\ op.by = "client" => txn[op.t].st = "open"
        /\ op.i \in 0 .. Len(op.w)
        /\ \A j \in 1 .. Len(op.w) :
              LET w == op.w[j]
              IN  Exists(w.row, w.vid) /\ ver[w.row][w.vid].created_by = op.t

\* Recovery has settled the transactions below op.t; nobody has begun one.
RecoverInv ==
    /\ At({"recover"}) => op.by = "Open" /\ op.t >= 1
    /\ op.pc \in {"idle", "down"} => op.by = "client"
    /\ op.by = "Open" => At({"recover", "apply", "restore"})
    /\ op.by = "Open" \/ op.pc = "down" => \A t \in TxnIds : txn[t].st = "none"

\* Only the transaction inside mu_, and what a crash left behind, is between
\* states.
StateInv ==
    \A t \in TxnIds :
        /\ meta[t].state = "Committing" =>
              \/ op.pc = "apply" /\ op.t = t
              \/ op.pc = "down"
              \/ op.by = "Open" /\ t >= op.t
        /\ meta[t].state = "Open" =>
              \/ txn[t].st = "open"
              \/ op.pc = "down"
              \/ op.by = "Open" /\ t >= op.t
        /\ txn[t].st # "none" => meta[t].state # "NotFound"
        /\ txn[t].st = "open" =>
              /\ txn[t].start_ts < next.ts
              /\ \/ meta[t].state = "Open"
                 \/ op.t = t /\ (op.pc = "apply" \/ At({"committed"}))

\* A version has an owner, which decides whether it is stamped.
VersionInv ==
    \A r \in Rows, v \in VersionIds :
        Exists(r, v) =>
            LET owner == meta[ver[r][v].created_by]
            IN  /\ owner.state # "NotFound"
                /\ ver[r][v].start_ts # 0 =>
                      /\ owner.state \in {"Committing", "Committed"}
                      /\ ver[r][v].start_ts = owner.commit_ts
                /\ ver[r][v].start_ts = 0 => owner.state # "Committed"

\* Write lists are exact while their transaction can still commit: they name
\* versions of that transaction, and all of them.
ListInv ==
    /\ \A t \in TxnIds : txn[t].st = "open" =>
          \A r \in Rows, v \in VersionIds :
              /\ Lists(txn[t].written, r, v) =>
                    Exists(r, v) /\ ver[r][v].created_by = t
              /\ Exists(r, v) /\ ver[r][v].created_by = t =>
                    \/ Lists(txn[t].written, r, v)
                    \/ op.pc = "setHead" /\ op.t = t /\ op.r = r /\ NewVid = v
    /\ \A t \in TxnIds : meta[t].state \in {"Open", "Committing"} =>
          \A r \in Rows, v \in VersionIds :
              Lists(meta[t].writes, r, v) => Exists(r, v) /\ ver[r][v].created_by = t
    /\ \A t \in TxnIds : meta[t].state = "Committing" =>
          /\ meta[t].commit_ts >= 1
          /\ \A r \in Rows, v \in VersionIds :
                Exists(r, v) /\ ver[r][v].created_by = t => Lists(meta[t].writes, r, v)

\* Heads and prev_ids lead to versions that are there.
HeadInv ==
    /\ \A r \in Rows : head[r] # 0 => Exists(r, head[r])
    /\ \A r \in Rows, v \in VersionIds :
          Exists(r, v) /\ ver[r][v].prev_id # 0 => Exists(r, ver[r][v].prev_id)
    /\ At({"putVersion"}) /\ op.prev # 0 => Exists(op.r, op.prev)

\* Commit protocol invariant.
ProtocolInv ==
    /\ OracleInv /\ ReturnInv /\ BeginInv /\ WriteInv /\ CommitInv /\ RestoreInv
    /\ RecoverInv /\ StateInv /\ VersionInv /\ ListInv /\ HeadInv

-----------------------------------------------------------------------------
\* p is the newest committed version of row r; 0 when there is none.
NewestIs(r, p) ==
    /\ p # 0 => Stamped(r, p)
    /\ \A u \in VersionIds : Stamped(r, u) => u <= p

\* The newest committed version of a row is at the head, or right below a
\* provisional head, and it is open-ended unless the owner of that provisional
\* head has already closed it.
ChainInv ==
    \A r \in Rows :
        LET h == head[r]
        IN  IF h = 0 \/ Stamped(r, h)
            THEN /\ NewestIs(r, h)
                 /\ h # 0 => ver[r][h].end_ts = 0
            ELSE LET p == ver[r][h].prev_id
                     owner == meta[ver[r][h].created_by]
                 IN  /\ Provisional(r, h)
                     /\ p < h
                     /\ NewestIs(r, p)
                     /\ p # 0 =>
                          \/ ver[r][p].end_ts = 0
                          \/ /\ owner.state = "Committing"
                             /\ ver[r][p].end_ts = owner.commit_ts

\* The version about to be installed extends the chain.
InstallInv ==
    /\ At({"putVersion", "setHead"}) => op.prev < NewVid /\ NewestIs(op.r, op.prev)
    /\ At({"putVersion", "setHead"}) /\ op.prev # 0 => ver[op.r][op.prev].end_ts = 0

\* Every version that still has to be stamped is the head of its row, above
\* nothing that was committed at or after its commit timestamp.
ToStampInv ==
    /\ \A t \in TxnIds : meta[t].state = "Committing" =>
          \A r \in Rows, v \in VersionIds :
              Provisional(r, v) /\ ver[r][v].created_by = t =>
                  /\ head[r] = v
                  /\ ver[r][v].prev_id # 0 =>
                        ver[r][ver[r][v].prev_id].start_ts < meta[t].commit_ts
    /\ op.pc = "intent" =>
          \A r \in Rows, v \in VersionIds :
              Exists(r, v) /\ ver[r][v].created_by = op.t =>
                  /\ head[r] = v
                  /\ ver[r][v].prev_id # 0 =>
                        ver[r][ver[r][v].prev_id].start_ts < op.cts

\* A version has no end before it is committed.
OpenEnded == \A r \in Rows, v \in VersionIds : Provisional(r, v) => ver[r][v].end_ts = 0

\* Version chain invariant.
LifetimeInv == ChainInv /\ InstallInv /\ ToStampInv /\ OpenEnded /\ LifetimesDisjoint

-----------------------------------------------------------------------------
\* The committed versions of a row are a chain without gaps in time: each one ends
\* when the next one starts.  Chains lead to older versions.
Linked(r, v) ==
    LET p == ver[r][v].prev_id
    IN  /\ p # 0 => Stamped(r, p) /\ ver[r][p].end_ts = ver[r][v].start_ts
        /\ \A u \in VersionIds : Stamped(r, u) /\ u < v => u <= p

LinkInv ==
    /\ \A r \in Rows, v \in VersionIds : Exists(r, v) => ver[r][v].prev_id < v
    /\ \A r \in Rows, v \in VersionIds : Stamped(r, v) => Linked(r, v)

\* Timestamps stay within their bound.
ClockInv ==
    /\ next.ts <= MaxTs + 1 /\ stored.ts <= MaxTs + 1
    /\ \A t \in TxnIds : meta[t].commit_ts <= MaxTs
    /\ op.pc = "intent" => op.cts <= MaxTs

\* A commit is later than the snapshots of all transactions that are open.
LaterInv ==
    op.pc \in {"intent", "apply"} /\ op.by = "client" =>
        \A t \in TxnIds : txn[t].st = "open" => txn[t].start_ts < op.cts

\* A transaction that may still commit.
InProgress(t) ==
    /\ txn[t].st = "open" /\ meta[t].state = "Open"
    /\ ~(op.pc = "restore" /\ op.t = t)

\* What it wrote is on top, above nothing that was committed after its snapshot.
Holds(t, r, v) ==
    /\ head[r] = v
    /\ ver[r][v].prev_id # 0 => ver[r][ver[r][v].prev_id].start_ts <= txn[t].start_ts

HoldInv ==
    \A t \in TxnIds, r \in Rows, v \in VersionIds :
        InProgress(t) /\ Lists(txn[t].written, r, v) => Holds(t, r, v)

\* The row of a Write that has passed its checks is held by nobody and carries no
\* commit from after the snapshot.
PendingInv ==
    /\ At({"putVersion", "setHead"}) =>
          /\ head[op.r] # 0 => \/ Stamped(op.r, head[op.r])
                               \/ meta[ver[op.r][head[op.r]].created_by].state = "Aborted"
          /\ op.prev # 0 => ver[op.r][op.prev].start_ts <= txn[op.t].start_ts
    /\ op.pc = "setHead" => ver[op.r][NewVid].val = op.val

\* Snapshot invariant.
SnapshotInv == LinkInv /\ ClockInv /\ LaterInv /\ HoldInv /\ PendingInv
=============================================================================
