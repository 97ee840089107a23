---------------------- MODULE ReldbTxnRefinementProofs ----------------------
(**********************************************************************************)
(* ReldbTxn implements SnapshotIsolation, for any number of rows, transactions,   *)
(* versions and crashes, as long as the engine returns no errors.  SnapshotInv    *)
(* (ReldbTxnInv) is inductive relative to the invariants of ReldbTxnProofs: the   *)
(* committed versions of a row form a chain without gaps in time, and a           *)
(* transaction in progress holds the heads of the rows it wrote.  It decides what *)
(* GetRow answers; with it every step of a handler is a step of the abstract      *)
(* specification or changes nothing there.                                        *)
(**********************************************************************************)
EXTENDS ReldbTxnProofs, ReldbTxnRefinement, WellFoundedInduction

\* Zenon proves every leaf that names no other prover.
USE Zenon

-----------------------------------------------------------------------------
\* Snapshots: what stays when versions and heads stay.

\* The parts of the invariant that are proved above.
TxnInv == TypeOK /\ ProtocolInv /\ LifetimeInv

\* Versions stay as they are, but for payloads; new ones are provisional.
KeepsVersions ==
    \A r \in Rows, v \in VersionIds :
        /\ ver[r][v] # NoVersion =>
              /\ ver'[r][v] # NoVersion
              /\ ver'[r][v].start_ts = ver[r][v].start_ts /\ ver'[r][v].end_ts = ver[r][v].end_ts
              /\ ver'[r][v].prev_id = ver[r][v].prev_id
        /\ ver'[r][v] # NoVersion /\ ver[r][v] = NoVersion =>
              ver'[r][v].start_ts = 0 /\ ver'[r][v].prev_id < v

\* Committed versions are linked as before when versions stay.
LEMMA LinkFrame ==
    ASSUME TypeOK, LinkInv, KeepsVersions
    PROVE  LinkInv'
<1>1. \A r \in Rows, v \in VersionIds :
         /\ Stamped(r, v)' <=> Stamped(r, v)
         /\ Exists(r, v) => /\ ver'[r][v].prev_id = ver[r][v].prev_id
                            /\ ver'[r][v].start_ts = ver[r][v].start_ts
                            /\ ver'[r][v].end_ts = ver[r][v].end_ts
  BY DEF KeepsVersions, Exists, Stamped
<1>2. \A r \in Rows, v \in VersionIds : Exists(r, v)' => ver'[r][v].prev_id < v
  BY DEF LinkInv, KeepsVersions, Exists
<1>3. ASSUME NEW r \in Rows, NEW v \in VersionIds, Stamped(r, v)'
      PROVE  Linked(r, v)'
  <2>1. PICK p : p = ver[r][v].prev_id
    OBVIOUS
  <2>2. Stamped(r, v) /\ Exists(r, v)
    BY <1>1, <1>3 DEF Stamped
  <2>3. p # 0 => p \in VersionIds
    BY <2>1, <2>2, ChainTypes
  <2>4. /\ p # 0 => Stamped(r, p) /\ ver[r][p].end_ts = ver[r][v].start_ts
        /\ \A u \in VersionIds : Stamped(r, u) /\ u < v => u <= p
    BY <2>1, <2>2 DEF LinkInv, Linked
  <2>5. p # 0 => /\ Stamped(r, p)' /\ ver'[r][p].end_ts = ver'[r][v].start_ts
    BY <1>1, <2>2, <2>3, <2>4 DEF Stamped
  <2>6. ver'[r][v].prev_id = p
    BY <1>1, <2>1, <2>2
  <2>7. \A u \in VersionIds : Stamped(r, u)' /\ u < v => u <= p
    BY <1>1, <2>4
  <2> QED BY <2>5, <2>6, <2>7 DEF Linked
<1> QED BY <1>2, <1>3 DEF LinkInv

\* Transactions keep what they hold: a transaction in progress was in progress with
\* the same writes and snapshot, or has written nothing.
KeepsWrites ==
    \A t \in TxnIds : InProgress(t)' =>
        \/ /\ InProgress(t) /\ txn'[t].written = txn[t].written
           /\ txn'[t].start_ts = txn[t].start_ts
        \/ txn'[t].written = <<>>

\* Nothing is listed in an empty write list.
LEMMA NothingListed == \A r, v : ~Lists(<<>>, r, v)
BY SMT DEF Lists

\* Chains stay, and so do the timestamps of committed versions.
KeepsChains ==
    \A r \in Rows, v \in VersionIds : ver[r][v] # NoVersion =>
        /\ ver'[r][v].prev_id = ver[r][v].prev_id
        /\ ver[r][v].start_ts # 0 => ver'[r][v].start_ts = ver[r][v].start_ts

\* A version that a transaction in progress wrote is provisional, above the newest
\* committed one.
LEMMA Held ==
    ASSUME TxnInv, HoldInv, NEW t \in TxnIds, InProgress(t), NEW r \in Rows,
           NEW v \in VersionIds, Lists(txn[t].written, r, v)
    PROVE  /\ Holds(t, r, v) /\ Provisional(r, v) /\ ver[r][v].created_by = t
           /\ meta[t].state = "Open" /\ NewestIs(r, ver[r][v].prev_id)
           /\ ver[r][v].prev_id # 0 => /\ ver[r][v].prev_id \in VersionIds
                                       /\ Stamped(r, ver[r][v].prev_id)
<1>1. Holds(t, r, v)
  BY DEF HoldInv
<1>2. Exists(r, v) /\ ver[r][v].created_by = t /\ meta[t].state = "Open"
  <2>1. ListInv /\ txn[t].st = "open" /\ meta[t].state = "Open"
    BY DEF TxnInv, ProtocolInv, InProgress
  <2>2. Lists(txn[t].written, r, v) => Exists(r, v) /\ ver[r][v].created_by = t
    BY <2>1, SMT DEF ListInv
  <2> QED BY <2>1, <2>2
<1>3. ver[r][v].start_ts = 0
  BY <1>2 DEF TxnInv, ProtocolInv, VersionInv
<1>4. Provisional(r, v) /\ ~Stamped(r, v)
  BY <1>2, <1>3 DEF Provisional, Stamped
<1>5. v # 0
  BY Ids, SMT
<1>6. RowChain(r) /\ head[r] = v
  BY <1>1, Chain DEF TxnInv, LifetimeInv, Holds
<1>7. NewestIs(r, ver[r][v].prev_id)
  BY <1>4, <1>5, <1>6 DEF RowChain
<1>8. ver[r][v].prev_id # 0 => ver[r][v].prev_id \in VersionIds
  BY <1>2, ChainTypes DEF TxnInv
<1> QED BY <1>1, <1>2, <1>4, <1>7, <1>8 DEF NewestIs

\* Rows stay held when neither chains nor heads move.
LEMMA HoldFrame ==
    ASSUME TxnInv, HoldInv, KeepsChains, head' = head, KeepsWrites
    PROVE  HoldInv'
<1> SUFFICES ASSUME NEW t \in TxnIds, InProgress(t)', NEW r \in Rows, NEW v \in VersionIds,
                    Lists(txn'[t].written, r, v)
             PROVE  Holds(t, r, v)'
  BY DEF HoldInv, Lists
<1>1. InProgress(t) /\ txn'[t].written = txn[t].written /\ txn'[t].start_ts = txn[t].start_ts
  BY NothingListed DEF KeepsWrites
<1>2. /\ head[r] = v
      /\ ver[r][v].prev_id # 0 => ver[r][ver[r][v].prev_id].start_ts <= txn[t].start_ts
  BY <1>1 DEF HoldInv, Holds
<1>3. /\ Exists(r, v)
      /\ ver[r][v].prev_id # 0 => ver[r][v].prev_id \in VersionIds /\ Stamped(r, ver[r][v].prev_id)
  BY <1>1, Held DEF Provisional
<1>4. ver'[r][v].prev_id = ver[r][v].prev_id
  BY <1>3 DEF KeepsChains, Exists
<1>5. ver[r][v].prev_id # 0 =>
         ver'[r][ver[r][v].prev_id].start_ts = ver[r][ver[r][v].prev_id].start_ts
  BY <1>3 DEF KeepsChains, Stamped, Exists
<1> QED BY <1>1, <1>2, <1>4, <1>5 DEF Holds

\* A step that leaves versions and heads alone and after which no version is being
\* installed.
LEMMA SnapshotFrame ==
    ASSUME TxnInv, SnapshotInv, SameVersions, head' = head, ~At({"putVersion", "setHead"})',
           KeepsWrites, ClockInv', LaterInv'
    PROVE  SnapshotInv'
<1>1. KeepsVersions /\ KeepsChains
  BY DEF KeepsVersions, KeepsChains, SameVersions
<1>2. LinkInv'
  BY <1>1, LinkFrame DEF TxnInv, SnapshotInv
<1>3. HoldInv'
  BY <1>1, HoldFrame DEF SnapshotInv
<1>4. op'.pc # "setHead"
  BY DEF At
<1>5. PendingInv'
  BY <1>4 DEF PendingInv
<1> QED BY <1>2, <1>3, <1>5 DEF SnapshotInv

-----------------------------------------------------------------------------
\* Snapshots: handlers that touch neither versions nor heads.

\* Outside a commit of a client LaterInv says nothing.
LEMMA NoCommit ==
    /\ op'.pc \notin {"intent", "apply"} => LaterInv'
    /\ op'.by = "Open" => LaterInv'
BY DEF LaterInv

\* What PersistOracles and the resting states are.
LEMMA Points ==
    /\ \A o \in OpType : \A x : Persist(o, x).pc = "persist" /\ Persist(o, x).ret = x
    /\ Idle.pc = "idle" /\ Down.pc = "down"
BY IdleFields DEF Persist, OpType

\* Control moves on; versions, heads, records and transactions stay.
LEMMA ControlSnapshot ==
    ASSUME TxnInv, SnapshotInv, UNCHANGED <<ver, head, meta, txn>>, op.pc # "restore",
           ~At({"putVersion", "setHead"})', next'.ts <= MaxTs + 1, stored'.ts <= MaxTs + 1,
           op'.pc = "intent" => op'.cts <= MaxTs, LaterInv'
    PROVE  SnapshotInv'
<1>1. SameVersions
  BY DEF SameVersions
<1>2. KeepsWrites
  BY DEF KeepsWrites, InProgress
<1>3. ClockInv'
  BY DEF SnapshotInv, ClockInv
<1> QED BY <1>1, <1>2, <1>3, SnapshotFrame

\* Begin takes an id; Open loads the counters.
LEMMA BeginOpenSnapshot ==
    ASSUME TxnInv, SnapshotInv, Begin \/ Open
    PROVE  SnapshotInv'
<1>1. [Idle EXCEPT !.t = next.txn] \in OpType /\ [Idle EXCEPT !.t = 1, !.by = "Open"] \in OpType
  BY IdleType, ZenonT(30) DEF OpType, TxnInv, TypeOK, Oracle
<1>2. op = Idle \/ op = Down
  BY DEF Begin, Open
<1>3. op.pc # "restore"
  BY <1>2, Points
<1>4. UNCHANGED <<ver, head, meta, stored, txn>>
  BY DEF Begin, Open, durable
<1>5. next'.ts = next.ts \/ next'.ts = stored.ts
  BY DEF Begin, Open, TxnInv, TypeOK, Oracle
<1>6. next'.ts <= MaxTs + 1 /\ stored'.ts <= MaxTs + 1
  BY <1>4, <1>5 DEF SnapshotInv, ClockInv
<1>7. \/ op' = Persist([Idle EXCEPT !.t = next.txn], "beginMeta")
      \/ op' = Persist([Idle EXCEPT !.t = 1, !.by = "Open"], "recover")
  BY DEF Begin, Open
<1>8. op'.pc = "persist" /\ ~At({"putVersion", "setHead"})'
  <2>1. CASE op' = Persist([Idle EXCEPT !.t = next.txn], "beginMeta")
    BY <1>1, <2>1, Points DEF At
  <2>2. CASE op' = Persist([Idle EXCEPT !.t = 1, !.by = "Open"], "recover")
    BY <1>1, <2>2, Points DEF At
  <2> QED BY <1>7, <2>1, <2>2
<1> QED BY <1>3, <1>4, <1>6, <1>8, NoCommit, ControlSnapshot

\* RecoverTxns decides what to do with the next transaction.
LEMMA RecoverTxnsSnapshot ==
    ASSUME TxnInv, SnapshotInv, RecoverTxns
    PROVE  SnapshotInv'
<1>1. UNCHANGED <<ver, head, meta, stored, next, txn>> /\ op.pc = "recover" /\ op \in OpType
  BY DEF RecoverTxns, durable, TxnInv, TypeOK
<1>2. op.by = "Open"
  BY <1>1 DEF TxnInv, ProtocolInv, RecoverInv, At
<1>3. op' = Idle \/ op'.pc \in {"restore", "recover"} \/ (op'.pc = "apply" /\ op'.by = "Open")
  BY <1>1, IdleType DEF RecoverTxns, Recovering, Applying, Restoring, OpType
<1>4. ~At({"putVersion", "setHead"})' /\ op'.pc # "intent"
  BY <1>3, Starts
<1>5. LaterInv'
  BY <1>3, Points, NoCommit
<1>6. next'.ts <= MaxTs + 1 /\ stored'.ts <= MaxTs + 1
  BY <1>1 DEF SnapshotInv, ClockInv
<1> QED BY <1>1, <1>4, <1>5, <1>6, ControlSnapshot

\* Abort, and a commit that lost: the transaction begins to give its rows back.
LEMMA RestoringSnapshot ==
    ASSUME TxnInv, SnapshotInv, NEW t \in TxnIds, op = Idle,
           op' = Restoring(t, txn[t].written, "client"),
           UNCHANGED <<ver, head, meta, stored, next, txn>>
    PROVE  SnapshotInv'
<1>1. op'.pc = "restore"
  BY IdleType, ZenonT(30) DEF Restoring, OpType
<1>2. ~At({"putVersion", "setHead"})' /\ op'.pc # "intent" /\ op.pc # "restore"
  BY <1>1, Points, Starts
<1>3. next'.ts <= MaxTs + 1 /\ stored'.ts <= MaxTs + 1
  BY DEF SnapshotInv, ClockInv
<1> QED BY <1>1, <1>2, <1>3, NoCommit, ControlSnapshot

\* A commit takes a timestamp above every snapshot.
LEMMA CommitSnapshot ==
    ASSUME TxnInv, SnapshotInv, NEW t \in TxnIds, Commit(t)
    PROVE  SnapshotInv'
<1>1. op = Idle /\ UNCHANGED <<ver, head, meta, stored, txn>>
  BY DEF Commit
<1>2. CASE ~CommitCheck(t)
  BY <1>1, <1>2, RestoringSnapshot DEF Commit
<1>3. CASE CommitCheck(t)
  <2>1. /\ op' = [Idle EXCEPT !.pc = "intent", !.t = t, !.cts = next.ts]
        /\ next' = [next EXCEPT !.ts = @ + 1] /\ next.ts <= MaxTs
    BY <1>3 DEF Commit
  <2>2. op'.pc = "intent" /\ op'.t = t /\ op'.cts = next.ts /\ op.pc = "idle"
    BY <1>1, <2>1, IdleType, Points DEF OpType
  <2>3. next.ts \in Nat /\ next'.ts = next.ts + 1
    BY <2>1 DEF TxnInv, TypeOK, Oracle
  <2>4. next'.ts <= MaxTs + 1 /\ stored'.ts <= MaxTs + 1
    <3>1. stored'.ts <= MaxTs + 1
      BY <1>1 DEF SnapshotInv, ClockInv
    <3> QED BY <2>1, <2>3, <3>1, BoundsAssumption, SMT
  <2>5. LaterInv'
    BY <1>1, <2>2 DEF LaterInv, TxnInv, ProtocolInv, StateInv
  <2>6. ~At({"putVersion", "setHead"})'
    BY <2>2 DEF At
  <2> QED BY <1>1, <2>1, <2>2, <2>4, <2>5, <2>6, ControlSnapshot
<1> QED BY <1>2, <1>3

\* The handler's transaction gets another record or ends; versions and heads stay.
LEMMA RecordSnapshot ==
    ASSUME TxnInv, SnapshotInv, UNCHANGED <<ver, head, stored>>, next'.ts <= MaxTs + 1,
           op.t \in TxnIds, ~At({"putVersion", "setHead"})',
           \A t \in TxnIds : t # op.t => meta'[t] = meta[t] /\ txn'[t] = txn[t],
           meta'[op.t].commit_ts <= MaxTs,
           \/ txn'[op.t].st # "open"
           \/ txn'[op.t].written = <<>>
           \/ meta'[op.t].state # "Open"
           \/ txn'[op.t] = txn[op.t] /\ meta[op.t].state = "Open" /\ op.pc # "restore",
           op'.pc # "intent", LaterInv'
    PROVE  SnapshotInv'
<1>1. SameVersions
  BY DEF SameVersions
<1>2. KeepsWrites
  BY DEF KeepsWrites, InProgress
<1>3. ClockInv'
  BY DEF SnapshotInv, ClockInv
<1> QED BY <1>1, <1>2, <1>3, SnapshotFrame

\* The first record of a transaction (Begin).
LEMMA BeginMetaSnapshot ==
    ASSUME TxnInv, SnapshotInv, BeginMeta
    PROVE  SnapshotInv'
<1>1. /\ op.t \in TxnIds /\ op' = Idle /\ UNCHANGED <<ver, head, stored, next>>
      /\ meta' = [meta EXCEPT ![op.t] = [NoMeta EXCEPT !.state = "Open"]]
      /\ txn' = [txn EXCEPT ![op.t] = [st |-> "open", start_ts |-> LastCommit, written |-> <<>>]]
  BY DEF BeginMeta, TxnInv, ProtocolInv, BeginInv, At
<1>2. [NoMeta EXCEPT !.state = "Open"].commit_ts = 0
  BY DEF NoMeta
<1>3. /\ \A t \in TxnIds : t # op.t => meta'[t] = meta[t] /\ txn'[t] = txn[t]
      /\ meta'[op.t].commit_ts = 0 /\ txn'[op.t].written = <<>>
  BY <1>1, <1>2 DEF TxnInv, TypeOK
<1>4. next'.ts <= MaxTs + 1
  BY <1>1 DEF SnapshotInv, ClockInv
<1>5. meta'[op.t].commit_ts <= MaxTs
  BY <1>3, BoundsAssumption, SMT
<1>6. ~At({"putVersion", "setHead"})' /\ op'.pc # "intent" /\ LaterInv'
  BY <1>1, Points, Starts, NoCommit
<1> QED BY <1>1, <1>3, <1>4, <1>5, <1>6, RecordSnapshot

\* The write list of an open transaction is recorded (Write).
LEMMA WriteMetaSnapshot ==
    ASSUME TxnInv, SnapshotInv, WriteMeta
    PROVE  SnapshotInv'
<1>1. /\ op.t \in TxnIds /\ meta[op.t].state = "Open" /\ op' = Idle /\ op.pc # "restore"
      /\ UNCHANGED <<ver, head, stored, next, txn>>
      /\ meta' = [meta EXCEPT ![op.t] =
                     [state |-> "Open", commit_ts |-> 0, writes |-> txn[op.t].written]]
  BY DEF WriteMeta, TxnInv, ProtocolInv, WriteInv, At
<1>2. /\ \A t \in TxnIds : t # op.t => meta'[t] = meta[t] /\ txn'[t] = txn[t]
      /\ meta'[op.t].commit_ts = 0
  BY <1>1 DEF TxnInv, TypeOK
<1>3. next'.ts <= MaxTs + 1
  BY <1>1 DEF SnapshotInv, ClockInv
<1>4. meta'[op.t].commit_ts <= MaxTs
  BY <1>2, BoundsAssumption, SMT
<1>5. ~At({"putVersion", "setHead"})' /\ op'.pc # "intent" /\ LaterInv'
  BY <1>1, Points, Starts, NoCommit
<1> QED BY <1>1, <1>2, <1>3, <1>4, <1>5, RecordSnapshot

\* The intent ends what the transaction may still do (CommitTransaction).
LEMMA PutIntentSnapshot ==
    ASSUME TxnInv, SnapshotInv, PutIntent
    PROVE  SnapshotInv'
<1>1. /\ op.pc = "intent" /\ op.t \in TxnIds /\ op.by = "client"
      /\ UNCHANGED <<ver, head, stored, next, txn>>
      /\ meta' = [meta EXCEPT ![op.t] =
             [state |-> "Committing", commit_ts |-> op.cts, writes |-> txn[op.t].written]]
      /\ op' = Applying(op.t, txn[op.t].written, op.cts, "client")
  BY DEF PutIntent, TxnInv, ProtocolInv, CommitInv
<1>2. /\ \A t \in TxnIds : t # op.t => meta'[t] = meta[t] /\ txn'[t] = txn[t]
      /\ meta'[op.t].commit_ts = op.cts /\ meta'[op.t].state # "Open"
  BY <1>1 DEF TxnInv, TypeOK
<1>3. next'.ts <= MaxTs + 1 /\ meta'[op.t].commit_ts <= MaxTs
  BY <1>1, <1>2 DEF SnapshotInv, ClockInv
<1>4. op'.pc = "apply" /\ op'.cts = op.cts
  BY <1>1, IdleType DEF Applying, OpType
<1>5. LaterInv'
  BY <1>1, <1>4 DEF LaterInv, SnapshotInv
<1>6. ~At({"putVersion", "setHead"})' /\ op'.pc # "intent"
  BY <1>4, Starts
<1> QED BY <1>1, <1>2, <1>3, <1>5, <1>6, RecordSnapshot

\* Where PutCommitted goes on.
LEMMA CommittedNext ==
    ASSUME TypeOK, ProtocolInv, PutCommitted
    PROVE  ~At({"putVersion", "setHead"})' /\ op'.pc \in {"persist", "recover"}
<1>1. op.t \in Nat /\ op.t + 1 \in Nat
  <2>1. op.t \in TxnIds
    BY DEF PutCommitted, ProtocolInv, CommitInv
  <2> QED BY <2>1, Ids, SMT
<1>2. [Idle EXCEPT !.t = op.t] \in OpType /\ [Idle EXCEPT !.t = op.t + 1, !.by = "Open"] \in OpType
  BY <1>1, IdleType, ZenonT(30) DEF OpType
<1>3. [Idle EXCEPT !.pc = "recover", !.t = op.t + 1, !.by = "Open"].pc = "recover"
  BY IdleType DEF OpType
<1>4. \/ op' = Persist([Idle EXCEPT !.t = op.t], "committed")
      \/ op' = Persist([Idle EXCEPT !.t = op.t + 1, !.by = "Open"], "recover")
      \/ op' = [Idle EXCEPT !.pc = "recover", !.t = op.t + 1, !.by = "Open"]
  BY DEF PutCommitted
<1>5. CASE op' = Persist([Idle EXCEPT !.t = op.t], "committed")
  BY <1>2, <1>5, Points DEF At
<1>6. CASE op' = Persist([Idle EXCEPT !.t = op.t + 1, !.by = "Open"], "recover")
  BY <1>2, <1>6, Points DEF At
<1>7. CASE op' = [Idle EXCEPT !.pc = "recover", !.t = op.t + 1, !.by = "Open"]
  BY <1>3, <1>7 DEF At
<1> QED BY <1>4, <1>5, <1>6, <1>7

\* The Committed record (CommitTransaction, RecoverTxns).
LEMMA PutCommittedSnapshot ==
    ASSUME TxnInv, SnapshotInv, PutCommitted
    PROVE  SnapshotInv'
<1>1. /\ op.pc = "apply" /\ op.t \in TxnIds /\ op.cts = meta[op.t].commit_ts
      /\ UNCHANGED <<ver, head, stored, txn>>
      /\ meta' = [meta EXCEPT ![op.t] =
                     [state |-> "Committed", commit_ts |-> op.cts, writes |-> <<>>]]
      /\ next' = next \/ next' = [next EXCEPT !.ts = op.cts + 1]
  BY DEF PutCommitted, TxnInv, ProtocolInv, CommitInv
<1>2. /\ \A t \in TxnIds : t # op.t => meta'[t] = meta[t] /\ txn'[t] = txn[t]
      /\ meta'[op.t].commit_ts = op.cts /\ meta'[op.t].state # "Open"
  BY <1>1 DEF TxnInv, TypeOK
<1>3. op.cts \in Nat /\ op.cts <= MaxTs /\ next.ts <= MaxTs + 1
  BY <1>1 DEF SnapshotInv, ClockInv, TxnInv, TypeOK, OpType
<1>4. next'.ts = next.ts \/ next'.ts = op.cts + 1
  BY <1>1 DEF TxnInv, TypeOK, Oracle
<1>5. next'.ts <= MaxTs + 1
  BY <1>3, <1>4, BoundsAssumption, SMT
<1>6. ~At({"putVersion", "setHead"})' /\ op'.pc \in {"persist", "recover"}
  BY CommittedNext DEF TxnInv
<1>7. LaterInv' /\ op'.pc # "intent"
  BY <1>6, NoCommit
<1> QED BY <1>1, <1>2, <1>3, <1>5, <1>6, <1>7, RecordSnapshot

\* The end of a commit.
LEMMA CommitDoneSnapshot ==
    ASSUME TxnInv, SnapshotInv, CommitDone
    PROVE  SnapshotInv'
<1>1. /\ op.t \in TxnIds /\ op' = Idle /\ UNCHANGED <<ver, head, meta, stored, next>>
      /\ txn' = [txn EXCEPT ![op.t].st = "finished"]
  BY DEF CommitDone, TxnInv, ProtocolInv, CommitInv, At
<1>2. /\ \A t \in TxnIds : t # op.t => meta'[t] = meta[t] /\ txn'[t] = txn[t]
      /\ txn'[op.t].st = "finished"
  BY <1>1 DEF TxnInv, TypeOK, TxnObject
<1>3. next'.ts <= MaxTs + 1 /\ meta'[op.t].commit_ts <= MaxTs
  BY <1>1 DEF SnapshotInv, ClockInv
<1>4. ~At({"putVersion", "setHead"})' /\ op'.pc # "intent" /\ LaterInv'
  BY <1>1, Points, Starts, NoCommit
<1> QED BY <1>1, <1>2, <1>3, <1>4, RecordSnapshot

\* The Aborted record (AbortTransaction, RecoverTxns).
LEMMA PutAbortedSnapshot ==
    ASSUME TxnInv, SnapshotInv, PutAborted
    PROVE  SnapshotInv'
<1>1. /\ op.t \in TxnIds /\ UNCHANGED <<ver, head, stored, next>>
      /\ meta' = [meta EXCEPT ![op.t] = [NoMeta EXCEPT !.state = "Aborted"]]
      /\ txn' = txn \/ txn' = [txn EXCEPT ![op.t].st = "finished"]
  BY DEF PutAborted, TxnInv, ProtocolInv, RestoreInv
<1>2. [NoMeta EXCEPT !.state = "Aborted"].state = "Aborted" /\ [NoMeta EXCEPT !.state = "Aborted"].commit_ts = 0
  BY DEF NoMeta
<1>3. /\ \A t \in TxnIds : t # op.t => meta'[t] = meta[t] /\ txn'[t] = txn[t]
      /\ meta'[op.t].state = "Aborted" /\ meta'[op.t].commit_ts = 0
  BY <1>1, <1>2 DEF TxnInv, TypeOK
<1>4. op' = Idle \/ op'.pc = "recover"
  BY IdleType, ZenonT(30) DEF PutAborted, OpType
<1>5. next'.ts <= MaxTs + 1
  BY <1>1 DEF SnapshotInv, ClockInv
<1>6. meta'[op.t].commit_ts <= MaxTs
  BY <1>3, BoundsAssumption, SMT
<1>7. ~At({"putVersion", "setHead"})' /\ op'.pc # "intent" /\ LaterInv'
  BY <1>4, Points, Starts, NoCommit
<1> QED BY <1>1, <1>3, <1>5, <1>6, <1>7, RecordSnapshot

\* A crash ends every transaction.
LEMMA CrashSnapshot ==
    ASSUME TxnInv, SnapshotInv, Crash
    PROVE  SnapshotInv'
<1>1. /\ UNCHANGED <<ver, head, meta, stored>> /\ op' = Down /\ next' = FirstOracle
      /\ txn' = [t \in TxnIds |-> NoTxn]
  BY DEF Crash, durable
<1>2. \A t \in TxnIds : txn'[t].written = <<>>
  BY <1>1 DEF NoTxn
<1>3. KeepsWrites /\ SameVersions
  BY <1>1, <1>2 DEF KeepsWrites, SameVersions
<1>4. next'.ts = 1
  BY <1>1 DEF FirstOracle
<1>5. next'.ts <= MaxTs + 1
  BY <1>4, BoundsAssumption, SMT
<1>6. ~At({"putVersion", "setHead"})' /\ op'.pc # "intent" /\ LaterInv'
  BY <1>1, Points, Starts, NoCommit
<1>7. ClockInv'
  BY <1>1, <1>5, <1>6 DEF SnapshotInv, ClockInv
<1> QED BY <1>1, <1>3, <1>6, <1>7, SnapshotFrame

-----------------------------------------------------------------------------
\* Walks along a chain.

\* A set of numbers has a least one (induction rests on this).
LEMMA Least == ASSUME NEW T, T \subseteq Nat, T # {} PROVE \E x \in T : \A y \in T : x <= y
<1> DEFINE R == {ss \in Nat \X Nat : ss[1] < ss[2]}
<1>1. IsWellFoundedOn(R, Nat)
  BY NatLessThanWellFounded DEF OpToRel
<1>2. PICK x \in T : \A y \in T : ~(<<y, x>> \in R)
  <2> HIDE DEF R
  <2> QED BY <1>1, WFMin
<1>3. \A y \in T : y < x => <<y, x>> \in R
  BY SMT
<1>4. \A y \in T : ~(y < x)
  BY <1>2, <1>3
<1> QED BY <1>4, SMT

\* Induction up to a bound: a counterexample would have a least one.
LEMMA Upto ==
    ASSUME NEW m \in Nat, NEW S, 0 \in S, \A n \in Nat : n < m /\ n \in S => n + 1 \in S
    PROVE  m \in S
<1> SUFFICES ASSUME m \notin S PROVE FALSE
  OBVIOUS
<1> DEFINE T == {n \in 0 .. m : n \notin S}
<1>1. T \subseteq Nat /\ T # {}
  BY SMT
<1>2. PICK x \in T : \A y \in T : x <= y
  <2> HIDE DEF T
  <2> QED BY <1>1, Least
<1>3. x # 0 /\ x \in Nat /\ x - 1 \in Nat /\ x - 1 < m /\ x - 1 \in 0 .. m /\ ~(x <= x - 1) /\ x - 1 + 1 = x
  BY SMT
<1>4. x - 1 \in S
  BY <1>2, <1>3
<1>5. x \in S
  <2>1. PICK y : y = x - 1
    OBVIOUS
  <2>2. y \in Nat /\ y < m /\ y \in S /\ y + 1 = x
    BY <1>3, <1>4, <2>1
  <2> QED BY <2>2
<1> QED BY <1>2, <1>5

\* Strong induction up to a bound.
LEMMA Descend ==
    ASSUME NEW m \in Nat, NEW S, \A n \in 0 .. m : (\A k \in 0 .. m : k < n => k \in S) => n \in S
    PROVE  \A n \in 0 .. m : n \in S
<1> DEFINE T == {n \in 0 .. m : n \notin S}
<1> SUFFICES ASSUME T # {} PROVE FALSE
  OBVIOUS
<1>1. T \subseteq Nat
  BY SMT
<1>2. PICK x \in T : \A y \in T : x <= y
  <2> HIDE DEF T
  <2> QED BY <1>1, Least
<1>3. \A k \in 0 .. m : k < x => ~(x <= k)
  BY SMT
<1>4. \A k \in 0 .. m : k < x => k \in S
  BY <1>2, <1>3
<1> QED BY <1>2, <1>4

\* From id along prev to a member of stop, where ans has the answer.
IsWalk(f, k, stop, ans, prev) ==
    f = [id \in 0 .. k |-> IF id \in stop THEN ans[id] ELSE f[prev[id]]]

\* Each step of the walk leads down.
LeadsDown(k, stop, prev) ==
    0 \in stop /\ \A id \in 0 .. k : id \notin stop => prev[id] \in 0 .. id - 1

\* A recursion that leads down defines a function.
LEMMA Walks ==
    ASSUME NEW stop, NEW ans, NEW prev, LeadsDown(MaxVersion, stop, prev)
    PROVE  \E f : IsWalk(f, MaxVersion, stop, ans, prev)
<1> DEFINE S == {k \in Nat : \E f : IsWalk(f, k, stop, ans, prev)}
<1>1. 0 \in S
  <2> DEFINE f == [id \in 0 .. 0 |-> ans[id]]
  <2>1. \A id \in 0 .. 0 : id = 0
    BY SMT
  <2>2. f = [id \in 0 .. 0 |-> IF id \in stop THEN ans[id] ELSE f[prev[id]]]
    BY <2>1 DEF LeadsDown
  <2> HIDE DEF f
  <2> QED BY <2>2, SMT DEF IsWalk
<1>2. ASSUME NEW k \in Nat, k < MaxVersion, k \in S PROVE k + 1 \in S
  <2>1. PICK f : f = [id \in 0 .. k |-> IF id \in stop THEN ans[id] ELSE f[prev[id]]]
    BY <1>2 DEF IsWalk
  <2>2. PICK n : n = k + 1
    OBVIOUS
  <2>3. /\ n \in Nat /\ \A id \in 0 .. n : id = n \/ (id # n /\ id \in 0 .. k)
        /\ \A id \in 0 .. k : id # n /\ id \in 0 .. n
        /\ \A id \in 0 .. n : id \in 0 .. MaxVersion
        /\ \A id \in 0 .. n : \A p \in 0 .. id - 1 : p \in 0 .. k
    BY <1>2, <2>2, BoundsAssumption, SMT
  <2> DEFINE g == [id \in 0 .. n |-> IF id = n THEN IF id \in stop THEN ans[id] ELSE f[prev[id]]
                                     ELSE f[id]]
  <2>4. \A id \in 0 .. k : g[id] = f[id]
    BY <2>3
  <2>5. \A id \in 0 .. n : g[id] = IF id \in stop THEN ans[id] ELSE g[prev[id]]
    <3> SUFFICES ASSUME NEW id \in 0 .. n
                 PROVE  g[id] = IF id \in stop THEN ans[id] ELSE g[prev[id]]
      OBVIOUS
    <3>1. f[id] = (IF id \in stop THEN ans[id] ELSE f[prev[id]]) \/ id = n
      BY <2>1, <2>3
    <3>2. g[id] = IF id \in stop THEN ans[id] ELSE f[prev[id]]
      BY <2>3, <3>1
    <3>3. id \notin stop => prev[id] \in 0 .. k
      BY <2>3 DEF LeadsDown
    <3>4. id \notin stop => g[prev[id]] = f[prev[id]]
      BY <2>4, <3>3
    <3> HIDE DEF g
    <3> QED BY <3>2, <3>4
  <2>6. g = [id \in 0 .. n |-> IF id \in stop THEN ans[id] ELSE g[prev[id]]]
    BY <2>5
  <2> HIDE DEF g
  <2>7. IsWalk(g, n, stop, ans, prev)
    BY <2>6 DEF IsWalk
  <2> QED BY <2>2, <2>3, <2>7
<1>3. MaxVersion \in S
  <2> HIDE DEF S
  <2> QED BY <1>1, <1>2, BoundsAssumption, Upto
<1> QED BY <1>3

\* Where GetRow stops at version id, and what it answers there.
Stops(r, snapshot, t, id) ==
    \/ id = 0 \/ ver[r][id] = NoVersion
    \/ ~is_provisional(ver[r][id]) /\ IsCommittedVisible(ver[r][id], snapshot)
    \/ /\ is_provisional(ver[r][id])
       /\ \/ ver[r][id].created_by = t
          \/ meta[ver[r][id].created_by].state \in {"NotFound", "Committed"}

Answer(r, t, id) ==
    IF id = 0 \/ ver[r][id] = NoVersion THEN NoRow
    ELSE IF ~is_provisional(ver[r][id]) \/ ver[r][id].created_by = t THEN ver[r][id].val
    ELSE IF meta[ver[r][id].created_by].state = "NotFound" THEN NoRow ELSE "Corruption"

\* w is what GetRow's walk answers from each version on.
IsRowWalk(w, r, s, t) ==
    \A id \in 0 .. MaxVersion :
        /\ Stops(r, s, t, id) => w[id] = Answer(r, t, id)
        /\ ~Stops(r, s, t, id) => w[id] = w[ver[r][id].prev_id]

\* GetRow takes the steps of its definition.
LEMMA RowWalk ==
    ASSUME TypeOK, LinkInv, NEW r \in Rows, NEW s, NEW t
    PROVE  \E w : IsRowWalk(w, r, s, t) /\ GetRow(r, s, t) = w[head[r]]
<1> DEFINE B(w, id) ==
            IF id = 0 \/ ver[r][id] = NoVersion THEN NoRow
            ELSE IF ~is_provisional(ver[r][id])
                 THEN IF IsCommittedVisible(ver[r][id], s)
                      THEN ver[r][id].val ELSE w[ver[r][id].prev_id]
                 ELSE IF ver[r][id].created_by = t THEN ver[r][id].val
                 ELSE IF meta[ver[r][id].created_by].state = "NotFound" THEN NoRow
                 ELSE IF meta[ver[r][id].created_by].state = "Committed" THEN "Corruption"
                 ELSE w[ver[r][id].prev_id]
           W == CHOOSE w : w = [id \in 0 .. MaxVersion |-> B(w, id)]
<1>1. \A w, id : /\ Stops(r, s, t, id) => B(w, id) = Answer(r, t, id)
                 /\ ~Stops(r, s, t, id) => B(w, id) = w[ver[r][id].prev_id]
  BY DEF Stops, Answer
<1>2. GetRow(r, s, t) = W[head[r]]
  BY DEF GetRow
<1> HIDE DEF B
<1>3. \E w : w = [id \in 0 .. MaxVersion |-> B(w, id)]
  <2> DEFINE stop == {id \in 0 .. MaxVersion : Stops(r, s, t, id)}
             ans == [id \in 0 .. MaxVersion |-> Answer(r, t, id)]
             prev == [id \in 0 .. MaxVersion |-> ver[r][id].prev_id]
  <2>1. LeadsDown(MaxVersion, stop, prev)
    <3>1. 0 \in stop
      <4>1. 0 \in 0 .. MaxVersion
        BY BoundsAssumption, SMT
      <4> QED BY <4>1 DEF Stops
    <3>2. ASSUME NEW id \in 0 .. MaxVersion, id \notin stop PROVE prev[id] \in 0 .. id - 1
      <4>1. id # 0 /\ ver[r][id] # NoVersion
        BY <3>2 DEF Stops
      <4>2. id \in VersionIds
        BY <4>1, Vid
      <4>3. ver[r][id].prev_id < id /\ ver[r][id].prev_id \in 0 .. MaxVersion
        BY <4>1, <4>2, ChainTypes DEF LinkInv, Exists
      <4>4. \A x \in 0 .. MaxVersion : x < id => x \in 0 .. id - 1
        BY BoundsAssumption, SMT
      <4> QED BY <4>3, <4>4
    <3> QED BY <3>1, <3>2 DEF LeadsDown
  <2>2. PICK f : IsWalk(f, MaxVersion, stop, ans, prev)
    BY <2>1, Walks
  <2>3. \A id \in 0 .. MaxVersion : (IF id \in stop THEN ans[id] ELSE f[prev[id]]) = B(f, id)
    BY <1>1
  <2> HIDE DEF stop, ans, prev
  <2>4. f = [id \in 0 .. MaxVersion |-> B(f, id)]
    BY <2>2, <2>3 DEF IsWalk
  <2> QED BY <2>4
<1>4. W = [id \in 0 .. MaxVersion |-> B(W, id)]
  BY <1>3
<1> HIDE DEF W
<1>5. \A id \in 0 .. MaxVersion : W[id] = B(W, id)
  BY <1>4
<1>6. IsRowWalk(W, r, s, t)
  BY <1>1, <1>5 DEF IsRowWalk
<1> QED BY <1>2, <1>6

-----------------------------------------------------------------------------
\* Snapshots: Transaction::Write.

\* What CommittedAfter answers at version id; elsewhere it goes on below.
Decides(r, snapshot, t, id) ==
    \/ id = 0 \/ ver[r][id] = NoVersion \/ ~is_provisional(ver[r][id])
    \/ /\ ver[r][id].created_by # t
       /\ LET owner == meta[ver[r][id].created_by]
          IN  owner.state = "NotFound" \/ (owner.state = "Committed" /\ owner.commit_ts > snapshot)

Decision(r, snapshot, id) ==
    IF id = 0 THEN FALSE
    ELSE IF ver[r][id] = NoVersion THEN TRUE
    ELSE IF ~is_provisional(ver[r][id]) THEN ver[r][id].start_ts > snapshot ELSE TRUE

\* CommittedAfter takes the steps of its definition.
LEMMA AfterWalk ==
    ASSUME TypeOK, LinkInv, NEW r \in Rows, NEW t
    PROVE  \E w : /\ \A id \in 0 .. MaxVersion :
                        /\ Decides(r, txn[t].start_ts, t, id) =>
                              w[id] = Decision(r, txn[t].start_ts, id)
                        /\ ~Decides(r, txn[t].start_ts, t, id) => w[id] = w[ver[r][id].prev_id]
                  /\ CommittedAfter(t, r) = w[head[r]]
<1> DEFINE snapshot == txn[t].start_ts
           B(w, id) ==
            IF id = 0 THEN FALSE
            ELSE IF ver[r][id] = NoVersion THEN TRUE
            ELSE IF ~is_provisional(ver[r][id]) THEN ver[r][id].start_ts > snapshot
                 ELSE IF /\ ver[r][id].created_by # t
                         /\ \/ meta[ver[r][id].created_by].state = "NotFound"
                            \/ /\ meta[ver[r][id].created_by].state = "Committed"
                               /\ meta[ver[r][id].created_by].commit_ts > snapshot
                 THEN TRUE ELSE w[ver[r][id].prev_id]
           W == CHOOSE w : w = [id \in 0 .. MaxVersion |-> B(w, id)]
<1>1. \A w, id : /\ Decides(r, snapshot, t, id) => B(w, id) = Decision(r, snapshot, id)
                 /\ ~Decides(r, snapshot, t, id) => B(w, id) = w[ver[r][id].prev_id]
  BY DEF Decides, Decision
<1>2. CommittedAfter(t, r) = W[head[r]]
  BY DEF CommittedAfter
<1> HIDE DEF B, snapshot
<1>3. \E w : w = [id \in 0 .. MaxVersion |-> B(w, id)]
  <2> DEFINE stop == {id \in 0 .. MaxVersion : Decides(r, snapshot, t, id)}
             ans == [id \in 0 .. MaxVersion |-> Decision(r, snapshot, id)]
             prev == [id \in 0 .. MaxVersion |-> ver[r][id].prev_id]
  <2>1. LeadsDown(MaxVersion, stop, prev)
    <3>1. 0 \in stop
      <4>1. 0 \in 0 .. MaxVersion
        BY BoundsAssumption, SMT
      <4> QED BY <4>1 DEF Decides
    <3>2. ASSUME NEW id \in 0 .. MaxVersion, id \notin stop PROVE prev[id] \in 0 .. id - 1
      <4>1. id # 0 /\ ver[r][id] # NoVersion
        BY <3>2 DEF Decides
      <4>2. id \in VersionIds
        BY <4>1, Vid
      <4>3. ver[r][id].prev_id < id /\ ver[r][id].prev_id \in 0 .. MaxVersion
        BY <4>1, <4>2, ChainTypes DEF LinkInv, Exists
      <4>4. \A x \in 0 .. MaxVersion : x < id => x \in 0 .. id - 1
        BY BoundsAssumption, SMT
      <4> QED BY <4>3, <4>4
    <3> QED BY <3>1, <3>2 DEF LeadsDown
  <2>2. PICK f : IsWalk(f, MaxVersion, stop, ans, prev)
    BY <2>1, Walks
  <2>3. \A id \in 0 .. MaxVersion : (IF id \in stop THEN ans[id] ELSE f[prev[id]]) = B(f, id)
    BY <1>1
  <2> HIDE DEF stop, ans, prev
  <2>4. f = [id \in 0 .. MaxVersion |-> B(f, id)]
    BY <2>2, <2>3 DEF IsWalk
  <2> QED BY <2>4
<1>4. W = [id \in 0 .. MaxVersion |-> B(W, id)]
  BY <1>3
<1> HIDE DEF W
<1>5. \A id \in 0 .. MaxVersion : W[id] = B(W, id)
  BY <1>4
<1> QED BY <1>1, <1>2, <1>5 DEF snapshot

\* Between handlers a provisional version belongs to an open or an aborted transaction.
LEMMA IdleOwner ==
    ASSUME TypeOK, ProtocolInv, op = Idle, NEW r \in Rows, NEW v \in VersionIds, Provisional(r, v)
    PROVE  meta[ver[r][v].created_by].state \in {"Open", "Aborted"}
<1>1. op.pc = "idle" /\ op.by = "client"
  BY IdleFields
<1>2. ver[r][v].created_by \in TxnIds /\ Exists(r, v) /\ ver[r][v].start_ts = 0
  BY ChainTypes DEF Provisional
<1>3. meta[ver[r][v].created_by].state \in TxnState
  BY <1>2 DEF TypeOK, TxnMeta
<1>4. meta[ver[r][v].created_by].state \notin {"Committed", "NotFound"}
  BY <1>2 DEF ProtocolInv, VersionInv
<1>5. meta[ver[r][v].created_by].state # "Committing"
  BY <1>1, <1>2 DEF ProtocolInv, StateInv
<1> QED BY <1>3, <1>4, <1>5 DEF TxnState

\* The head of a row whose Write goes on: committed, or left by an aborted transaction.
LEMMA FreeHead ==
    ASSUME TypeOK, ProtocolInv, op = Idle, NEW r \in Rows, NEW t, head[r] # 0, ~HeldByOther(t, r)
    PROVE  /\ head[r] \in VersionIds /\ Exists(r, head[r])
           /\ \/ Stamped(r, head[r]) /\ PrevId(r) = head[r]
              \/ /\ Provisional(r, head[r]) /\ PrevId(r) = ver[r][head[r]].prev_id
                 /\ meta[ver[r][head[r]].created_by].state = "Aborted"
<1>1. head[r] \in VersionIds /\ Exists(r, head[r])
  BY ChainTypes DEF ProtocolInv, HeadInv
<1>2. CASE Stamped(r, head[r])
  BY <1>1, <1>2 DEF PrevId, is_provisional, Stamped
<1>3. CASE ~Stamped(r, head[r])
  <2>1. Provisional(r, head[r]) /\ ver[r][head[r]].start_ts = 0
    BY <1>1, <1>3 DEF Stamped, Provisional
  <2>2. meta[ver[r][head[r]].created_by].state = "Aborted"
    BY <1>1, <2>1, IdleOwner DEF HeldByOther, is_provisional
  <2> QED BY <1>1, <2>1, <2>2 DEF PrevId, is_provisional
<1> QED BY <1>1, <1>2, <1>3

\* Past its checks, a Write builds on a version that its snapshot includes.
LEMMA NothingAfter ==
    ASSUME TypeOK, ProtocolInv, LifetimeInv, LinkInv, op = Idle, NEW r \in Rows, NEW t \in TxnIds,
           head[r] # 0, ~HeldByOther(t, r), ~CommittedAfter(t, r), PrevId(r) # 0
    PROVE  ver[r][PrevId(r)].start_ts <= txn[t].start_ts
<1> DEFINE s == txn[t].start_ts
<1>1. /\ head[r] \in VersionIds /\ Exists(r, head[r])
      /\ \/ Stamped(r, head[r]) /\ PrevId(r) = head[r]
         \/ /\ Provisional(r, head[r]) /\ PrevId(r) = ver[r][head[r]].prev_id
            /\ meta[ver[r][head[r]].created_by].state = "Aborted"
  BY FreeHead
<1>2. PICK w : /\ \A id \in 0 .. MaxVersion :
                     /\ Decides(r, s, t, id) => w[id] = Decision(r, s, id)
                     /\ ~Decides(r, s, t, id) => w[id] = w[ver[r][id].prev_id]
               /\ CommittedAfter(t, r) = w[head[r]]
  BY AfterWalk
<1>3. PrevId(r) \in VersionIds /\ Stamped(r, PrevId(r))
  <2>1. ~(ver[r][head[r]].start_ts = 0 /\ meta[ver[r][head[r]].created_by].state \in {"Open", "NotFound"})
    BY DEF HeldByOther, is_provisional
  <2>2. NewestIs(r, PrevId(r))
    BY <2>1, PrevIdNewest DEF LifetimeInv
  <2>3. PrevId(r) \in 0 .. MaxVersion
    BY PrevIdExists
  <2> QED BY <2>2, <2>3, Vid DEF NewestIs
<1>4. ~w[PrevId(r)]
  <2>1. CASE PrevId(r) = head[r]
    BY <1>2, <2>1
  <2>2. CASE /\ Provisional(r, head[r]) /\ PrevId(r) = ver[r][head[r]].prev_id
             /\ meta[ver[r][head[r]].created_by].state = "Aborted"
    <3>1. ~Decides(r, s, t, head[r])
      BY <1>1, <2>2, AtMost, Ids, SMT DEF Decides, is_provisional, Provisional, Exists
    <3> QED BY <1>1, <1>2, <2>2, <3>1, Ids
  <2> QED BY <1>1, <2>1, <2>2
<1>5. Decides(r, s, t, PrevId(r)) /\ Decision(r, s, PrevId(r)) = (ver[r][PrevId(r)].start_ts > s)
  BY <1>3 DEF Decides, Decision, is_provisional, Stamped, Exists
<1>6. ~(ver[r][PrevId(r)].start_ts > s)
  BY <1>2, <1>3, <1>4, <1>5, Ids
<1>7. ver[r][PrevId(r)].start_ts \in Nat /\ s \in Nat
  BY <1>3, ChainTypes DEF Stamped, TypeOK, TxnObject
<1> QED BY <1>6, <1>7, SMT

\* A Write that passed its checks goes on with its version number.
LEMMA WriteNewSnapshot ==
    ASSUME TxnInv, SnapshotInv, NEW t \in TxnIds, NEW r \in Rows, NEW kind,
           NEW val \in Vals, op = Idle, WriteNew(t, r, kind, val)
    PROVE  SnapshotInv'
<1>1. /\ next' = [next EXCEPT !.vid = @ + 1] /\ UNCHANGED <<ver, head, meta, stored, txn>>
      /\ op' = Persist([Idle EXCEPT !.t = t, !.r = r, !.val = val, !.prev = PrevId(r)],
                       "putVersion")
      /\ head[r] # 0 => ~HeldByOther(t, r) /\ ~CommittedAfter(t, r)
  BY DEF WriteNew
<1>2. PrevId(r) \in 0 .. MaxVersion
  BY PrevIdExists DEF TxnInv
<1>3. /\ op'.t = t /\ op'.prev = PrevId(r) /\ op'.r = r /\ op'.pc = "persist"
  BY <1>1, <1>2, IdleType DEF Persist, OpType
<1>4. SameVersions /\ KeepsVersions /\ KeepsChains
  BY <1>1 DEF SameVersions, KeepsVersions, KeepsChains
<1>5. KeepsWrites
  BY <1>1, <1>3, Points DEF KeepsWrites, InProgress
<1>6. LinkInv' /\ HoldInv'
  BY <1>1, <1>4, <1>5, LinkFrame, HoldFrame DEF TxnInv, SnapshotInv
<1>7. next'.ts = next.ts
  BY <1>1 DEF TxnInv, TypeOK, Oracle
<1>8. ClockInv' /\ LaterInv'
  BY <1>1, <1>3, <1>7, NoCommit DEF SnapshotInv, ClockInv
<1>9. PendingInv'
  <2>1. head[r] # 0 => \/ Stamped(r, head[r])
                       \/ meta[ver[r][head[r]].created_by].state = "Aborted"
    BY <1>1, FreeHead DEF TxnInv
  <2>2. head[r] = 0 => PrevId(r) = 0
    BY DEF PrevId
  <2>3. PrevId(r) # 0 => ver[r][PrevId(r)].start_ts <= txn[t].start_ts
    BY <1>1, <2>2, NothingAfter DEF TxnInv, SnapshotInv
  <2> QED BY <1>1, <1>3, <2>1, <2>3 DEF PendingInv, Stamped, Exists
<1> QED BY <1>6, <1>8, <1>9 DEF SnapshotInv

\* PersistOracles moves the counters to disk and returns to its handler.
LEMMA PersistOraclesSnapshot ==
    ASSUME TxnInv, SnapshotInv, PersistOracles
    PROVE  SnapshotInv'
<1>1. /\ op \in OpType /\ op.pc = "persist" /\ UNCHANGED <<ver, head, meta, next, txn>>
      /\ op.ret \in OpRet \ {"none"}
  BY DEF PersistOracles, TxnInv, TypeOK, OpType, ProtocolInv, ReturnInv
<1>2. /\ op'.prev = op.prev /\ op'.r = op.r /\ op'.t = op.t
      /\ op'.pc \notin {"intent", "apply", "restore", "setHead"}
      /\ At({"putVersion", "setHead"})' => At({"putVersion", "setHead"})
  <2>1. CASE op.k = 3
    <3>1. op' = [op EXCEPT !.pc = op.ret, !.k = 0, !.ret = "none"]
      BY <2>1, SMT DEF PersistOracles
    <3>2. /\ op'.prev = op.prev /\ op'.r = op.r /\ op'.t = op.t /\ op'.pc = op.ret /\ op'.ret = "none"
      BY <1>1, <3>1 DEF OpType
    <3> QED BY <1>1, <3>2 DEF At, OpRet
  <2>2. CASE op.k # 3
    <3>1. PICK k : op' = [op EXCEPT !.k = k]
      BY <2>2 DEF PersistOracles
    <3>2. op'.prev = op.prev /\ op'.r = op.r /\ op'.t = op.t /\ op'.pc = op.pc /\ op'.ret = op.ret
      BY <1>1, <3>1 DEF OpType
    <3> QED BY <1>1, <3>2 DEF At
  <2> QED BY <2>1, <2>2
<1>3. KeepsVersions /\ KeepsChains
  BY <1>1 DEF KeepsVersions, KeepsChains
<1>4. KeepsWrites
  BY <1>1, <1>2 DEF KeepsWrites, InProgress
<1>5. LinkInv' /\ HoldInv'
  BY <1>1, <1>3, <1>4, LinkFrame, HoldFrame DEF TxnInv, SnapshotInv
<1>6. stored'.ts = stored.ts \/ stored'.ts = next.ts
  BY DEF PersistOracles, TxnInv, TypeOK, Oracle
<1>7. ClockInv' /\ LaterInv'
  BY <1>1, <1>2, <1>6, NoCommit DEF SnapshotInv, ClockInv
<1>8. PendingInv'
  BY <1>1, <1>2 DEF PendingInv, SnapshotInv, Stamped, Exists
<1> QED BY <1>5, <1>7, <1>8 DEF SnapshotInv

\* The new version is stored under its number.
LEMMA PutVersionValueSnapshot ==
    ASSUME TxnInv, SnapshotInv, PutVersionValue
    PROVE  SnapshotInv'
<1> DEFINE rec == [start_ts |-> 0, end_ts |-> 0, prev_id |-> op.prev,
                   created_by |-> op.t, val |-> op.val]
<1>1. /\ op.pc = "putVersion" /\ op' = [op EXCEPT !.pc = "setHead"] /\ op \in OpType
      /\ ver' = [ver EXCEPT ![op.r][NewVid] = rec] /\ UNCHANGED <<head, meta, stored, next, txn>>
      /\ ver \in [Rows -> [VersionIds -> VersionRecord \cup {NoVersion}]]
  BY DEF PutVersionValue, TxnInv, TypeOK
<1>2. /\ op.r \in Rows /\ NewVid \in VersionIds /\ \A r \in Rows : ~Exists(r, NewVid)
  BY <1>1 DEF TxnInv, ProtocolInv, WriteInv, At
<1>3. /\ ver'[op.r][NewVid] = rec
      /\ \A r \in Rows, v \in VersionIds : r # op.r \/ v # NewVid => ver'[r][v] = ver[r][v]
  BY <1>1, <1>2
<1>4. /\ rec.start_ts = 0 /\ rec.prev_id = op.prev /\ rec.val = op.val
  OBVIOUS
<1> HIDE DEF rec
<1>5. op.prev < NewVid /\ op.prev \in 0 .. MaxVersion /\ NewestIs(op.r, op.prev)
  BY <1>1 DEF TxnInv, LifetimeInv, InstallInv, At, OpType
<1>6. \A r \in Rows, v \in VersionIds : ver[r][v] # NoVersion => ver'[r][v] = ver[r][v]
  BY <1>2, <1>3 DEF Exists
<1>7. KeepsVersions
  <2>1. ASSUME NEW r \in Rows, NEW v \in VersionIds, ver'[r][v] # NoVersion, ver[r][v] = NoVersion
        PROVE  ver'[r][v].start_ts = 0 /\ ver'[r][v].prev_id < v
    BY <1>3, <1>4, <1>5, <2>1
  <2> QED BY <1>6, <2>1 DEF KeepsVersions
<1>8. KeepsChains
  BY <1>6 DEF KeepsChains
<1>9. op'.pc = "setHead" /\ op'.r = op.r /\ op'.prev = op.prev /\ op'.t = op.t /\ op'.val = op.val
  BY <1>1 DEF OpType
<1>10. KeepsWrites
  BY <1>1, <1>9 DEF KeepsWrites, InProgress
<1>11. LinkInv' /\ HoldInv'
  BY <1>1, <1>7, <1>8, <1>10, LinkFrame, HoldFrame DEF TxnInv, SnapshotInv
<1>12. ClockInv' /\ LaterInv'
  BY <1>1, <1>9, NoCommit DEF SnapshotInv, ClockInv
<1>13. PendingInv'
  <2>1. /\ head[op.r] # 0 => \/ Stamped(op.r, head[op.r])
                             \/ meta[ver[op.r][head[op.r]].created_by].state = "Aborted"
        /\ op.prev # 0 => ver[op.r][op.prev].start_ts <= txn[op.t].start_ts
    BY <1>1 DEF SnapshotInv, PendingInv, At
  <2>2. head[op.r] # 0 => ver'[op.r][head[op.r]] = ver[op.r][head[op.r]]
    BY <1>2, <1>6, ChainTypes DEF TxnInv, ProtocolInv, HeadInv, Exists
  <2>3. op.prev # 0 => ver'[op.r][op.prev] = ver[op.r][op.prev]
    BY <1>2, <1>5, <1>6, Vid DEF NewestIs, Stamped, Exists
  <2>4. NewVid' = NewVid
    BY <1>1 DEF NewVid
  <2>5. ver'[op'.r][NewVid'].val = op'.val
    BY <1>3, <1>4, <1>9, <2>4
  <2>6. head'[op'.r] # 0 => \/ Stamped(op.r, head[op.r])'
                            \/ meta'[ver'[op'.r][head'[op'.r]].created_by].state = "Aborted"
    BY <1>1, <1>9, <2>1, <2>2 DEF Stamped, Exists
  <2>7. op'.prev # 0 => ver'[op'.r][op'.prev].start_ts <= txn'[op'.t].start_ts
    BY <1>1, <1>9, <2>1, <2>3
  <2> QED BY <2>5, <2>6, <2>7 DEF PendingInv
<1> QED BY <1>11, <1>12, <1>13 DEF SnapshotInv

\* Nobody holds the row that a Write is about to take.
LEMMA NobodyHolds ==
    ASSUME TxnInv, SnapshotInv, At({"putVersion", "setHead"}), NEW t \in TxnIds, InProgress(t),
           NEW r \in Rows, NEW v \in VersionIds, Lists(txn[t].written, r, v)
    PROVE  r # op.r
<1>1. /\ Holds(t, r, v) /\ Provisional(r, v) /\ ver[r][v].created_by = t
      /\ meta[t].state = "Open" /\ v # 0
  BY Held, Ids, SMT DEF SnapshotInv
<1>2. head[op.r] # 0 => \/ Stamped(op.r, head[op.r])
                        \/ meta[ver[op.r][head[op.r]].created_by].state = "Aborted"
  BY DEF SnapshotInv, PendingInv
<1> QED BY <1>1, <1>2 DEF Holds, Provisional, Stamped

\* The new version becomes the head of a row that nobody else holds.
LEMMA SetHeadSnapshot ==
    ASSUME TxnInv, SnapshotInv, SetHead
    PROVE  SnapshotInv'
<1> DEFINE e == [row |-> op.r, vid |-> NewVid]
<1>1. /\ op.pc = "setHead" /\ op' = [op EXCEPT !.pc = "writeMeta"] /\ op \in OpType
      /\ head' = [head EXCEPT ![op.r] = NewVid] /\ UNCHANGED <<ver, meta, stored, next>>
      /\ txn' = [txn EXCEPT ![op.t].written = Append(@, e)]
      /\ head \in [Rows -> 0 .. MaxVersion] /\ txn \in [TxnIds -> TxnObject]
  BY DEF SetHead, TxnInv, TypeOK
<1>2. /\ op.r \in Rows /\ NewVid \in VersionIds /\ op.t \in TxnIds
      /\ ver[op.r][NewVid].prev_id = op.prev
  BY <1>1 DEF TxnInv, ProtocolInv, WriteInv, At
<1>3. /\ \A t \in TxnIds : txn'[t].start_ts = txn[t].start_ts /\ txn'[t].st = txn[t].st
      /\ \A t \in TxnIds : t # op.t => txn'[t].written = txn[t].written
      /\ txn'[op.t].written = Append(txn[op.t].written, e)
      /\ \A t \in TxnIds : txn[t].written \in Seq(TxnWrite)
  BY <1>1, <1>2 DEF TxnObject
<1>4. e \in TxnWrite /\ e.row = op.r /\ e.vid = NewVid
  BY <1>2 DEF TxnWrite
<1>5. head'[op.r] = NewVid /\ \A r \in Rows : r # op.r => head'[r] = head[r]
  BY <1>1, <1>2
<1>6. op'.pc = "writeMeta" /\ ~At({"putVersion", "setHead"})'
  BY <1>1 DEF At, OpType
<1>7. op.prev # 0 => ver[op.r][op.prev].start_ts <= txn[op.t].start_ts
  BY <1>1 DEF SnapshotInv, PendingInv, At
<1> HIDE DEF e
<1>8. HoldInv'
  <2> SUFFICES ASSUME NEW t \in TxnIds, InProgress(t)', NEW r \in Rows, NEW v \in VersionIds,
                      Lists(txn'[t].written, r, v)
               PROVE  Holds(t, r, v)'
    BY DEF HoldInv, Lists
  <2>1. InProgress(t)
    BY <1>1, <1>3 DEF InProgress
  <2>2. CASE Lists(txn[t].written, r, v)
    <3>1. r # op.r
      BY <1>1, <2>1, <2>2, NobodyHolds DEF At
    <3>2. Holds(t, r, v)
      BY <2>1, <2>2 DEF SnapshotInv, HoldInv
    <3> QED BY <1>1, <1>3, <1>5, <3>1, <3>2 DEF Holds
  <2>3. CASE ~Lists(txn[t].written, r, v)
    <3>1. t = op.t
      BY <1>3, <2>3
    <3>2. r = op.r /\ v = NewVid
      <4>1. txn[t].written \in Seq(TxnWrite) /\ Lists(Append(txn[t].written, e), r, v)
        BY <1>3, <3>1
      <4>2. Lists(Append(txn[t].written, e), r, v) <=>
               Lists(txn[t].written, r, v) \/ (e.row = r /\ e.vid = v)
        BY <1>4, <4>1, Listed
      <4> QED BY <1>4, <2>3, <4>1, <4>2
    <3> QED BY <1>1, <1>2, <1>3, <1>5, <1>7, <3>1, <3>2 DEF Holds
  <2> QED BY <2>2, <2>3
<1>9. LinkInv'
  BY <1>1, LinkFrame DEF KeepsVersions, TxnInv, SnapshotInv
<1>10. ClockInv' /\ LaterInv'
  BY <1>1, <1>6, NoCommit DEF SnapshotInv, ClockInv
<1>11. PendingInv'
  BY <1>6 DEF PendingInv
<1> QED BY <1>8, <1>9, <1>10, <1>11 DEF SnapshotInv

-----------------------------------------------------------------------------
\* Snapshots: commit and abort put by put.

\* A second write of a row replaces a payload.
LEMMA RewriteOwnSnapshot ==
    ASSUME TxnInv, SnapshotInv, NEW t \in TxnIds, NEW r \in Rows, NEW kind,
           NEW val \in Vals, op = Idle, txn[t].st = "open", RewriteOwn(t, r, kind, val)
    PROVE  SnapshotInv'
<1>1. UNCHANGED <<head, meta, stored, next, txn, op>>
  BY DEF RewriteOwn
<1>2. SameVersions
  BY RewriteOwnShape DEF Rewrites, TxnInv
<1>3. KeepsWrites
  BY <1>1 DEF KeepsWrites, InProgress
<1>4. op' = Idle
  BY <1>1
<1>5. ~At({"putVersion", "setHead"})' /\ LaterInv'
  BY <1>4, Points, Starts, NoCommit
<1>6. ClockInv'
  BY <1>1 DEF SnapshotInv, ClockInv
<1> QED BY <1>1, <1>2, <1>3, <1>5, <1>6, SnapshotFrame

\* Closing the predecessor keeps the links: what has no end has no successor.
LEMMA CloseLinks ==
    ASSUME TxnInv, LinkInv, NEW r, NEW v, NEW p, Applies(r, v, p), Closes(r, v, p)
    PROVE  LinkInv' /\ KeepsChains
<1>1. /\ r \in Rows /\ p \in VersionIds /\ Stamped(r, p) /\ ver[r][p].end_ts = 0 /\ OnlyVersion(r, p)
      /\ ver'[r][p].start_ts = ver[r][p].start_ts
  BY DEF Applies, Closes
<1>2. \A s \in Rows, x \in VersionIds :
         /\ Exists(s, x)' <=> Exists(s, x)
         /\ Exists(s, x) => /\ ver'[s][x].prev_id = ver[s][x].prev_id
                            /\ ver'[s][x].start_ts = ver[s][x].start_ts
         /\ ver[s][x].end_ts # 0 => ver'[s][x].end_ts = ver[s][x].end_ts
  BY <1>1 DEF OnlyVersion
<1>3. \A s \in Rows, x \in VersionIds : Stamped(s, x)' <=> Stamped(s, x)
  BY <1>2 DEF Stamped
<1>4. KeepsChains
  BY <1>2 DEF KeepsChains, Exists
<1>5. \A s \in Rows, x \in VersionIds : Exists(s, x)' => ver'[s][x].prev_id < x
  BY <1>2 DEF LinkInv
<1>6. ASSUME NEW s \in Rows, NEW x \in VersionIds, Stamped(s, x)' PROVE Linked(s, x)'
  <2>1. PICK q : q = ver[s][x].prev_id
    OBVIOUS
  <2>2. Stamped(s, x) /\ Exists(s, x) /\ ver[s][x].start_ts # 0
    BY <1>3, <1>6 DEF Stamped
  <2>3. q # 0 => q \in VersionIds
    BY <2>1, <2>2, ChainTypes DEF TxnInv
  <2>4. /\ q # 0 => Stamped(s, q) /\ ver[s][q].end_ts = ver[s][x].start_ts
        /\ \A u \in VersionIds : Stamped(s, u) /\ u < x => u <= q
    BY <2>1, <2>2 DEF LinkInv, Linked
  <2>5. q # 0 => Stamped(s, q)' /\ ver'[s][q].end_ts = ver'[s][x].start_ts
    BY <1>2, <1>3, <2>2, <2>3, <2>4
  <2>6. ver'[s][x].prev_id = q
    BY <1>2, <2>1, <2>2
  <2>7. \A u \in VersionIds : Stamped(s, u)' /\ u < x => u <= q
    BY <1>3, <2>4
  <2> QED BY <2>5, <2>6, <2>7 DEF Linked
<1> QED BY <1>4, <1>5, <1>6 DEF LinkInv

\* Stamping links the version to the one it closed.
LEMMA StampLinks ==
    ASSUME TxnInv, LinkInv, NEW r, NEW v, NEW p, Applies(r, v, p), Stamps(r, v, p)
    PROVE  LinkInv' /\ KeepsChains
<1>1. /\ r \in Rows /\ v \in VersionIds /\ p = ver[r][v].prev_id /\ Provisional(r, v)
      /\ op.cts = meta[ver[r][v].created_by].commit_ts /\ op.cts >= 1
      /\ meta[ver[r][v].created_by].state = "Committing"
      /\ p # 0 => ver[r][p].end_ts # 0
      /\ OnlyVersion(r, v)
      /\ ver'[r][v].start_ts = op.cts /\ ver'[r][v].end_ts = ver[r][v].end_ts
  BY DEF Applies, Stamps
<1>2. /\ p < v /\ NewestIs(r, p) /\ p \in 0 .. MaxVersion /\ op.cts \in Nat
      /\ p # 0 => p \in VersionIds /\ Stamped(r, p) /\ ver[r][p].end_ts \in {0, op.cts}
  BY <1>1, AboutToStamp DEF TxnInv
<1>3. op.cts # 0
  BY <1>1, <1>2, SMT
<1>4. \A s \in Rows, x \in VersionIds :
         /\ Exists(s, x)' <=> Exists(s, x)
         /\ Exists(s, x) => /\ ver'[s][x].prev_id = ver[s][x].prev_id
                            /\ ver'[s][x].end_ts = ver[s][x].end_ts
         /\ s # r \/ x # v => ver'[s][x].start_ts = ver[s][x].start_ts
  BY <1>1 DEF OnlyVersion
<1>5. ~Stamped(r, v) /\ Exists(r, v) /\ ver[r][v].start_ts = 0
  BY <1>1 DEF Stamped, Provisional
<1>6. /\ \A s \in Rows, x \in VersionIds : s # r \/ x # v => (Stamped(s, x)' <=> Stamped(s, x))
      /\ Stamped(r, v)'
      /\ \A s \in Rows, x \in VersionIds : Stamped(s, x) =>
            (s # r \/ x # v) /\ ver'[s][x].start_ts = ver[s][x].start_ts
  BY <1>1, <1>3, <1>4, <1>5 DEF Stamped
<1>7. KeepsChains
  BY <1>1, <1>4, <1>6 DEF KeepsChains, Exists, Stamped
<1>8. \A s \in Rows, x \in VersionIds : Exists(s, x)' => ver'[s][x].prev_id < x
  BY <1>4 DEF LinkInv
<1>9. Linked(r, v)'
  <2>1. ver'[r][v].prev_id = p
    BY <1>1, <1>4, <1>5
  <2>2. ASSUME p # 0 PROVE Stamped(r, p)' /\ ver'[r][p].end_ts = ver'[r][v].start_ts
    <3>1. Stamped(r, p)'
      BY <1>1, <1>2, <1>6, <2>2
    <3>2. ver'[r][p].end_ts = ver[r][p].end_ts
      BY <1>1, <1>2, <1>4, <2>2 DEF Stamped
    <3> QED BY <1>1, <1>2, <2>2, <3>1, <3>2
  <2>3. \A u \in VersionIds : Stamped(r, u)' /\ u < v => u <= p
    BY <1>1, <1>2, <1>6, Irreflexive DEF NewestIs
  <2> QED BY <2>1, <2>2, <2>3 DEF Linked
<1>10. ASSUME NEW s \in Rows, NEW x \in VersionIds, Stamped(s, x)', s # r \/ x # v
       PROVE  Linked(s, x)'
  <2>1. PICK q : q = ver[s][x].prev_id
    OBVIOUS
  <2>2. Stamped(s, x) /\ Exists(s, x) /\ ver'[s][x].start_ts = ver[s][x].start_ts
    BY <1>4, <1>6, <1>10 DEF Stamped
  <2>3. q # 0 => q \in VersionIds
    BY <2>1, <2>2, ChainTypes DEF TxnInv
  <2>4. /\ q # 0 => Stamped(s, q) /\ ver[s][q].end_ts = ver[s][x].start_ts
        /\ \A u \in VersionIds : Stamped(s, u) /\ u < x => u <= q
    BY <2>1, <2>2 DEF LinkInv, Linked
  <2>5. q # 0 => Stamped(s, q)' /\ ver'[s][q].end_ts = ver'[s][x].start_ts
    BY <1>4, <1>6, <2>2, <2>3, <2>4 DEF Stamped
  <2>6. ver'[s][x].prev_id = q
    BY <1>4, <2>1, <2>2
  <2>7. ASSUME NEW u \in VersionIds, Stamped(s, u)', u < x PROVE u <= q
    <3>1. CASE s # r \/ u # v
      BY <1>6, <2>4, <2>7, <3>1
    <3>2. CASE s = r /\ u = v
      BY <1>1, <1>2, <2>2, <2>7, <3>2, NotAbove DEF NewestIs
    <3> QED BY <3>1, <3>2
  <2> QED BY <2>5, <2>6, <2>7 DEF Linked
<1> QED BY <1>7, <1>8, <1>9, <1>10 DEF LinkInv

\* ApplyCommitWrites.
LEMMA ApplyCommitWritesSnapshot ==
    ASSUME TxnInv, SnapshotInv, ApplyCommitWrites
    PROVE  SnapshotInv'
<1>1. op.pc = "apply" /\ UNCHANGED <<head, meta, stored, next, txn>>
  BY DEF ApplyCommitWrites
<1>2. /\ op'.pc = "apply" /\ op'.by = op.by /\ op'.cts = op.cts
      /\ ver' = ver \/ \E r, v, p : Applies(r, v, p)
  BY ApplyShape DEF TxnInv
<1>3. LinkInv' /\ KeepsChains
  <2>1. CASE ver' = ver
    BY <2>1, LinkFrame DEF KeepsVersions, KeepsChains, TxnInv, SnapshotInv
  <2>2. CASE \E r, v, p : Applies(r, v, p)
    <3>1. PICK r, v, p : Applies(r, v, p)
      BY <2>2
    <3>2. Closes(r, v, p) \/ Stamps(r, v, p)
      BY <3>1 DEF Applies
    <3> QED BY <3>1, <3>2, CloseLinks, StampLinks DEF SnapshotInv
  <2> QED BY <1>2, <2>1, <2>2
<1>4. KeepsWrites
  BY <1>1, <1>2 DEF KeepsWrites, InProgress
<1>5. HoldInv'
  BY <1>1, <1>3, <1>4, HoldFrame DEF SnapshotInv
<1>6. ClockInv'
  BY <1>1, <1>2 DEF SnapshotInv, ClockInv
<1>7. LaterInv'
  BY <1>1, <1>2 DEF SnapshotInv, LaterInv
<1>8. PendingInv'
  BY <1>2 DEF PendingInv, At
<1> QED BY <1>3, <1>5, <1>6, <1>7, <1>8 DEF SnapshotInv

\* RestoreHeads gives back rows that nobody else holds.
LEMMA RestoreHeadsSnapshot ==
    ASSUME TxnInv, SnapshotInv, RestoreHeads
    PROVE  SnapshotInv'
<1>1. /\ op.pc = "restore" /\ op.i > 0 /\ op \in OpType
      /\ op' = [op EXCEPT !.i = @ - 1] /\ UNCHANGED <<ver, meta, stored, next, txn>>
      /\ head' = IF head[op.w[op.i].row] # op.w[op.i].vid THEN head
                 ELSE [head EXCEPT ![op.w[op.i].row] =
                          ver[op.w[op.i].row][op.w[op.i].vid].prev_id]
  BY DEF RestoreHeads, TxnInv, TypeOK
<1>2. op.w \in Seq(TxnWrite) /\ op.i \in 1 .. Len(op.w)
  BY <1>1, SMT DEF OpType, TxnInv, ProtocolInv, RestoreInv
<1>3. PICK r \in Rows, v \in VersionIds :
         /\ r = op.w[op.i].row /\ v = op.w[op.i].vid
         /\ ver[r][v].created_by = op.t
  BY <1>1, <1>2, Entry DEF TxnInv, ProtocolInv, RestoreInv
<1>4. \A s \in Rows : head'[s] = head[s] \/ (s = r /\ head[s] = v)
  BY <1>1, <1>3 DEF TxnInv, TypeOK
<1>5. op'.pc = "restore" /\ op'.t = op.t
  BY <1>1 DEF OpType
<1>6. HoldInv'
  <2> SUFFICES ASSUME NEW t \in TxnIds, InProgress(t)', NEW s \in Rows, NEW u \in VersionIds,
                      Lists(txn'[t].written, s, u)
               PROVE  Holds(t, s, u)'
    BY DEF HoldInv, Lists
  <2>1. InProgress(t) /\ t # op.t
    BY <1>1, <1>5 DEF InProgress
  <2>2. Holds(t, s, u) /\ ver[s][u].created_by = t
    <3>1. Lists(txn[t].written, s, u) /\ HoldInv
      BY <1>1 DEF SnapshotInv
    <3> QED BY <2>1, <3>1, Held
  <2>3. head'[s] = head[s]
    BY <1>3, <1>4, <2>1, <2>2 DEF Holds
  <2> QED BY <1>1, <2>2, <2>3 DEF Holds
<1>7. LinkInv'
  BY <1>1, LinkFrame DEF KeepsVersions, TxnInv, SnapshotInv
<1>8. ClockInv' /\ LaterInv'
  BY <1>1, <1>5, NoCommit DEF SnapshotInv, ClockInv
<1>9. PendingInv'
  BY <1>5 DEF PendingInv, At
<1> QED BY <1>6, <1>7, <1>8, <1>9 DEF SnapshotInv

\* An empty database, and a step that changes nothing.
LEMMA InitSnapshot == Init => SnapshotInv
<1> SUFFICES ASSUME Init PROVE SnapshotInv
  OBVIOUS
<1>1. /\ \A r \in Rows, v \in VersionIds : ~Exists(r, v)
      /\ \A t \in TxnIds : txn[t].st = "none" /\ meta[t].commit_ts = 0
      /\ next.ts = 1 /\ stored.ts = 1
  BY DEF Init, Exists, NoTxn, NoMeta, FirstOracle
<1>2. op.pc = "idle"
  BY IdleFields DEF Init
<1>3. LinkInv
  BY <1>1 DEF LinkInv, Stamped
<1>4. ClockInv
  <2>1. 1 <= MaxTs + 1 /\ 0 <= MaxTs
    BY BoundsAssumption, SMT
  <2> QED BY <1>1, <1>2, <2>1 DEF ClockInv
<1>5. LaterInv /\ HoldInv /\ PendingInv
  BY <1>1, <1>2 DEF LaterInv, HoldInv, InProgress, PendingInv, At
<1> QED BY <1>3, <1>4, <1>5 DEF SnapshotInv

\* Steps that change nothing.
LEMMA StutterSnapshot ==
    ASSUME TxnInv, SnapshotInv, UNCHANGED vars
    PROVE  SnapshotInv'
<1>1. UNCHANGED <<ver, head, meta, stored, next, txn, op>> /\ NewVid' = NewVid
  BY DEF vars, NewVid
<1>2. KeepsVersions /\ KeepsChains /\ KeepsWrites
  BY <1>1 DEF KeepsVersions, KeepsChains, KeepsWrites, InProgress
<1>3. LinkInv' /\ HoldInv'
  BY <1>1, <1>2, LinkFrame, HoldFrame DEF TxnInv, SnapshotInv
<1>4. ClockInv' /\ LaterInv' /\ PendingInv'
  BY <1>1 DEF SnapshotInv, ClockInv, LaterInv, PendingInv, At, Stamped, Exists
<1> QED BY <1>3, <1>4 DEF SnapshotInv

\* Every step keeps what snapshots rest on.
LEMMA StepSnapshot ==
    ASSUME MaxFaults = 0, TxnInv, SnapshotInv, [Next]_vars
    PROVE  SnapshotInv'
<1>1. ASSUME NEW t \in TxnIds, NEW r \in Rows, NEW kind, NEW val \in Vals, Write(t, r, kind, val)
      PROVE  SnapshotInv'
  <2>1. op = Idle /\ txn[t].st = "open"
    BY <1>1 DEF Write
  <2>2. CASE RewriteOwn(t, r, kind, val)
    BY <2>1, <2>2, RewriteOwnSnapshot
  <2>3. CASE WriteNew(t, r, kind, val)
    BY <2>1, <2>3, WriteNewSnapshot
  <2> QED BY <1>1, <2>2, <2>3 DEF Write
<1>2. CASE Call
  <2>1. NoRow \in Vals /\ Payloads \subseteq Vals
    BY DEF Vals
  <2>2. CASE Begin
    BY <2>2, BeginOpenSnapshot
  <2>3. CASE \E t \in TxnIds : Commit(t) \/ Abort(t)
    BY <2>3, CommitSnapshot, RestoringSnapshot DEF Abort
  <2>4. CASE \E t \in TxnIds, r \in Rows : Delete(t, r)
    BY <1>1, <2>1, <2>4 DEF Delete
  <2>5. CASE \E t \in TxnIds, r \in Rows, p \in Payloads : Insert(t, r, p) \/ Update(t, r, p)
    BY <1>1, <2>1, <2>5 DEF Insert, Update
  <2> QED BY <1>2, <2>2, <2>3, <2>4, <2>5 DEF Call
<1>3. CASE HandlerStep
  BY <1>3, PersistOraclesSnapshot, BeginMetaSnapshot, PutVersionValueSnapshot, SetHeadSnapshot,
     WriteMetaSnapshot, PutIntentSnapshot, ApplyCommitWritesSnapshot, PutCommittedSnapshot,
     CommitDoneSnapshot, RestoreHeadsSnapshot, PutAbortedSnapshot, RecoverTxnsSnapshot
     DEF HandlerStep
<1>4. CASE Open \/ Crash
  BY <1>4, BeginOpenSnapshot, CrashSnapshot
<1>5. ~KvError
  BY SMT DEF KvError, TxnInv, TypeOK
<1>6. CASE UNCHANGED vars
  BY <1>6, StutterSnapshot
<1> QED BY <1>2, <1>3, <1>4, <1>5, <1>6 DEF Next

\* Snapshots (Begin, Write, CommitTransaction): the committed versions of a row form
\* a chain without gaps in time, a transaction in progress holds the head of every
\* row it wrote, above nothing that was committed after its snapshot, and a commit is
\* later than every open snapshot, across any crashes.
THEOREM SnapshotInvariant ==
    ASSUME MaxFaults = 0
    PROVE  Spec => [](TxnInv /\ SnapshotInv)
<1> DEFINE I == TxnInv /\ SnapshotInv
<1>1. Init => I
  BY InitInv, InitLife, InitSnapshot DEF TxnInv
<1>2. I /\ [Next]_vars => I'
  <2> SUFFICES ASSUME TxnInv, SnapshotInv, [Next]_vars PROVE TxnInv' /\ SnapshotInv'
    OBVIOUS
  <2>1. TypeOK' /\ ProtocolInv' /\ LifetimeInv'
    BY StepInv, StepLife DEF TxnInv
  <2> QED BY <2>1, StepSnapshot DEF TxnInv
<1> HIDE DEF I
<1>3. Spec => []I
  BY <1>1, <1>2, PTL DEF Spec
<1> QED BY <1>3 DEF I

-----------------------------------------------------------------------------
\* Reads.

\* Version v is committed, and a snapshot s includes it.
Seen(r, v, s) == Stamped(r, v) /\ ver[r][v].start_ts <= s

\* x is the payload of the newest version up to id that s includes.
ReadsAt(r, s, id, x) ==
    \/ x = NoRow /\ \A u \in VersionIds : u <= id => ~Seen(r, u, s)
    \/ \E v \in VersionIds : /\ Seen(r, v, s) /\ x = ver[r][v].val
                             /\ \A u \in VersionIds : u <= id /\ Seen(r, u, s) => u <= v

\* What a transaction reads is such an answer.
LEMMA ReadWalk ==
    ASSUME TxnInv, SnapshotInv, NEW t \in TxnIds, NEW r \in Rows
    PROVE  \E w : IsRowWalk(w, r, txn[t].start_ts, t) /\ Get(t, r) = w[head[r]]
<1>1. TypeOK /\ LinkInv
  BY DEF TxnInv, SnapshotInv
<1>2. PICK s : s = txn[t].start_ts
  OBVIOUS
<1>3. \E w : IsRowWalk(w, r, s, t) /\ GetRow(r, s, t) = w[head[r]]
  BY <1>1, RowWalk
<1> QED BY <1>2, <1>3 DEF Get

\* From a committed version that had not ended at the snapshot, the walk finds the
\* newest version that the snapshot includes.
LEMMA ChainRead ==
    ASSUME TxnInv, LinkInv, NEW r \in Rows, NEW s \in Nat, NEW t, NEW w, IsRowWalk(w, r, s, t)
    PROVE  \A id \in 0 .. MaxVersion :
              (id # 0 => Stamped(r, id) /\ (ver[r][id].end_ts = 0 \/ ver[r][id].end_ts > s))
              => ReadsAt(r, s, id, w[id])
<1> DEFINE From(id) == id # 0 => Stamped(r, id) /\ (ver[r][id].end_ts = 0 \/ ver[r][id].end_ts > s)
           S == {id \in 0 .. MaxVersion : From(id) => ReadsAt(r, s, id, w[id])}
<1>1. ASSUME NEW n \in 0 .. MaxVersion, \A k \in 0 .. MaxVersion : k < n => k \in S, From(n)
      PROVE  ReadsAt(r, s, n, w[n])
  <2>1. CASE n = 0
    <3>1. Stops(r, s, t, n) /\ Answer(r, t, n) = NoRow
      BY <2>1 DEF Stops, Answer
    <3>2. w[n] = NoRow
      BY <3>1 DEF IsRowWalk
    <3>3. \A u \in VersionIds : ~(u <= n)
      BY <2>1, Ids, SMT
    <3> QED BY <3>2, <3>3 DEF ReadsAt
  <2>2. CASE n # 0
    <3>1. /\ n \in VersionIds /\ Stamped(r, n) /\ Exists(r, n) /\ ver[r][n].start_ts # 0
          /\ ver[r][n].end_ts = 0 \/ ver[r][n].end_ts > s
      BY <1>1, <2>2, Vid DEF Stamped
    <3>2. ver[r][n].start_ts \in Nat
      BY <3>1, ChainTypes DEF TxnInv
    <3>3. CASE ver[r][n].start_ts <= s
      <4>1. Stops(r, s, t, n) /\ Answer(r, t, n) = ver[r][n].val
        BY <2>2, <3>1, <3>3 DEF Stops, Answer, is_provisional, IsCommittedVisible, Exists
      <4>2. w[n] = ver[r][n].val
        BY <4>1 DEF IsRowWalk
      <4>3. Seen(r, n, s)
        BY <3>1, <3>3 DEF Seen
      <4> QED BY <3>1, <4>2, <4>3 DEF ReadsAt
    <3>4. CASE ~(ver[r][n].start_ts <= s)
      <4>1. PICK p : p = ver[r][n].prev_id
        OBVIOUS
      <4>2. ~Stops(r, s, t, n)
        BY <2>2, <3>1, <3>4 DEF Stops, is_provisional, IsCommittedVisible, Exists
      <4>3. w[n] = w[p]
        BY <4>1, <4>2 DEF IsRowWalk
      <4>4. p \in 0 .. MaxVersion /\ p < n
        BY <3>1, <4>1, ChainTypes DEF TxnInv, LinkInv
      <4>5. /\ p # 0 => Stamped(r, p) /\ ver[r][p].end_ts = ver[r][n].start_ts
            /\ \A u \in VersionIds : Stamped(r, u) /\ u < n => u <= p
        BY <3>1, <4>1 DEF LinkInv, Linked
      <4>6. ver[r][n].start_ts > s
        BY <3>2, <3>4, SMT
      <4>7. ReadsAt(r, s, p, w[p])
        BY <1>1, <4>4, <4>5, <4>6
      <4>8. \A u \in VersionIds : u <= n /\ Seen(r, u, s) => u <= p
        <5>1. \A u \in VersionIds : u <= n => u = n \/ u < n
          BY <3>1, Ids, SMT
        <5> QED BY <3>4, <4>5, <5>1 DEF Seen
      <4> QED BY <4>3, <4>7, <4>8 DEF ReadsAt
    <3> QED BY <3>3, <3>4
  <2> QED BY <2>1, <2>2
<1>2. \A n \in 0 .. MaxVersion : (\A k \in 0 .. MaxVersion : k < n => k \in S) => n \in S
  BY <1>1
<1> HIDE DEF S
<1>3. \A n \in 0 .. MaxVersion : n \in S
  BY <1>2, Descend, BoundsAssumption
<1> QED BY <1>3 DEF S

\* An intent on disk while a transaction is open carries a later timestamp than its
\* snapshot.
LEMMA IntentLater ==
    ASSUME TxnInv, LaterInv, NEW t \in TxnIds, txn[t].st = "open", NEW u \in TxnIds,
           meta[u].state = "Committing"
    PROVE  meta[u].commit_ts > txn[t].start_ts
<1>1. op.by # "Open" /\ op.pc # "down"
  BY DEF TxnInv, ProtocolInv, RecoverInv
<1>2. op.pc = "apply" /\ op.t = u
  BY <1>1 DEF TxnInv, ProtocolInv, StateInv
<1>3. op.by = "client"
  BY <1>1 DEF TxnInv, TypeOK, OpType
<1>4. txn[t].start_ts < op.cts /\ op.cts = meta[u].commit_ts
  BY <1>2, <1>3 DEF LaterInv, TxnInv, ProtocolInv, CommitInv
<1>5. meta[u].commit_ts \in Nat /\ txn[t].start_ts \in Nat
  BY ChainTypes DEF TxnInv, TypeOK, TxnObject
<1> QED BY <1>4, <1>5, SMT

\* A transaction that has not written the row reads the newest version that its
\* snapshot includes, whatever the others are doing.
LEMMA OtherRead ==
    ASSUME TxnInv, SnapshotInv, NEW t \in TxnIds, txn[t].st = "open", NEW r \in Rows,
           head[r] # 0 => Stamped(r, head[r]) \/ ver[r][head[r]].created_by # t
    PROVE  ReadsAt(r, txn[t].start_ts, MaxVersion, Get(t, r))
<1> DEFINE s == txn[t].start_ts
<1>1. s \in Nat
  BY DEF TxnInv, TypeOK, TxnObject
<1>2. PICK w : IsRowWalk(w, r, s, t) /\ Get(t, r) = w[head[r]]
  BY ReadWalk
<1> HIDE DEF s
<1>3. \A id \in 0 .. MaxVersion :
         (id # 0 => Stamped(r, id) /\ (ver[r][id].end_ts = 0 \/ ver[r][id].end_ts > s))
         => ReadsAt(r, s, id, w[id])
  BY <1>1, <1>2, ChainRead DEF SnapshotInv
<1>4. \A id \in 0 .. MaxVersion : \A x : ReadsAt(r, s, id, x) /\ NewestIs(r, id)
                                         => ReadsAt(r, s, MaxVersion, x)
  BY DEF ReadsAt, NewestIs, Seen
<1>5. RowChain(r) /\ head[r] \in 0 .. MaxVersion
  BY Chain, ChainTypes DEF TxnInv, LifetimeInv
<1>6. CASE head[r] = 0 \/ Stamped(r, head[r])
  <2>1. NewestIs(r, head[r]) /\ (head[r] # 0 => ver[r][head[r]].end_ts = 0)
    BY <1>5, <1>6 DEF RowChain
  <2> QED BY <1>2, <1>3, <1>4, <1>5, <1>6, <2>1 DEF s
<1>7. CASE head[r] # 0 /\ ~Stamped(r, head[r])
  <2>1. PICK h, p : h = head[r] /\ p = ver[r][h].prev_id
    OBVIOUS
  <2>2. /\ h \in VersionIds /\ Provisional(r, h) /\ Exists(r, h) /\ ver[r][h].start_ts = 0
        /\ NewestIs(r, p) /\ h \in 0 .. MaxVersion
        /\ p # 0 => \/ ver[r][p].end_ts = 0
                    \/ /\ meta[ver[r][h].created_by].state = "Committing"
                       /\ ver[r][p].end_ts = meta[ver[r][h].created_by].commit_ts
    BY <1>5, <1>7, <2>1, Vid DEF RowChain, Provisional
  <2>3. /\ ver[r][h].created_by \in TxnIds /\ ver[r][h].created_by # t /\ p \in 0 .. MaxVersion
        /\ meta[ver[r][h].created_by].state \notin {"NotFound", "Committed"}
    BY <1>7, <2>1, <2>2, ChainTypes DEF TxnInv, ProtocolInv, VersionInv
  <2>4. ~Stops(r, s, t, h)
    BY <1>7, <2>1, <2>2, <2>3 DEF Stops, is_provisional, Exists
  <2>5. w[h] = w[p]
    BY <1>2, <2>1, <2>2, <2>4 DEF IsRowWalk
  <2>6. p # 0 => Stamped(r, p) /\ (ver[r][p].end_ts = 0 \/ ver[r][p].end_ts > s)
    BY <2>2, <2>3, IntentLater DEF NewestIs, SnapshotInv, s
  <2>7. ReadsAt(r, s, p, w[p])
    BY <1>3, <2>3, <2>6
  <2> QED BY <1>2, <1>4, <2>1, <2>2, <2>3, <2>5, <2>7 DEF s
<1> QED BY <1>6, <1>7

\* A transaction reads back what it wrote.
LEMMA OwnRead ==
    ASSUME TxnInv, SnapshotInv, NEW t \in TxnIds, NEW r \in Rows, head[r] # 0,
           Provisional(r, head[r]), ver[r][head[r]].created_by = t
    PROVE  Get(t, r) = ver[r][head[r]].val
<1> DEFINE s == txn[t].start_ts
<1>1. PICK w : IsRowWalk(w, r, s, t) /\ Get(t, r) = w[head[r]]
  BY ReadWalk
<1>2. head[r] \in 0 .. MaxVersion
  BY ChainTypes DEF TxnInv
<1>3. Stops(r, s, t, head[r]) /\ Answer(r, t, head[r]) = ver[r][head[r]].val
  BY DEF Stops, Answer, Provisional, Exists, is_provisional
<1> QED BY <1>1, <1>2, <1>3 DEF IsRowWalk

-----------------------------------------------------------------------------
\* Refinement: the committed writes.

\* A version that counts as committed, and the write it stands for.
Effective(r, v) == Exists(r, v) /\ EffectiveTs(ver[r][v]) # 0
WriteOf(r, v) == [row |-> r, ts |-> EffectiveTs(ver[r][v]), val |-> ver[r][v].val]

\* The committed writes are the entries of these versions.
LEMMA Entries ==
    \A e : e \in CommittedWrites <=> \E r \in Rows, v \in VersionIds : Effective(r, v) /\ e = WriteOf(r, v)
<1> DEFINE W(r) == {x \in VersionIds : ver[r][x] # NoVersion /\ EffectiveTs(ver[r][x]) # 0}
           S(r) == {[row |-> r, ts |-> EffectiveTs(ver[r][v]), val |-> ver[r][v].val] : v \in W(r)}
<1>1. CommittedWrites = UNION {S(r) : r \in Rows}
  BY DEF CommittedWrites
<1>2. \A r, e : e \in S(r) <=> \E v \in VersionIds : Effective(r, v) /\ e = WriteOf(r, v)
  BY DEF Effective, WriteOf, Exists
<1> HIDE DEF S
<1>3. \A e : e \in CommittedWrites <=> \E r \in Rows : e \in S(r)
  BY <1>1
<1>4. ASSUME NEW e, e \in CommittedWrites
      PROVE  \E r \in Rows, v \in VersionIds : Effective(r, v) /\ e = WriteOf(r, v)
  <2>1. PICK r \in Rows : e \in S(r)
    BY <1>3, <1>4
  <2>2. PICK v \in VersionIds : Effective(r, v) /\ e = WriteOf(r, v)
    BY <1>2, <2>1
  <2> QED BY <2>2
<1>5. ASSUME NEW r \in Rows, NEW v \in VersionIds, Effective(r, v)
      PROVE  WriteOf(r, v) \in CommittedWrites
  <2>1. WriteOf(r, v) \in S(r)
    BY <1>2, <1>5
  <2> QED BY <1>3, <2>1
<1> QED BY <1>4, <1>5

\* A stamped version counts, a provisional one only from its owner's intent on.
LEMMA Counts ==
    ASSUME TxnInv, NEW r \in Rows, NEW v \in VersionIds, Exists(r, v)
    PROVE  /\ Stamped(r, v) => Effective(r, v) /\ EffectiveTs(ver[r][v]) = ver[r][v].start_ts
           /\ Provisional(r, v) /\ meta[ver[r][v].created_by].state = "Committing" =>
                 /\ Effective(r, v)
                 /\ EffectiveTs(ver[r][v]) = meta[ver[r][v].created_by].commit_ts
           /\ Provisional(r, v) /\ meta[ver[r][v].created_by].state # "Committing" => ~Effective(r, v)
<1>1. Stamped(r, v) => Effective(r, v) /\ EffectiveTs(ver[r][v]) = ver[r][v].start_ts
  BY DEF Stamped, Effective, EffectiveTs, is_provisional
<1>2. Provisional(r, v) /\ meta[ver[r][v].created_by].state # "Committing" => ~Effective(r, v)
  BY DEF Provisional, Effective, EffectiveTs, is_provisional
<1>3. ASSUME Provisional(r, v), meta[ver[r][v].created_by].state = "Committing"
      PROVE  Effective(r, v) /\ EffectiveTs(ver[r][v]) = meta[ver[r][v].created_by].commit_ts
  <2>1. EffectiveTs(ver[r][v]) = meta[ver[r][v].created_by].commit_ts
    BY <1>3 DEF Provisional, EffectiveTs, is_provisional
  <2>2. ver[r][v].created_by \in TxnIds
    BY ChainTypes DEF TxnInv
  <2>3. meta[ver[r][v].created_by].commit_ts >= 1
    BY <1>3, <2>2 DEF TxnInv, ProtocolInv, ListInv
  <2>4. meta[ver[r][v].created_by].commit_ts # 0
    BY <2>3, SMT
  <2> QED BY <2>1, <2>4 DEF Effective
<1> QED BY <1>1, <1>2, <1>3

\* A snapshot includes the entries of the versions that were committed before it.
LEMMA IncludedEntries ==
    ASSUME TxnInv, LaterInv, NEW t \in TxnIds, txn[t].st = "open", NEW r \in Rows
    PROVE  \A e : e \in SI!Included(CommittedWrites, r, txn[t].start_ts) <=>
              \E v \in VersionIds : Seen(r, v, txn[t].start_ts) /\ e = WriteOf(r, v)
<1>1. PICK s : s = txn[t].start_ts
  OBVIOUS
<1>2. ASSUME NEW v \in VersionIds
      PROVE  Effective(r, v) /\ EffectiveTs(ver[r][v]) <= s <=> Seen(r, v, s)
  <2>1. CASE ~Exists(r, v)
    BY <2>1 DEF Effective, Seen, Stamped
  <2>2. CASE Stamped(r, v)
    <3>1. Exists(r, v)
      BY <2>2 DEF Stamped
    <3> QED BY <2>2, <3>1, Counts DEF Seen
  <2>3. CASE Provisional(r, v)
    <3>1. Exists(r, v) /\ ~Seen(r, v, s)
      BY <2>3 DEF Provisional, Seen, Stamped
    <3>2. CASE meta[ver[r][v].created_by].state # "Committing"
      BY <2>3, <3>1, <3>2, Counts
    <3>3. CASE meta[ver[r][v].created_by].state = "Committing"
      <4>1. PICK c : c = meta[ver[r][v].created_by].commit_ts
        OBVIOUS
      <4>2. EffectiveTs(ver[r][v]) = c
        BY <2>3, <3>1, <3>3, <4>1, Counts
      <4>3. ver[r][v].created_by \in TxnIds
        BY <3>1, ChainTypes DEF TxnInv
      <4>4. c > s
        BY <1>1, <3>3, <4>1, <4>3, IntentLater
      <4>5. c \in Nat /\ s \in Nat
        BY <1>1, <4>1, <4>3, ChainTypes DEF TxnInv, TypeOK, TxnObject
      <4>6. ~(c <= s)
        BY <4>4, <4>5, SMT
      <4> QED BY <3>1, <4>2, <4>6
    <3> QED BY <3>2, <3>3
  <2> QED BY <2>1, <2>2, <2>3 DEF Stamped, Provisional
<1>3. \A q, v : WriteOf(q, v).row = q /\ WriteOf(q, v).ts = EffectiveTs(ver[q][v])
  BY DEF WriteOf
<1>4. \A e : e \in SI!Included(CommittedWrites, r, s) <=>
             e \in CommittedWrites /\ e.row = r /\ e.ts <= s
  BY DEF SI!Included
<1>5. ASSUME NEW e, e \in SI!Included(CommittedWrites, r, s)
      PROVE  \E v \in VersionIds : Seen(r, v, s) /\ e = WriteOf(r, v)
  <2>1. PICK q \in Rows, v \in VersionIds : Effective(q, v) /\ e = WriteOf(q, v)
    BY <1>4, <1>5, Entries
  <2>2. q = r /\ EffectiveTs(ver[q][v]) <= s
    BY <1>3, <1>4, <1>5, <2>1
  <2> QED BY <1>2, <2>1, <2>2
<1>6. ASSUME NEW v \in VersionIds, Seen(r, v, s)
      PROVE  WriteOf(r, v) \in SI!Included(CommittedWrites, r, s)
  <2>1. Effective(r, v) /\ EffectiveTs(ver[r][v]) <= s
    BY <1>2, <1>6
  <2>2. WriteOf(r, v) \in CommittedWrites
    BY <2>1, Entries
  <2> QED BY <1>3, <1>4, <2>1, <2>2, ZenonT(30)
<1> QED BY <1>1, <1>5, <1>6

\* A transaction in progress reads the rows that it has not written as of its snapshot.
LEMMA SnapshotRead ==
    ASSUME TxnInv, SnapshotInv, NEW t \in TxnIds, InProgress(t), NEW r \in Rows,
           \A v \in VersionIds : ~Lists(txn[t].written, r, v)
    PROVE  Get(t, r) = SI!AsOf(CommittedWrites, r, txn[t].start_ts)
<1>1. txn[t].st = "open" /\ meta[t].state = "Open"
  BY DEF InProgress
<1>2. ASSUME head[r] # 0, ~Stamped(r, head[r]) PROVE ver[r][head[r]].created_by # t
  <2>1. head[r] \in VersionIds /\ Exists(r, head[r])
    BY <1>2, ChainTypes, Vid DEF TxnInv, ProtocolInv, HeadInv
  <2>2. ver[r][head[r]].created_by = t => op.pc = "setHead" /\ op.r = r
    <3>1. PICK h : h = head[r]
      OBVIOUS
    <3>2. ListInv /\ h \in VersionIds /\ ~Lists(txn[t].written, r, h) /\ Exists(r, h)
      BY <2>1, <3>1 DEF TxnInv, ProtocolInv
    <3>3. Exists(r, h) /\ ver[r][h].created_by = t =>
             Lists(txn[t].written, r, h) \/ (op.pc = "setHead" /\ op.r = r)
      BY <1>1, <3>2, SMT DEF ListInv
    <3> QED BY <3>1, <3>2, <3>3
  <2>3. op.pc = "setHead" /\ op.r = r => meta[ver[r][head[r]].created_by].state = "Aborted"
    BY <1>2 DEF SnapshotInv, PendingInv, At
  <2> QED BY <1>1, <2>2, <2>3
<1>3. PICK s : s = txn[t].start_ts
  OBVIOUS
<1>4. ReadsAt(r, s, MaxVersion, Get(t, r))
  BY <1>1, <1>2, <1>3, OtherRead
<1> DEFINE E == SI!Included(CommittedWrites, r, s)
<1>5. \A e : e \in E <=> \E v \in VersionIds : Seen(r, v, s) /\ e = WriteOf(r, v)
  BY <1>1, <1>3, IncludedEntries DEF SnapshotInv
<1>6. SI!AsOf(CommittedWrites, r, s) =
         IF E = {} THEN NoRow ELSE (CHOOSE e \in E : \A f \in E : f.ts <= e.ts).val
  BY DEF SI!AsOf
<1> HIDE DEF E
<1>7. \A u \in VersionIds : u <= MaxVersion
  BY Ids, BoundsAssumption, SMT
<1>8. CASE Get(t, r) = NoRow /\ \A u \in VersionIds : ~Seen(r, u, s)
  <2>1. E = {}
    BY <1>5, <1>8
  <2> QED BY <1>3, <1>6, <1>8, <2>1
<1>9. CASE \E v \in VersionIds : /\ Seen(r, v, s) /\ Get(t, r) = ver[r][v].val
                                 /\ \A u \in VersionIds : Seen(r, u, s) => u <= v
  <2>1. PICK v \in VersionIds : /\ Seen(r, v, s) /\ Get(t, r) = ver[r][v].val
                                /\ \A u \in VersionIds : Seen(r, u, s) => u <= v
    BY <1>9
  <2>2. \A u \in VersionIds : Seen(r, u, s) =>
           WriteOf(r, u).ts = ver[r][u].start_ts /\ ver[r][u].start_ts \in Nat
    <3> SUFFICES ASSUME NEW u \in VersionIds, Seen(r, u, s)
                 PROVE  WriteOf(r, u).ts = ver[r][u].start_ts /\ ver[r][u].start_ts \in Nat
      OBVIOUS
    <3>1. Stamped(r, u) /\ Exists(r, u)
      BY DEF Seen, Stamped
    <3>2. EffectiveTs(ver[r][u]) = ver[r][u].start_ts
      BY <3>1, Counts
    <3>3. ver[r][u].start_ts \in Nat
      BY <3>1, ChainTypes DEF TxnInv
    <3> QED BY <3>2, <3>3 DEF WriteOf
  <2>3. \A u \in VersionIds : Seen(r, u, s) => u = v \/ ver[r][u].start_ts < ver[r][v].start_ts
    <3> SUFFICES ASSUME NEW u \in VersionIds, Seen(r, u, s), u # v
                 PROVE  ver[r][u].start_ts < ver[r][v].start_ts
      OBVIOUS
    <3>1. u < v
      <4>1. u <= v
        BY <2>1
      <4> QED BY <4>1, Ids, SMT
    <3> QED BY <2>1, <3>1 DEF TxnInv, LifetimeInv, LifetimesDisjoint, Seen, Stamped, Exists,
                            is_provisional
  <2>4. WriteOf(r, v) \in E
    BY <1>5, <2>1
  <2>5. \A f \in E : f.ts <= WriteOf(r, v).ts
    <3> SUFFICES ASSUME NEW f \in E PROVE f.ts <= WriteOf(r, v).ts
      OBVIOUS
    <3>1. PICK u \in VersionIds : Seen(r, u, s) /\ f = WriteOf(r, u)
      BY <1>5
    <3>2. /\ f.ts = ver[r][u].start_ts /\ WriteOf(r, v).ts = ver[r][v].start_ts
          /\ ver[r][u].start_ts \in Nat /\ ver[r][v].start_ts \in Nat
          /\ u = v \/ ver[r][u].start_ts < ver[r][v].start_ts
      BY <2>1, <2>2, <2>3, <3>1
    <3> QED BY <3>2, SMT
  <2>6. \A e \in E : (\A f \in E : f.ts <= e.ts) => e = WriteOf(r, v)
    <3> SUFFICES ASSUME NEW e \in E, \A f \in E : f.ts <= e.ts PROVE e = WriteOf(r, v)
      OBVIOUS
    <3>1. PICK u \in VersionIds : Seen(r, u, s) /\ e = WriteOf(r, u)
      BY <1>5
    <3>2. /\ ver[r][v].start_ts <= ver[r][u].start_ts
          /\ ver[r][u].start_ts \in Nat /\ ver[r][v].start_ts \in Nat
          /\ u = v \/ ver[r][u].start_ts < ver[r][v].start_ts
      BY <2>1, <2>2, <2>3, <2>4, <3>1
    <3>3. u = v
      BY <3>2, SMT
    <3> QED BY <3>1, <3>3
  <2>7. (CHOOSE e \in E : \A f \in E : f.ts <= e.ts) = WriteOf(r, v)
    BY <2>4, <2>5, <2>6
  <2>8. WriteOf(r, v).val = ver[r][v].val
    BY DEF WriteOf
  <2> QED BY <1>3, <1>6, <2>1, <2>4, <2>7, <2>8
<1> QED BY <1>4, <1>7, <1>8, <1>9 DEF ReadsAt

-----------------------------------------------------------------------------
\* Refinement: what each transaction sees.

\* The transaction has written the row.
Wrote(t, r) == \E v \in VersionIds : Lists(txn[t].written, r, v)

\* How the abstract specification sees a transaction.
Looks(t) ==
    /\ t \in Running <=> InProgress(t)
    /\ InProgress(t) => Snap[t] = txn[t].start_ts
    /\ InProgress(t) => \A r : r \in WriteSet[t] <=> Wrote(t, r)
    /\ InProgress(t) => View[t] = [r \in Rows |-> Get(t, r)]
    /\ ~InProgress(t) => Snap[t] = 0 /\ WriteSet[t] = {} /\ View[t] = SI!Nothing

\* Abstract transactions are those in progress; they wrote the rows they list.
LEMMA Abstract == ASSUME TypeOK, NEW t \in TxnIds PROVE Looks(t)
<1>1. t \in Running <=> InProgress(t)
  BY DEF Running, InProgress
<1>2. /\ InProgress(t) => Snap[t] = txn[t].start_ts /\ View[t] = [r \in Rows |-> Get(t, r)]
      /\ ~InProgress(t) => Snap[t] = 0 /\ WriteSet[t] = {} /\ View[t] = SI!Nothing
  BY <1>1 DEF Snap, WriteSet, View, SI!Nothing
<1>3. \A w \in Seq(TxnWrite) : \A r :
         r \in {w[i].row : i \in 1 .. Len(w)} <=> \E v \in VersionIds : Lists(w, r, v)
  <2> SUFFICES ASSUME NEW w \in Seq(TxnWrite), NEW r
               PROVE  r \in {w[i].row : i \in 1 .. Len(w)} <=> \E v \in VersionIds : Lists(w, r, v)
    OBVIOUS
  <2>1. \A i \in 1 .. Len(w) : w[i].vid \in VersionIds
    <3>1. \A i \in 1 .. Len(w) : w[i] \in TxnWrite
      BY SMT
    <3>2. \A x \in TxnWrite : x.vid \in VersionIds
      BY DEF TxnWrite
    <3> QED BY <3>1, <3>2
  <2> QED BY <2>1 DEF Lists
<1>4. txn[t].written \in Seq(TxnWrite)
  BY DEF TypeOK, TxnObject
<1>5. InProgress(t) => \A r : r \in WriteSet[t] <=> Wrote(t, r)
  BY <1>1, <1>3, <1>4 DEF WriteSet, Wrote
<1> QED BY <1>1, <1>2, <1>5 DEF Looks

\* The same after a step.
LEMMA AbstractNext == TypeOK' => \A t \in TxnIds : Looks(t)'
<1> DEFINE R == \A t \in TxnIds : Looks(t)
<1>1. TypeOK => R
  BY Abstract
<1> HIDE DEF R
<1>2. TypeOK' => R'
  BY <1>1, PTL
<1> QED BY <1>2 DEF R

\* What a transaction in progress reads.
LEMMA Reads ==
    TxnInv /\ SnapshotInv =>
        \A t \in TxnIds, r \in Rows : InProgress(t) =>
            Get(t, r) = IF Wrote(t, r) THEN ver[r][head[r]].val
                        ELSE SI!AsOf(CommittedWrites, r, txn[t].start_ts)
<1> SUFFICES ASSUME TxnInv, SnapshotInv, NEW t \in TxnIds, NEW r \in Rows, InProgress(t)
             PROVE  Get(t, r) = IF Wrote(t, r) THEN ver[r][head[r]].val
                                ELSE SI!AsOf(CommittedWrites, r, txn[t].start_ts)
  OBVIOUS
<1>1. CASE Wrote(t, r)
  <2>1. PICK v \in VersionIds : Lists(txn[t].written, r, v)
    BY <1>1 DEF Wrote
  <2>2. head[r] = v /\ Provisional(r, v) /\ ver[r][v].created_by = t
    <3>1. HoldInv
      BY DEF SnapshotInv
    <3>2. Holds(t, r, v) /\ Provisional(r, v) /\ ver[r][v].created_by = t
      BY <2>1, <3>1, Held
    <3> QED BY <3>2 DEF Holds
  <2>3. v # 0
    BY Ids, SMT
  <2> QED BY <1>1, <2>2, <2>3, OwnRead
<1>2. CASE ~Wrote(t, r)
  BY <1>2, SnapshotRead DEF Wrote
<1> QED BY <1>1, <1>2

\* The same after a step.
LEMMA ReadsNext ==
    (TxnInv /\ SnapshotInv)' =>
        (\A t \in TxnIds, r \in Rows : InProgress(t) =>
            Get(t, r) = IF Wrote(t, r) THEN ver[r][head[r]].val
                        ELSE SI!AsOf(CommittedWrites, r, txn[t].start_ts))'
<1> DEFINE P == TxnInv /\ SnapshotInv
           Q == \A t \in TxnIds, r \in Rows : InProgress(t) =>
                   Get(t, r) = IF Wrote(t, r) THEN ver[r][head[r]].val
                               ELSE SI!AsOf(CommittedWrites, r, txn[t].start_ts)
<1>1. P => Q
  BY Reads
<1> HIDE DEF P, Q
<1>2. P' => Q'
  BY <1>1, PTL
<1> QED BY <1>2 DEF P, Q

\* The step leaves the transaction alone: it goes on with the same snapshot and
\* writes, or was not and is not in progress.
LeavesTxn(t) ==
    /\ InProgress(t)' <=> InProgress(t)
    /\ InProgress(t) =>
          /\ txn'[t].written = txn[t].written /\ txn'[t].start_ts = txn[t].start_ts
          /\ \A r \in Rows, v \in VersionIds :
                Lists(txn[t].written, r, v) => ver'[r][v].val = ver[r][v].val

\* It adds no committed write that the transaction's snapshot includes.
LeavesSnapshot(t) ==
    InProgress(t) => \A r \in Rows : SI!Included(CommittedWrites', r, txn[t].start_ts) =
                                     SI!Included(CommittedWrites, r, txn[t].start_ts)

\* Reads of a row that a transaction left alone has written, or not, stay the same.
LEMMA SameRead ==
    ASSUME TxnInv, SnapshotInv, TxnInv', SnapshotInv', NEW t \in TxnIds, InProgress(t),
           InProgress(t)', LeavesSnapshot(t), txn'[t].start_ts = txn[t].start_ts, NEW r \in Rows,
           Wrote(t, r)' <=> Wrote(t, r),
           Wrote(t, r) => ver'[r][head'[r]].val = ver[r][head[r]].val
    PROVE  Get(t, r)' = Get(t, r)
<1>1. Get(t, r) = IF Wrote(t, r) THEN ver[r][head[r]].val
                  ELSE SI!AsOf(CommittedWrites, r, txn[t].start_ts)
  BY Reads
<1>2. Get(t, r)' = IF Wrote(t, r)' THEN ver'[r][head'[r]].val
                   ELSE SI!AsOf(CommittedWrites', r, txn'[t].start_ts)
  <2>1. (TxnInv /\ SnapshotInv)'
    OBVIOUS
  <2> QED BY <2>1, ReadsNext
<1>3. SI!AsOf(CommittedWrites', r, txn[t].start_ts) = SI!AsOf(CommittedWrites, r, txn[t].start_ts)
  <2> DEFINE G(E) == IF E = {} THEN NoRow ELSE (CHOOSE e \in E : \A f \in E : f.ts <= e.ts).val
  <2>1. /\ SI!AsOf(CommittedWrites', r, txn[t].start_ts) =
              G(SI!Included(CommittedWrites', r, txn[t].start_ts))
        /\ SI!AsOf(CommittedWrites, r, txn[t].start_ts) =
              G(SI!Included(CommittedWrites, r, txn[t].start_ts))
    BY DEF SI!AsOf
  <2>2. SI!Included(CommittedWrites', r, txn[t].start_ts) =
        SI!Included(CommittedWrites, r, txn[t].start_ts)
    BY DEF LeavesSnapshot
  <2> HIDE DEF G
  <2> QED BY <2>1, <2>2
<1>4. CASE Wrote(t, r)
  BY <1>1, <1>2, <1>4
<1>5. CASE ~Wrote(t, r)
  BY <1>1, <1>2, <1>3, <1>5
<1> QED BY <1>4, <1>5

\* What a transaction in progress has written is at the head, before and after.
LEMMA HeldTwice ==
    ASSUME HoldInv, HoldInv', NEW t \in TxnIds, InProgress(t), InProgress(t)', LeavesTxn(t),
           NEW r \in Rows
    PROVE  /\ Wrote(t, r)' <=> Wrote(t, r)
           /\ Wrote(t, r) => ver'[r][head'[r]].val = ver[r][head[r]].val
<1>1. txn'[t].written = txn[t].written
  BY DEF LeavesTxn
<1>2. \A v \in VersionIds : Lists(txn[t].written, r, v)' <=> Lists(txn[t].written, r, v)
  BY <1>1 DEF Lists
<1>3. ASSUME NEW v \in VersionIds, Lists(txn[t].written, r, v)
      PROVE  ver'[r][head'[r]].val = ver[r][head[r]].val
  <2>1. Holds(t, r, v) /\ Holds(t, r, v)'
    BY <1>2, <1>3 DEF HoldInv
  <2>2. head[r] = v /\ head'[r] = v
    BY <2>1 DEF Holds
  <2> QED BY <1>3, <2>2 DEF LeavesTxn
<1> QED BY <1>2, <1>3 DEF Wrote

\* A transaction that a step leaves alone looks the same.
LEMMA Stays ==
    ASSUME TxnInv, SnapshotInv, TxnInv', SnapshotInv', NEW t \in TxnIds, LeavesTxn(t),
           LeavesSnapshot(t)
    PROVE  Snap'[t] = Snap[t] /\ WriteSet'[t] = WriteSet[t] /\ View'[t] = View[t]
<1>1. TypeOK /\ TypeOK' /\ HoldInv /\ HoldInv'
  BY DEF TxnInv, SnapshotInv
<1>2. CASE ~InProgress(t)
  <2>1. ~InProgress(t)'
    BY <1>2 DEF LeavesTxn
  <2>2. Snap[t] = 0 /\ WriteSet[t] = {} /\ View[t] = SI!Nothing
    BY <1>1, <1>2, Abstract DEF Looks
  <2>3. Snap'[t] = 0 /\ WriteSet'[t] = {} /\ View'[t] = SI!Nothing
    BY <1>1, <2>1, AbstractNext DEF Looks
  <2> QED BY <2>2, <2>3
<1>3. CASE InProgress(t)
  <2>1. InProgress(t)' /\ txn'[t].start_ts = txn[t].start_ts
    BY <1>3 DEF LeavesTxn
  <2>2. \A r \in Rows : /\ Wrote(t, r)' <=> Wrote(t, r)
                        /\ Wrote(t, r) => ver'[r][head'[r]].val = ver[r][head[r]].val
    BY <1>1, <1>3, <2>1, HeldTwice
  <2>3. \A r \in Rows : Get(t, r)' = Get(t, r)
    BY <1>3, <2>1, <2>2, SameRead
  <2>4. /\ Snap[t] = txn[t].start_ts /\ View[t] = [r \in Rows |-> Get(t, r)]
        /\ \A r : r \in WriteSet[t] <=> Wrote(t, r)
    BY <1>1, <1>3, Abstract DEF Looks
  <2>5. /\ Snap'[t] = txn'[t].start_ts /\ View'[t] = [r \in Rows |-> Get(t, r)']
        /\ \A r : r \in WriteSet'[t] <=> Wrote(t, r)'
    BY <1>1, <2>1, AbstractNext DEF Looks
  <2>6. \A r : Wrote(t, r)' <=> Wrote(t, r)
    BY <1>3 DEF Wrote, LeavesTxn, Lists
  <2>7. WriteSet'[t] = WriteSet[t]
    BY <2>4, <2>5, <2>6
  <2> QED BY <2>1, <2>3, <2>4, <2>5, <2>7
<1> QED BY <1>2, <1>3

-----------------------------------------------------------------------------
\* Refinement: steps that the abstract specification does not see.

\* The committed writes are entries after a step, too.
LEMMA EntriesNext ==
    \A e : e \in CommittedWrites' <=>
        \E r \in Rows, v \in VersionIds : Effective(r, v)' /\ e = WriteOf(r, v)'
<1> DEFINE R == \A e : e \in CommittedWrites <=>
                   \E r \in Rows, v \in VersionIds : Effective(r, v) /\ e = WriteOf(r, v)
<1>1. R
  BY Entries
<1> HIDE DEF R
<1>2. R'
  BY <1>1, PTL
<1> QED BY <1>2 DEF R

\* What counts as committed stays, version by version.
KeepsHistory ==
    \A r \in Rows, v \in VersionIds :
        /\ Effective(r, v)' <=> Effective(r, v)
        /\ Effective(r, v) => WriteOf(r, v)' = WriteOf(r, v)

\* Then so do the committed writes.
LEMMA HistoryFrame == ASSUME KeepsHistory PROVE CommittedWrites' = CommittedWrites
<1>1. ASSUME NEW e, e \in CommittedWrites PROVE e \in CommittedWrites'
  <2>1. PICK r \in Rows, v \in VersionIds : Effective(r, v) /\ e = WriteOf(r, v)
    BY <1>1, Entries
  <2>2. Effective(r, v)' /\ e = WriteOf(r, v)'
    BY <2>1 DEF KeepsHistory
  <2> QED BY <2>2, EntriesNext
<1>2. ASSUME NEW e, e \in CommittedWrites' PROVE e \in CommittedWrites
  <2>1. PICK r \in Rows, v \in VersionIds : Effective(r, v)' /\ e = WriteOf(r, v)'
    BY <1>2, EntriesNext
  <2>2. Effective(r, v) /\ e = WriteOf(r, v)
    BY <2>1 DEF KeepsHistory
  <2> QED BY <2>2, Entries
<1> QED BY <1>1, <1>2

\* Versions stay, and intents of transactions with provisional versions stay.
LEMMA RecordHistory ==
    ASSUME TxnInv, ver' = ver,
           \A r \in Rows, v \in VersionIds : Provisional(r, v) =>
               /\ meta'[ver[r][v].created_by].state = "Committing" <=>
                     meta[ver[r][v].created_by].state = "Committing"
               /\ meta[ver[r][v].created_by].state = "Committing" =>
                     meta'[ver[r][v].created_by].commit_ts = meta[ver[r][v].created_by].commit_ts
    PROVE  CommittedWrites' = CommittedWrites
<1>1. ASSUME NEW r \in Rows, NEW v \in VersionIds, Exists(r, v)
      PROVE  EffectiveTs(ver[r][v])' = EffectiveTs(ver[r][v])
  <2>1. CASE Provisional(r, v)
    BY <2>1 DEF EffectiveTs
  <2>2. CASE ~Provisional(r, v)
    BY <1>1, <2>2 DEF Provisional, EffectiveTs, is_provisional
  <2> QED BY <2>1, <2>2
<1>2. KeepsHistory
  BY <1>1 DEF KeepsHistory, Effective, WriteOf, Exists
<1> QED BY <1>2, HistoryFrame

\* Nothing committed, nobody's view changed.
LEMMA Invisible ==
    ASSUME TxnInv, SnapshotInv, TxnInv', SnapshotInv', CommittedWrites' = CommittedWrites,
           \A t \in TxnIds : LeavesTxn(t)
    PROVE  UNCHANGED SI!vars
<1>1. \A t \in TxnIds : LeavesSnapshot(t)
  BY DEF LeavesSnapshot
<1>2. \A t \in TxnIds : Snap'[t] = Snap[t] /\ WriteSet'[t] = WriteSet[t] /\ View'[t] = View[t]
  BY <1>1, Stays
<1>3. Snap' = Snap
  BY <1>2 DEF Snap
<1>4. WriteSet' = WriteSet
  BY <1>2 DEF WriteSet
<1>5. View' = View
  BY <1>2 DEF View
<1>6. \A t \in TxnIds : InProgress(t)' <=> InProgress(t)
  BY DEF LeavesTxn
<1>7. Running' = Running
  BY <1>6 DEF Running, InProgress
<1> QED BY <1>3, <1>4, <1>5, <1>7 DEF SI!vars

\* Control moves on, versions, records and transactions stay.
LEMMA ControlInvisible ==
    ASSUME TxnInv, SnapshotInv, TxnInv', SnapshotInv', UNCHANGED <<ver, meta, txn>>,
           \A t \in TxnIds : txn[t].st = "open" =>
               (op'.pc = "restore" /\ op'.t = t <=> op.pc = "restore" /\ op.t = t)
    PROVE  UNCHANGED SI!vars
<1>1. CommittedWrites' = CommittedWrites
  BY RecordHistory
<1>2. \A t \in TxnIds : LeavesTxn(t)
  BY DEF LeavesTxn, InProgress
<1> QED BY <1>1, <1>2, Invisible

\* Begin, Open, PersistOracles, a Write that goes on, a commit that passed its check.
LEMMA ForwardInvisible ==
    ASSUME TxnInv, SnapshotInv, TxnInv', SnapshotInv',
           \/ Begin \/ Open \/ PersistOracles
           \/ \E kind : \E t \in TxnIds, r \in Rows, val \in Vals :
                 op = Idle /\ WriteNew(t, r, kind, val)
           \/ \E t \in TxnIds : Commit(t) /\ CommitCheck(t)
    PROVE  UNCHANGED SI!vars
<1>1. UNCHANGED <<ver, meta, txn>>
  BY DEF Begin, Open, durable, PersistOracles, WriteNew, Commit
<1>2. op.pc # "restore"
  BY Points DEF Begin, Open, PersistOracles, Commit
<1>3. op'.pc # "restore"
  <2>1. CASE Begin \/ Open
    <3>1. [Idle EXCEPT !.t = next.txn] \in OpType /\ [Idle EXCEPT !.t = 1, !.by = "Open"] \in OpType
      BY IdleType, ZenonT(30) DEF OpType, TxnInv, TypeOK, Oracle
    <3>2. CASE Begin
      BY <3>1, <3>2, Points DEF Begin
    <3>3. CASE Open
      BY <3>1, <3>3, Points DEF Open
    <3> QED BY <2>1, <3>2, <3>3
  <2>2. CASE PersistOracles
    <3>1. op \in OpType /\ op.pc = "persist" /\ op.ret # "restore"
      BY <2>2 DEF PersistOracles, TxnInv, TypeOK, OpType, OpRet
    <3>2. (\E k : op' = [op EXCEPT !.k = k]) \/ op' = [op EXCEPT !.pc = op.ret, !.k = 0, !.ret = "none"]
      BY <2>2 DEF PersistOracles
    <3>3. op'.pc \in {op.pc, op.ret}
      BY <3>1, <3>2 DEF OpType
    <3> QED BY <3>1, <3>3
  <2>3. ASSUME NEW t \in TxnIds, NEW r \in Rows, NEW kind, NEW val \in Vals, WriteNew(t, r, kind, val)
        PROVE  op'.pc # "restore"
    <3>1. PrevId(r) \in 0 .. MaxVersion
      BY PrevIdExists DEF TxnInv
    <3>2. op'.pc = "persist"
      BY <2>3, <3>1, IdleType DEF WriteNew, Persist, OpType
    <3> QED BY <3>2
  <2>4. ASSUME NEW t \in TxnIds, Commit(t), CommitCheck(t)
        PROVE  op'.pc # "restore"
    <3>1. op' = [Idle EXCEPT !.pc = "intent", !.t = t, !.cts = next.ts]
      BY <2>4 DEF Commit
    <3>2. op'.pc = "intent"
      BY <3>1, IdleType DEF OpType
    <3> QED BY <3>2
  <2> QED BY <2>1, <2>2, <2>3, <2>4
<1> QED BY <1>1, <1>2, <1>3, ControlInvisible

\* RecoverTxns goes on while nobody has a transaction.
LEMMA RecoverTxnsInvisible ==
    ASSUME TxnInv, SnapshotInv, TxnInv', SnapshotInv', RecoverTxns
    PROVE  UNCHANGED SI!vars
<1>1. UNCHANGED <<ver, meta, txn>> /\ op.by = "Open"
  BY DEF RecoverTxns, durable, TxnInv, ProtocolInv, RecoverInv, At
<1>2. \A t \in TxnIds : txn[t].st = "none"
  BY <1>1 DEF TxnInv, ProtocolInv, RecoverInv
<1> QED BY <1>1, <1>2, ControlInvisible

\* RestoreHeads moves heads only.
LEMMA RestoreHeadsInvisible ==
    ASSUME TxnInv, SnapshotInv, TxnInv', SnapshotInv', RestoreHeads
    PROVE  UNCHANGED SI!vars
<1>1. UNCHANGED <<ver, meta, txn>> /\ op.pc = "restore" /\ op' = [op EXCEPT !.i = @ - 1] /\ op \in OpType
  BY DEF RestoreHeads, TxnInv, TypeOK
<1>2. op'.pc = op.pc /\ op'.t = op.t
  BY <1>1 DEF OpType
<1> QED BY <1>1, <1>2, ControlInvisible

\* The handler's transaction gets another record or ends; it was not in progress and
\* is not, or stays so.
LEMMA RecordInvisible ==
    ASSUME TxnInv, SnapshotInv, TxnInv', SnapshotInv', ver' = ver, NEW u \in TxnIds,
           \A t \in TxnIds : t # u => meta'[t] = meta[t] /\ txn'[t] = txn[t],
           \/ ~InProgress(u) /\ ~InProgress(u)'
           \/ InProgress(u) /\ InProgress(u)' /\ txn'[u] = txn[u],
           op.pc = "restore" => op.t = u, op'.pc # "restore",
           meta'[u].state # "Committing",
           \/ meta[u].state # "Committing"
           \/ \A r \in Rows, v \in VersionIds : Provisional(r, v) => ver[r][v].created_by # u
    PROVE  UNCHANGED SI!vars
<1>1. CommittedWrites' = CommittedWrites
  <2>1. \A r \in Rows, v \in VersionIds : Provisional(r, v) => ver[r][v].created_by \in TxnIds
    BY ChainTypes DEF TxnInv, Provisional
  <2> QED BY <2>1, RecordHistory
<1>2. ASSUME NEW t \in TxnIds PROVE LeavesTxn(t)
  <2>1. CASE t # u
    <3>1. InProgress(t)' <=> InProgress(t)
      BY <2>1 DEF InProgress
    <3> QED BY <2>1, <3>1 DEF LeavesTxn
  <2>2. CASE t = u
    <3>1. CASE ~InProgress(u) /\ ~InProgress(u)'
      BY <2>2, <3>1 DEF LeavesTxn
    <3>2. CASE InProgress(u) /\ InProgress(u)' /\ txn'[u] = txn[u]
      BY <2>2, <3>2 DEF LeavesTxn
    <3> QED BY <3>1, <3>2
  <2> QED BY <2>1, <2>2
<1> QED BY <1>1, <1>2, Invisible

\* The write list of an open transaction is recorded.
LEMMA WriteMetaInvisible ==
    ASSUME TxnInv, SnapshotInv, TxnInv', SnapshotInv', WriteMeta
    PROVE  UNCHANGED SI!vars
<1>0. PICK u : u = op.t
  OBVIOUS
<1>1. /\ u \in TxnIds /\ meta[u].state = "Open" /\ op' = Idle /\ op.pc # "restore"
      /\ UNCHANGED <<ver, txn>> /\ txn[u].st = "open"
      /\ meta' = [meta EXCEPT ![u] =
                     [state |-> "Open", commit_ts |-> 0, writes |-> txn[u].written]]
  BY <1>0 DEF WriteMeta, TxnInv, ProtocolInv, WriteInv, At
<1>2. (\A t \in TxnIds : t # u => meta'[t] = meta[t]) /\ meta'[u].state = "Open"
  BY <1>1 DEF TxnInv, TypeOK
<1>3. op'.pc # "restore"
  BY <1>1, Points
<1>4. InProgress(u) /\ InProgress(u)' /\ txn'[u] = txn[u]
  BY <1>1, <1>2, <1>3 DEF InProgress
<1> QED BY <1>1, <1>2, <1>3, <1>4, RecordInvisible

\* The Committed record comes when every version is stamped.
LEMMA PutCommittedInvisible ==
    ASSUME TxnInv, SnapshotInv, TxnInv', SnapshotInv', PutCommitted
    PROVE  UNCHANGED SI!vars
<1>0. PICK u : u = op.t
  OBVIOUS
<1>1. /\ op.pc = "apply" /\ u \in TxnIds /\ UNCHANGED <<ver, txn>>
      /\ meta' = [meta EXCEPT ![u] =
                     [state |-> "Committed", commit_ts |-> op.cts, writes |-> <<>>]]
      /\ meta[u].state = "Committing"
  BY <1>0 DEF PutCommitted, TxnInv, ProtocolInv, CommitInv
<1>2. (\A t \in TxnIds : t # u => meta'[t] = meta[t]) /\ meta'[u].state = "Committed"
  BY <1>1 DEF TxnInv, TypeOK
<1>3. op'.pc # "restore"
  BY CommittedNext DEF TxnInv
<1>4. \A r \in Rows, v \in VersionIds : Provisional(r, v) => ver[r][v].created_by # u
  <2>1. \A r \in Rows, v \in VersionIds : Provisional(r, v)' => meta'[ver'[r][v].created_by].state # "Committed"
    BY DEF TxnInv, ProtocolInv, VersionInv, Provisional
  <2> QED BY <1>1, <1>2, <2>1 DEF Provisional, Exists
<1>5. ~InProgress(u) /\ meta'[u].state # "Open"
  BY <1>1, <1>2 DEF InProgress
<1>6. ~InProgress(u)'
  BY <1>5 DEF InProgress
<1> QED BY <1>0, <1>1, <1>2, <1>3, <1>4, <1>5, <1>6, RecordInvisible

\* The end of a commit, and of an abort.
LEMMA EndInvisible ==
    ASSUME TxnInv, SnapshotInv, TxnInv', SnapshotInv', CommitDone \/ PutAborted
    PROVE  UNCHANGED SI!vars
<1>0. PICK u : u = op.t
  OBVIOUS
<1>1. CASE CommitDone
  <2>1. /\ u \in TxnIds /\ op' = Idle /\ UNCHANGED <<ver, meta>>
        /\ txn' = [txn EXCEPT ![u].st = "finished"] /\ meta[u].state = "Committed"
    BY <1>0, <1>1 DEF CommitDone, TxnInv, ProtocolInv, CommitInv, At
  <2>2. \A t \in TxnIds : t # u => txn'[t] = txn[t]
    BY <2>1 DEF TxnInv, TypeOK
  <2>3. ~InProgress(u) /\ meta'[u].state # "Open"
    BY <2>1 DEF InProgress
  <2>4. ~InProgress(u)' /\ op'.pc # "restore"
    BY <2>1, <2>3, Points DEF InProgress
  <2> QED BY <1>0, <2>1, <2>2, <2>3, <2>4, RecordInvisible
<1>2. CASE PutAborted
  <2>1. /\ u \in TxnIds /\ ver' = ver /\ op.pc = "restore" /\ meta[u].state = "Open"
        /\ meta' = [meta EXCEPT ![u] = [NoMeta EXCEPT !.state = "Aborted"]]
        /\ txn' = txn \/ txn' = [txn EXCEPT ![u].st = "finished"]
    BY <1>0, <1>2 DEF PutAborted, TxnInv, ProtocolInv, RestoreInv
  <2>2. [NoMeta EXCEPT !.state = "Aborted"].state = "Aborted"
    BY DEF NoMeta
  <2>3. /\ \A t \in TxnIds : t # u => meta'[t] = meta[t] /\ txn'[t] = txn[t]
        /\ meta'[u].state = "Aborted"
    BY <2>1, <2>2 DEF TxnInv, TypeOK
  <2>4. op' = Idle \/ op'.pc = "recover"
    BY <1>2, IdleType, ZenonT(30) DEF PutAborted, OpType
  <2>5. op'.pc # "restore"
    BY <2>4, Points
  <2>6. ~InProgress(u) /\ meta'[u].state # "Open"
    BY <1>0, <2>1, <2>3 DEF InProgress
  <2>7. ~InProgress(u)'
    BY <2>6 DEF InProgress
  <2> QED BY <1>0, <2>1, <2>3, <2>5, <2>6, <2>7, RecordInvisible
<1> QED BY <1>1, <1>2

\* The new version of an open transaction does not count yet.
LEMMA PutVersionValueInvisible ==
    ASSUME TxnInv, SnapshotInv, TxnInv', SnapshotInv', PutVersionValue
    PROVE  UNCHANGED SI!vars
<1> DEFINE rec == [start_ts |-> 0, end_ts |-> 0, prev_id |-> op.prev,
                   created_by |-> op.t, val |-> op.val]
<1>1. /\ op.pc = "putVersion" /\ op' = [op EXCEPT !.pc = "setHead"] /\ op \in OpType
      /\ ver' = [ver EXCEPT ![op.r][NewVid] = rec] /\ UNCHANGED <<head, meta, txn>>
      /\ ver \in [Rows -> [VersionIds -> VersionRecord \cup {NoVersion}]]
  BY DEF PutVersionValue, TxnInv, TypeOK
<1>2. /\ op.r \in Rows /\ NewVid \in VersionIds /\ \A r \in Rows : ~Exists(r, NewVid)
      /\ op.t \in TxnIds /\ meta[op.t].state = "Open"
  BY <1>1 DEF TxnInv, ProtocolInv, WriteInv, At
<1>3. /\ ver'[op.r][NewVid] = rec
      /\ \A r \in Rows, v \in VersionIds : r # op.r \/ v # NewVid => ver'[r][v] = ver[r][v]
  BY <1>1, <1>2
<1>4. rec.start_ts = 0 /\ rec.created_by = op.t
  OBVIOUS
<1> HIDE DEF rec
<1>0. PICK q, n : q = op.r /\ n = NewVid
  OBVIOUS
<1>5. ~Effective(q, n) /\ ~Effective(q, n)'
  <2>1. ~Effective(q, n)
    BY <1>0, <1>2 DEF Effective
  <2>2. ver'[q][n].start_ts = 0 /\ meta'[ver'[q][n].created_by].state # "Committing"
    BY <1>0, <1>1, <1>2, <1>3, <1>4
  <2>3. EffectiveTs(ver[q][n])' = 0
    BY <2>2 DEF EffectiveTs, is_provisional
  <2> QED BY <2>1, <2>3 DEF Effective
<1>6. ASSUME NEW r \in Rows, NEW v \in VersionIds
      PROVE  /\ Effective(r, v)' <=> Effective(r, v)
             /\ Effective(r, v) => WriteOf(r, v)' = WriteOf(r, v)
  <2>1. CASE r = q /\ v = n
    BY <1>5, <2>1
  <2>2. CASE r # q \/ v # n
    BY <1>0, <1>1, <1>3, <2>2 DEF Effective, Exists, EffectiveTs, WriteOf
  <2> QED BY <2>1, <2>2
<1>7. CommittedWrites' = CommittedWrites
  BY <1>6, HistoryFrame DEF KeepsHistory
<1>8. op'.pc = "setHead"
  BY <1>1 DEF OpType
<1>9. ASSUME NEW t \in TxnIds PROVE LeavesTxn(t)
  <2>1. InProgress(t)' <=> InProgress(t)
    BY <1>1, <1>8 DEF InProgress
  <2>2. ASSUME InProgress(t), NEW r \in Rows, NEW v \in VersionIds, Lists(txn[t].written, r, v)
        PROVE  ver'[r][v].val = ver[r][v].val
    <3>1. HoldInv
      BY DEF SnapshotInv
    <3>2. Exists(r, v)
      BY <2>2, <3>1, Held DEF Provisional
    <3> QED BY <1>2, <1>3, <3>2
  <2> QED BY <1>1, <2>1, <2>2 DEF LeavesTxn
<1> QED BY <1>7, <1>9, Invisible

\* Closing and stamping versions adds nothing to what counts since the intent.
LEMMA ApplyCommitWritesInvisible ==
    ASSUME TxnInv, SnapshotInv, TxnInv', SnapshotInv', ApplyCommitWrites
    PROVE  UNCHANGED SI!vars
<1>1. UNCHANGED <<head, meta, txn>> /\ op.pc = "apply"
  BY DEF ApplyCommitWrites
<1>2. op'.pc = "apply" /\ (ver' = ver \/ \E r, v, p : Applies(r, v, p))
  BY ApplyShape DEF TxnInv
<1>3. CASE ver' = ver
  BY <1>1, <1>2, <1>3, ControlInvisible
<1>4. CASE \E r, v, p : Applies(r, v, p)
  <2>1. PICK r, v, p : Applies(r, v, p)
    BY <1>4
  <2>2. PICK x \in VersionIds :
           /\ OnlyVersion(r, x) /\ Exists(r, x)
           /\ \/ Stamped(r, x) /\ ver'[r][x].start_ts = ver[r][x].start_ts
              \/ /\ Provisional(r, x) /\ meta[ver[r][x].created_by].state = "Committing"
                 /\ ver'[r][x].start_ts = meta[ver[r][x].created_by].commit_ts
                 /\ ver'[r][x].start_ts # 0
    <3>1. CASE Closes(r, v, p)
      BY <3>1 DEF Closes, Stamped
    <3>2. CASE Stamps(r, v, p)
      <4>1. op.cts # 0
        <5>1. op.cts >= 1
          BY <2>1 DEF Applies
        <5> QED BY <5>1, SMT
      <4>2. v \in VersionIds /\ Provisional(r, v) /\ Exists(r, v)
        BY <2>1 DEF Applies, Provisional
      <4> QED BY <2>1, <3>2, <4>1, <4>2 DEF Applies, Stamps
    <3> QED BY <2>1, <3>1, <3>2 DEF Applies
  <2>3. r \in Rows
    BY <2>1 DEF Applies
  <2>4. /\ Exists(r, x)' /\ ver'[r][x].val = ver[r][x].val /\ ver'[r][x].start_ts # 0
        /\ EffectiveTs(ver[r][x])' = EffectiveTs(ver[r][x])
    <3>1. Exists(r, x)' /\ ver'[r][x].val = ver[r][x].val
      BY <2>2, <2>3 DEF OnlyVersion
    <3>2. ver'[r][x].start_ts # 0
      BY <2>2 DEF Stamped
    <3>3. EffectiveTs(ver[r][x])' = ver'[r][x].start_ts
      BY <3>2 DEF EffectiveTs, is_provisional
    <3>4. EffectiveTs(ver[r][x]) = ver'[r][x].start_ts
      BY <2>2, <2>3, Counts
    <3> QED BY <3>1, <3>2, <3>3, <3>4
  <2>5. \A s \in Rows, y \in VersionIds : s # r \/ y # x => ver'[s][y] = ver[s][y]
    BY <2>2 DEF OnlyVersion
  <2>6. ASSUME NEW s \in Rows, NEW y \in VersionIds
        PROVE  /\ Effective(s, y)' <=> Effective(s, y)
               /\ Effective(s, y) => WriteOf(s, y)' = WriteOf(s, y)
    <3>1. CASE s = r /\ y = x
      BY <2>2, <2>4, <3>1 DEF Effective, WriteOf
    <3>2. CASE s # r \/ y # x
      BY <1>1, <2>5, <3>2 DEF Effective, Exists, EffectiveTs, WriteOf
    <3> QED BY <3>1, <3>2
  <2>7. CommittedWrites' = CommittedWrites
    BY <2>6, HistoryFrame DEF KeepsHistory
  <2>8. \A s \in Rows, y \in VersionIds : ver'[s][y].val = ver[s][y].val
    BY <2>4, <2>5
  <2>9. \A t \in TxnIds : LeavesTxn(t)
    BY <1>1, <1>2, <2>8 DEF LeavesTxn, InProgress
  <2> QED BY <2>7, <2>9, Invisible
<1> QED BY <1>2, <1>3, <1>4

-----------------------------------------------------------------------------
\* Refinement: steps that the abstract specification sees.

\* The transactions in T end; the others go on as before.
LEMMA EndsTxns ==
    ASSUME TxnInv, SnapshotInv, TxnInv', SnapshotInv', NEW T \in SUBSET TxnIds,
           \A t \in T : ~InProgress(t)',
           \A t \in TxnIds \ T : LeavesTxn(t) /\ LeavesSnapshot(t)
    PROVE  SI!End(T)
<1>1. TypeOK /\ TypeOK'
  BY DEF TxnInv
<1>2. \A t \in T : Snap'[t] = 0 /\ WriteSet'[t] = {} /\ View'[t] = SI!Nothing
  BY <1>1, AbstractNext DEF Looks
<1>3. \A t \in TxnIds \ T : Snap'[t] = Snap[t] /\ WriteSet'[t] = WriteSet[t] /\ View'[t] = View[t]
  BY Stays
<1>4. Snap' = [t \in TxnIds |-> IF t \in T THEN 0 ELSE Snap[t]]
  <2>1. Snap' = [t \in TxnIds |-> Snap'[t]]
    BY DEF Snap
  <2> QED BY <1>2, <1>3, <2>1
<1>5. WriteSet' = [t \in TxnIds |-> IF t \in T THEN {} ELSE WriteSet[t]]
  <2>1. WriteSet' = [t \in TxnIds |-> WriteSet'[t]]
    BY DEF WriteSet
  <2> QED BY <1>2, <1>3, <2>1
<1>6. View' = [t \in TxnIds |-> IF t \in T THEN SI!Nothing ELSE View[t]]
  <2>1. View' = [t \in TxnIds |-> View'[t]]
    BY DEF View
  <2> QED BY <1>2, <1>3, <2>1
<1>7. Running' = Running \ T
  <2>1. \A t \in TxnIds : t \in Running' <=> t \in Running /\ t \notin T
    <3>1. \A t \in TxnIds : (t \in Running <=> InProgress(t)) /\ (t \in Running' <=> InProgress(t)')
      BY <1>1, Abstract, AbstractNext DEF Looks
    <3> QED BY <3>1 DEF LeavesTxn
  <2>2. Running \subseteq TxnIds /\ Running' \subseteq TxnIds
    BY DEF Running
  <2> QED BY <2>1, <2>2
<1> QED BY <1>4, <1>5, <1>6, <1>7 DEF SI!End

\* A step that leaves versions and records alone leaves what is committed alone.
LEMMA SameSnapshots ==
    ASSUME TxnInv, UNCHANGED <<ver, meta>>
    PROVE  CommittedWrites' = CommittedWrites /\ \A t \in TxnIds : LeavesSnapshot(t)
<1>1. CommittedWrites' = CommittedWrites
  BY RecordHistory
<1> QED BY <1>1 DEF LeavesSnapshot

\* AbortTransaction, and a commit that lost, end the transaction as soon as they
\* begin to give its rows back.
LEMMA AbortsTxn ==
    ASSUME TxnInv, SnapshotInv, TxnInv', SnapshotInv', NEW t \in TxnIds, op = Idle,
           txn[t].st = "open", op' = Restoring(t, txn[t].written, "client"),
           UNCHANGED <<ver, head, meta, stored, next, txn>>
    PROVE  SI!Abort(t)
<1>1. op'.pc = "restore" /\ op'.t = t /\ op.pc = "idle"
  BY IdleType, Points, ZenonT(30) DEF Restoring, OpType
<1>2. InProgress(t)
  BY <1>1 DEF TxnInv, ProtocolInv, StateInv, InProgress, At
<1>3. ~InProgress(t)'
  BY <1>1 DEF InProgress
<1>4. \A u \in TxnIds \ {t} : LeavesTxn(u)
  BY <1>1 DEF LeavesTxn, InProgress
<1>5. CommittedWrites' = CommittedWrites /\ \A u \in TxnIds : LeavesSnapshot(u)
  BY SameSnapshots
<1>6. {t} \in SUBSET TxnIds
  OBVIOUS
<1>7. SI!End({t})
  BY <1>3, <1>4, <1>5, <1>6, EndsTxns
<1>8. t \in Running
  BY <1>2, Abstract DEF Looks, TxnInv
<1> QED BY <1>5, <1>7, <1>8 DEF SI!Abort

\* A crash ends every transaction.
LEMMA CrashEndsAll ==
    ASSUME TxnInv, SnapshotInv, TxnInv', SnapshotInv', Crash
    PROVE  SI!Crash \/ UNCHANGED SI!vars
<1>1. /\ UNCHANGED <<ver, meta>> /\ txn' = [t \in TxnIds |-> NoTxn]
  BY DEF Crash, durable
<1>2. NoTxn.st = "none"
  BY DEF NoTxn
<1>3. \A t \in TxnIds : ~InProgress(t)'
  BY <1>1, <1>2 DEF InProgress
<1>4. CommittedWrites' = CommittedWrites /\ \A u \in TxnIds : LeavesSnapshot(u)
  BY <1>1, SameSnapshots
<1>5. CASE Running = {}
  <2>1. \A t \in TxnIds : ~InProgress(t)
    BY <1>5, Abstract DEF Looks, TxnInv
  <2>2. \A t \in TxnIds : LeavesTxn(t)
    BY <1>3, <2>1 DEF LeavesTxn
  <2> QED BY <1>4, <2>2, Invisible
<1>6. CASE Running # {}
  <2>1. \A t \in TxnIds \ Running : LeavesTxn(t)
    BY <1>3, Abstract DEF LeavesTxn, Looks, TxnInv
  <2>2. Running \in SUBSET TxnIds
    BY DEF Running
  <2>3. PICK T : T = Running
    OBVIOUS
  <2>4. SI!End(T)
    BY <1>3, <1>4, <2>1, <2>2, <2>3, EndsTxns
  <2> QED BY <1>4, <1>6, <2>3, <2>4 DEF SI!Crash
<1> QED BY <1>5, <1>6

\* Begin: the transaction reads as of the last commit.
LEMMA BeginsTxn ==
    ASSUME TxnInv, SnapshotInv, TxnInv', SnapshotInv', BeginMeta
    PROVE  \E t \in TxnIds : SI!Begin(t)
<1>1. PICK t, s : t = op.t /\ s = LastCommit
  OBVIOUS
<1>2. /\ t \in TxnIds /\ op' = Idle /\ ver' = ver /\ op.pc = "beginMeta" /\ meta[t].state = "NotFound"
      /\ meta' = [meta EXCEPT ![t] = [NoMeta EXCEPT !.state = "Open"]]
      /\ txn' = [txn EXCEPT ![t] = [st |-> "open", start_ts |-> s, written |-> <<>>]]
  BY <1>1 DEF BeginMeta, TxnInv, ProtocolInv, BeginInv, At
<1>3. [NoMeta EXCEPT !.state = "Open"].state = "Open"
  BY DEF NoMeta
<1>4. /\ \A u \in TxnIds : u # t => meta'[u] = meta[u] /\ txn'[u] = txn[u]
      /\ meta'[t].state = "Open" /\ txn'[t].st = "open" /\ txn'[t].start_ts = s
      /\ txn'[t].written = <<>>
  BY <1>2, <1>3 DEF TxnInv, TypeOK
<1>5. op'.pc = "idle"
  BY <1>2, Points
<1>6. ~InProgress(t) /\ InProgress(t)'
  BY <1>2, <1>4, <1>5 DEF InProgress
<1>7. s \in 0 .. MaxTs
  <2>1. next.ts \in Nat /\ next.ts >= 1 /\ next.ts <= MaxTs + 1
    BY DEF TxnInv, TypeOK, Oracle, ProtocolInv, OracleInv, SnapshotInv, ClockInv
  <2> QED BY <1>1, <2>1, BoundsAssumption, SMT DEF LastCommit
<1>8. CommittedWrites' = CommittedWrites
  <2>1. \A r \in Rows, v \in VersionIds : Provisional(r, v) =>
           ver[r][v].created_by \in TxnIds /\ ver[r][v].created_by # t
    BY <1>2, ChainTypes DEF TxnInv, ProtocolInv, VersionInv, Provisional
  <2> QED BY <1>2, <1>4, <2>1, RecordHistory
<1>9. \A u \in TxnIds : LeavesSnapshot(u)
  BY <1>8 DEF LeavesSnapshot
<1>10. \A u \in TxnIds \ {t} : LeavesTxn(u)
  <2> SUFFICES ASSUME NEW u \in TxnIds, u # t PROVE LeavesTxn(u)
    OBVIOUS
  <2>1. InProgress(u)' <=> InProgress(u)
    BY <1>2, <1>4, <1>5 DEF InProgress
  <2> QED BY <1>2, <1>4, <2>1 DEF LeavesTxn
<1>11. \A u \in TxnIds \ {t} : Snap'[u] = Snap[u] /\ WriteSet'[u] = WriteSet[u] /\ View'[u] = View[u]
  BY <1>9, <1>10, Stays
<1>12. \A r : ~Wrote(t, r)'
  BY <1>4, NothingListed DEF Wrote, Lists
<1>13. \A r \in Rows : Get(t, r)' = SI!AsOf(CommittedWrites, r, s)
  <2>1. (TxnInv /\ SnapshotInv)'
    OBVIOUS
  <2> QED BY <1>2, <1>4, <1>6, <1>8, <1>12, <2>1, ReadsNext
<1>14. TypeOK /\ TypeOK'
  BY DEF TxnInv
<1>15. /\ Snap'[t] = s /\ View'[t] = [r \in Rows |-> SI!AsOf(CommittedWrites, r, s)]
       /\ \A r : r \notin WriteSet'[t]
  <2>1. Looks(t)'
    BY <1>2, <1>14, AbstractNext
  <2>2. /\ Snap'[t] = txn'[t].start_ts /\ View'[t] = [r \in Rows |-> Get(t, r)']
        /\ \A r : r \in WriteSet'[t] <=> Wrote(t, r)'
    BY <1>6, <2>1 DEF Looks
  <2> QED BY <1>4, <1>12, <1>13, <2>2
<1>16. WriteSet[t] = {} /\ t \notin Running
  BY <1>2, <1>6, <1>14, Abstract DEF Looks
<1>17. Snap' = [Snap EXCEPT ![t] = s]
  BY <1>2, <1>11, <1>15 DEF Snap
<1>18. View' = [View EXCEPT ![t] = [r \in Rows |-> SI!AsOf(CommittedWrites, r, s)]]
  BY <1>2, <1>11, <1>15 DEF View
<1>19. WriteSet' = WriteSet
  <2>1. WriteSet'[t] = WriteSet[t]
    BY <1>15, <1>16
  <2>2. \A u \in TxnIds : WriteSet'[u] = WriteSet[u]
    BY <1>11, <2>1
  <2> QED BY <2>2 DEF WriteSet
<1>20. Running' = Running \cup {t}
  <2>1. \A u \in TxnIds : (u \in Running <=> InProgress(u)) /\ (u \in Running' <=> InProgress(u)')
    BY <1>14, Abstract, AbstractNext DEF Looks
  <2>2. \A u \in TxnIds : u \in Running' <=> u \in Running \/ u = t
    BY <1>6, <1>10, <2>1 DEF LeavesTxn
  <2>3. Running \subseteq TxnIds /\ Running' \subseteq TxnIds
    BY DEF Running
  <2> QED BY <1>2, <2>2, <2>3
<1>21. SI!Begin(t)
  BY <1>7, <1>8, <1>16, <1>17, <1>18, <1>19, <1>20 DEF SI!Begin
<1> QED BY <1>2, <1>21

\* When no intent is on disk, the committed writes of a row are no newer than its
\* newest committed version.
LEMMA NothingNewer ==
    ASSUME TxnInv, NEW r \in Rows, NEW p, NewestIs(r, p), NEW s \in Nat,
           p # 0 => p \in VersionIds /\ ver[r][p].start_ts <= s,
           \A u \in TxnIds : meta[u].state # "Committing"
    PROVE  \A e \in CommittedWrites : e.row = r => e.ts <= s
<1> SUFFICES ASSUME NEW e \in CommittedWrites, e.row = r PROVE e.ts <= s
  OBVIOUS
<1>1. PICK q \in Rows, v \in VersionIds : Effective(q, v) /\ e = WriteOf(q, v)
  BY Entries
<1>2. q = r /\ e.ts = EffectiveTs(ver[q][v]) /\ Exists(q, v)
  BY <1>1 DEF WriteOf, Effective
<1>3. ver[q][v].created_by \in TxnIds
  BY <1>2, ChainTypes DEF TxnInv
<1>4. Stamped(q, v)
  BY <1>1, <1>2, <1>3, Counts DEF Stamped, Provisional
<1>5. e.ts = ver[r][v].start_ts
  BY <1>2, <1>4, Counts
<1>6. v <= p
  BY <1>2, <1>4 DEF NewestIs
<1>7. p # 0 /\ p \in VersionIds /\ Stamped(r, p)
  <2>1. p # 0
    BY <1>6, Ids, SMT
  <2> QED BY <2>1 DEF NewestIs
<1>8. ver[r][v].start_ts \in Nat /\ ver[r][p].start_ts \in Nat
  BY <1>2, <1>7, ChainTypes DEF TxnInv, Stamped
<1>9. v = p \/ ver[r][v].start_ts < ver[r][p].start_ts
  <2>1. v = p \/ v < p
    BY <1>6, <1>7, Ids, SMT
  <2> QED BY <1>2, <1>4, <1>7, <2>1 DEF TxnInv, LifetimeInv, LifetimesDisjoint, Stamped, Exists,
                                  is_provisional
<1> QED BY <1>5, <1>7, <1>8, <1>9, SMT

\* Outside a commit and recovery no intent is on disk.
LEMMA NoIntent ==
    ASSUME TxnInv, op.pc \in {"idle", "setHead", "intent"}
    PROVE  \A u \in TxnIds : meta[u].state # "Committing"
<1>1. op.by # "Open"
  BY DEF TxnInv, ProtocolInv, RecoverInv, At
<1> QED BY <1>1 DEF TxnInv, ProtocolInv, StateInv

\* A transaction in progress writes a row that nobody else holds and that carries no
\* commit from after its snapshot; its other reads stay.
LEMMA WritesRow ==
    ASSUME TxnInv, SnapshotInv, TxnInv', SnapshotInv', NEW t \in TxnIds, NEW r \in Rows, NEW val,
           CommittedWrites' = CommittedWrites, InProgress(t), InProgress(t)',
           txn'[t].start_ts = txn[t].start_ts,
           \A u \in TxnIds \ {t} : LeavesTxn(u),
           \A u \in TxnIds \ {t} : InProgress(u) => ~Wrote(u, r),
           \A e \in CommittedWrites : e.row = r => e.ts <= txn[t].start_ts,
           \A q : Wrote(t, q)' <=> Wrote(t, q) \/ q = r,
           ver'[r][head'[r]].val = val,
           \A q \in Rows : q # r /\ Wrote(t, q) => ver'[q][head'[q]].val = ver[q][head[q]].val
    PROVE  SI!Write(t, r, val)
<1>1. TypeOK /\ TypeOK'
  BY DEF TxnInv
<1>2. \A u \in TxnIds : LeavesSnapshot(u)
  BY DEF LeavesSnapshot
<1>3. \A u \in TxnIds \ {t} : Snap'[u] = Snap[u] /\ WriteSet'[u] = WriteSet[u] /\ View'[u] = View[u]
  BY <1>2, Stays
<1>4. \A u \in TxnIds : Looks(u) /\ Looks(u)'
  BY <1>1, Abstract, AbstractNext
<1>5. /\ Snap[t] = txn[t].start_ts /\ View[t] = [q \in Rows |-> Get(t, q)]
      /\ \A q : q \in WriteSet[t] <=> Wrote(t, q)
  BY <1>4 DEF Looks
<1>6. /\ Snap'[t] = txn'[t].start_ts /\ View'[t] = [q \in Rows |-> Get(t, q)']
      /\ \A q : q \in WriteSet'[t] <=> Wrote(t, q)'
  BY <1>4 DEF Looks
<1>7. Get(t, r)' = val
  <2>1. (TxnInv /\ SnapshotInv)'
    OBVIOUS
  <2>2. Wrote(t, r)'
    OBVIOUS
  <2> QED BY <2>1, <2>2, ReadsNext
<1>8. \A q \in Rows : q # r => Get(t, q)' = Get(t, q)
  <2> SUFFICES ASSUME NEW q \in Rows, q # r PROVE Get(t, q)' = Get(t, q)
    OBVIOUS
  <2>1. LeavesSnapshot(t) /\ (Wrote(t, q)' <=> Wrote(t, q))
    BY <1>2
  <2> QED BY <2>1, SameRead
<1>9. View'[t] = [View[t] EXCEPT ![r] = val]
  BY <1>5, <1>6, <1>7, <1>8
<1>10. View' = [View EXCEPT ![t][r] = val]
  <2>1. View' = [View EXCEPT ![t] = [View[t] EXCEPT ![r] = val]]
    BY <1>3, <1>9 DEF View
  <2> QED BY <2>1
<1>11. WriteSet'[t] = WriteSet[t] \cup {r}
  BY <1>5, <1>6
<1>12. WriteSet' = [WriteSet EXCEPT ![t] = @ \cup {r}]
  BY <1>3, <1>11 DEF WriteSet
<1>13. Snap' = Snap
  <2>1. \A u \in TxnIds : Snap'[u] = Snap[u]
    BY <1>3, <1>5, <1>6
  <2> QED BY <2>1 DEF Snap
<1>14. Running' = Running
  <2>1. \A u \in TxnIds : u \in Running' <=> u \in Running
    BY <1>4 DEF Looks, LeavesTxn
  <2>2. Running \subseteq TxnIds /\ Running' \subseteq TxnIds
    BY DEF Running
  <2> QED BY <2>1, <2>2
<1>15. t \in Running /\ \A u \in Running \ {t} : r \notin WriteSet[u]
  <2>1. Running \subseteq TxnIds
    BY DEF Running
  <2> QED BY <1>4, <2>1 DEF Looks
<1> QED BY <1>5, <1>10, <1>12, <1>13, <1>14, <1>15 DEF SI!Write

\* A second write of a row.
LEMMA RewritesRow ==
    ASSUME TxnInv, SnapshotInv, TxnInv', SnapshotInv', NEW t \in TxnIds, NEW r \in Rows, NEW kind,
           NEW val \in Vals, op = Idle, txn[t].st = "open", RewriteOwn(t, r, kind, val)
    PROVE  SI!Write(t, r, val)
<1>1. UNCHANGED <<head, meta, stored, next, txn, op>> /\ op.pc = "idle"
  BY Points DEF RewriteOwn
<1>2. PICK n : Rewrites(t, r, n, val)
  BY RewriteOwnShape DEF TxnInv
<1>3. /\ n \in VersionIds /\ Lists(txn[t].written, r, n) /\ ver'[r][n].val = val
      /\ \A q \in Rows, v \in VersionIds : q # r \/ v # n => ver'[q][v] = ver[q][v]
      /\ SameVersions
  BY <1>2 DEF Rewrites
<1>4. InProgress(t) /\ InProgress(t)'
  <2>1. InProgress(t)
    BY <1>1 DEF TxnInv, ProtocolInv, StateInv, InProgress, At
  <2> QED BY <1>1, <2>1 DEF InProgress
<1>5. HoldInv /\ TypeOK
  BY DEF SnapshotInv, TxnInv
<1>6. /\ Holds(t, r, n) /\ Provisional(r, n) /\ ver[r][n].created_by = t
      /\ NewestIs(r, ver[r][n].prev_id)
      /\ ver[r][n].prev_id # 0 => ver[r][n].prev_id \in VersionIds
  <2>1. InProgress(t) /\ Lists(txn[t].written, r, n) /\ HoldInv
    BY <1>3, <1>4, <1>5
  <2> QED BY <1>3, <2>1, Held, SMT
<1>7. head[r] = n /\ (ver[r][n].prev_id # 0 => ver[r][ver[r][n].prev_id].start_ts <= txn[t].start_ts)
  BY <1>6 DEF Holds
<1>8. \A u \in TxnIds : meta[u].state # "Committing"
  BY <1>1, NoIntent
<1>9. txn[t].start_ts \in Nat
  BY DEF TxnInv, TypeOK, TxnObject
<1>10. \A e \in CommittedWrites : e.row = r => e.ts <= txn[t].start_ts
  BY <1>6, <1>7, <1>8, <1>9, NothingNewer
<1>11. CommittedWrites' = CommittedWrites
  <2>1. ASSUME NEW q \in Rows, NEW v \in VersionIds
        PROVE  /\ Effective(q, v)' <=> Effective(q, v)
               /\ Effective(q, v) => WriteOf(q, v)' = WriteOf(q, v)
    <3>1. CASE q # r \/ v # n
      BY <1>1, <1>3, <3>1 DEF Effective, Exists, EffectiveTs, WriteOf
    <3>2. CASE q = r /\ v = n
      <4>1. ver[r][n].start_ts = 0 /\ ver'[r][n].start_ts = 0 /\ Exists(r, n)
        BY <1>3, <1>6 DEF SameVersions, Provisional, Exists
      <4>2. ver[r][n].created_by \in TxnIds /\ ver'[r][n].created_by = ver[r][n].created_by
        BY <1>3, <1>6, <4>1 DEF SameVersions, Exists
      <4>3. EffectiveTs(ver[r][n]) = 0 /\ EffectiveTs(ver[r][n])' = 0
        BY <1>1, <1>8, <4>1, <4>2 DEF EffectiveTs, is_provisional
      <4> QED BY <3>2, <4>3 DEF Effective
    <3> QED BY <3>1, <3>2
  <2> QED BY <2>1, HistoryFrame DEF KeepsHistory
<1>12. ASSUME NEW u \in TxnIds, u # t, InProgress(u), NEW q \in Rows, NEW v \in VersionIds,
              Lists(txn[u].written, q, v)
       PROVE  q # r
  <2>1. Holds(u, q, v) /\ ver[q][v].created_by = u
    <3>1. InProgress(u) /\ Lists(txn[u].written, q, v) /\ HoldInv
      BY <1>5, <1>12
    <3> QED BY <1>12, <3>1, Held, SMT
  <2> QED BY <1>6, <1>7, <1>12, <2>1 DEF Holds
<1>13. \A u \in TxnIds \ {t} : InProgress(u) => ~Wrote(u, r)
  BY <1>12 DEF Wrote
<1>14. ASSUME NEW u \in TxnIds, u # t PROVE LeavesTxn(u)
  <2>1. InProgress(u)' <=> InProgress(u)
    BY <1>1 DEF InProgress
  <2> QED BY <1>1, <1>3, <1>12, <1>14, <2>1 DEF LeavesTxn
<1>15. \A q : Wrote(t, q)' <=> Wrote(t, q) \/ q = r
  BY <1>1, <1>3 DEF Wrote, Lists
<1>16. \A q \in Rows : q # r /\ Wrote(t, q) => ver'[q][head'[q]].val = ver[q][head[q]].val
  <2> SUFFICES ASSUME NEW q \in Rows, q # r, Wrote(t, q)
               PROVE  ver'[q][head[q]].val = ver[q][head[q]].val
    BY <1>1
  <2>1. PICK v \in VersionIds : Lists(txn[t].written, q, v)
    BY DEF Wrote
  <2>2. head[q] = v
    BY <1>4, <1>5, <2>1 DEF HoldInv, Holds
  <2> QED BY <1>3, <2>2
<1>17. ver'[r][head'[r]].val = val /\ txn'[t].start_ts = txn[t].start_ts
  BY <1>1, <1>3, <1>7
<1> QED BY <1>4, <1>10, <1>11, <1>13, <1>14, <1>15, <1>16, <1>17, WritesRow

\* The first write of a row takes effect with its head.
LEMMA SetsHead ==
    ASSUME TxnInv, SnapshotInv, TxnInv', SnapshotInv', SetHead
    PROVE  \E t \in TxnIds, r \in Rows, val \in Vals : SI!Write(t, r, val)
<1>1. PICK t, r, n, val : t = op.t /\ r = op.r /\ n = NewVid /\ val = op.val
  OBVIOUS
<1>2. /\ op.pc = "setHead" /\ op' = [op EXCEPT !.pc = "writeMeta"] /\ op \in OpType
      /\ head' = [head EXCEPT ![r] = n] /\ UNCHANGED <<ver, meta>>
      /\ txn' = [txn EXCEPT ![t].written = Append(@, [row |-> r, vid |-> n])]
  BY <1>1 DEF SetHead, TxnInv, TypeOK
<1>3. /\ t \in TxnIds /\ r \in Rows /\ n \in VersionIds /\ txn[t].st = "open" /\ meta[t].state = "Open"
      /\ ver[r][n].prev_id = op.prev /\ val \in Vals
  BY <1>1, <1>2 DEF TxnInv, ProtocolInv, WriteInv, At, OpType
<1>4. /\ \A u \in TxnIds : u # t => txn'[u] = txn[u]
      /\ txn'[t].st = "open" /\ txn'[t].start_ts = txn[t].start_ts
      /\ txn'[t].written = Append(txn[t].written, [row |-> r, vid |-> n])
      /\ head'[r] = n /\ \A q \in Rows : q # r => head'[q] = head[q]
  BY <1>2, <1>3 DEF TxnInv, TypeOK, TxnObject
<1>5. op'.pc = "writeMeta"
  BY <1>2 DEF OpType
<1>6. InProgress(t) /\ InProgress(t)'
  BY <1>2, <1>3, <1>4, <1>5 DEF InProgress
<1>7. \A q, v : Lists(txn[t].written, q, v)' <=> Lists(txn[t].written, q, v) \/ (q = r /\ v = n)
  <2>1. txn[t].written \in Seq(TxnWrite)
    BY <1>3 DEF TxnInv, TypeOK, TxnObject
  <2>2. PICK e : e = [row |-> r, vid |-> n]
    OBVIOUS
  <2>3. e \in TxnWrite /\ e.row = r /\ e.vid = n
    BY <1>3, <2>2 DEF TxnWrite
  <2>4. \A q, v : Lists(Append(txn[t].written, e), q, v) <=>
                     Lists(txn[t].written, q, v) \/ (q = r /\ v = n)
    BY <2>1, <2>3, Listed
  <2>5. \A q, v : Lists(txn[t].written, q, v)' <=> Lists(Append(txn[t].written, e), q, v)
    BY <1>4, <2>2 DEF Lists
  <2> QED BY <2>4, <2>5
<1>8. \A q : Wrote(t, q)' <=> Wrote(t, q) \/ q = r
  BY <1>3, <1>7 DEF Wrote
<1>9. \A u \in TxnIds : InProgress(u) => ~Wrote(u, r)
  BY <1>1, <1>2, <1>3, NobodyHolds DEF Wrote, At
<1>10. ASSUME NEW u \in TxnIds, u # t PROVE LeavesTxn(u)
  <2>1. InProgress(u)' <=> InProgress(u)
    BY <1>2, <1>4, <1>5, <1>10 DEF InProgress
  <2> QED BY <1>2, <1>4, <1>10, <2>1 DEF LeavesTxn
<1>11. CommittedWrites' = CommittedWrites
  BY <1>2, SameSnapshots
<1>12. \A e \in CommittedWrites : e.row = r => e.ts <= txn[t].start_ts
  <2>1. NewestIs(r, op.prev) /\ op.prev \in 0 .. MaxVersion
    BY <1>1, <1>2 DEF TxnInv, LifetimeInv, InstallInv, At, OpType
  <2>2. op.prev # 0 => op.prev \in VersionIds /\ ver[r][op.prev].start_ts <= txn[t].start_ts
    BY <1>1, <1>2, <2>1, Vid DEF SnapshotInv, PendingInv, At
  <2>3. txn[t].start_ts \in Nat
    BY <1>3 DEF TxnInv, TypeOK, TxnObject
  <2>4. \A u \in TxnIds : meta[u].state # "Committing"
    BY <1>2, NoIntent
  <2> QED BY <1>3, <2>1, <2>2, <2>3, <2>4, NothingNewer
<1>13. ver'[r][head'[r]].val = val
  BY <1>1, <1>2, <1>4 DEF SnapshotInv, PendingInv
<1>14. \A q \in Rows : q # r /\ Wrote(t, q) => ver'[q][head'[q]].val = ver[q][head[q]].val
  BY <1>2, <1>4
<1>15. SI!Write(t, r, val)
  BY <1>3, <1>4, <1>6, <1>8, <1>9, <1>10, <1>11, <1>12, <1>13, <1>14, WritesRow
<1> QED BY <1>3, <1>15

\* The versions that an intent makes count: those of its transaction.
LEMMA IntentEntries ==
    ASSUME TxnInv, SnapshotInv, PutIntent, NEW r \in Rows, NEW v \in VersionIds
    PROVE  /\ Lists(txn[op.t].written, r, v) =>
                 /\ ~Effective(r, v) /\ Effective(r, v)'
                 /\ WriteOf(r, v)' = [row |-> r, ts |-> op.cts, val |-> ver[r][v].val]
           /\ ~Lists(txn[op.t].written, r, v) =>
                 /\ Effective(r, v)' <=> Effective(r, v)
                 /\ Effective(r, v) => WriteOf(r, v)' = WriteOf(r, v)
<1>1. PICK t, c : t = op.t /\ c = op.cts
  OBVIOUS
<1>2. /\ op.pc = "intent" /\ t \in TxnIds /\ txn[t].st = "open" /\ meta[t].state = "Open" /\ ver' = ver
      /\ meta' = [meta EXCEPT ![t] =
             [state |-> "Committing", commit_ts |-> c, writes |-> txn[t].written]]
  BY <1>1 DEF PutIntent, TxnInv, ProtocolInv, CommitInv
<1>3. /\ \A u \in TxnIds : u # t => meta'[u] = meta[u]
      /\ meta'[t].state = "Committing" /\ meta'[t].commit_ts = c
  BY <1>2 DEF TxnInv, TypeOK
<1>4. c # 0
  <2>1. c >= 1
    BY <1>1, <1>2 DEF TxnInv, ProtocolInv, CommitInv
  <2> QED BY <2>1, SMT
<1>5. \A u \in TxnIds : meta[u].state # "Committing"
  BY <1>2, NoIntent
<1>6. Lists(txn[t].written, r, v) <=> Exists(r, v) /\ ver[r][v].created_by = t
  <2>1. ListInv /\ op.pc # "setHead"
    BY <1>2 DEF TxnInv, ProtocolInv
  <2> QED BY <1>2, <2>1, SMT DEF ListInv
<1>7. Exists(r, v) => ver[r][v].created_by \in TxnIds
  BY ChainTypes DEF TxnInv
<1>8. CASE Lists(txn[t].written, r, v)
  <2>1. Exists(r, v) /\ ver[r][v].created_by = t
    BY <1>6, <1>8
  <2>2. ver[r][v].start_ts = 0
    BY <1>2, <2>1 DEF TxnInv, ProtocolInv, VersionInv
  <2>3. EffectiveTs(ver[r][v]) = 0
    BY <1>2, <2>1, <2>2 DEF EffectiveTs, is_provisional
  <2>4. EffectiveTs(ver[r][v])' = c
    BY <1>2, <1>3, <2>1, <2>2 DEF EffectiveTs, is_provisional
  <2>5. ~Effective(r, v) /\ Effective(r, v)'
    BY <1>2, <1>4, <2>1, <2>3, <2>4 DEF Effective, Exists
  <2>6. WriteOf(r, v)' = [row |-> r, ts |-> c, val |-> ver[r][v].val]
    BY <1>2, <2>4 DEF WriteOf
  <2> QED BY <1>1, <1>8, <2>5, <2>6
<1>9. CASE ~Lists(txn[t].written, r, v)
  <2>1. Exists(r, v) => ver[r][v].created_by # t
    BY <1>6, <1>9
  <2>2. Exists(r, v) => EffectiveTs(ver[r][v])' = EffectiveTs(ver[r][v])
    <3>1. PICK x, o : x = ver[r][v] /\ o = x.created_by
      OBVIOUS
    <3>2. ver'[r][v] = x /\ (Exists(r, v) => meta'[o] = meta[o])
      BY <1>2, <1>3, <1>7, <2>1, <3>1
    <3>3. Exists(r, v) => EffectiveTs(x)' = EffectiveTs(x)
      BY <3>1, <3>2 DEF EffectiveTs
    <3> QED BY <3>1, <3>2, <3>3
  <2>3. /\ Effective(r, v)' <=> Effective(r, v)
        /\ Effective(r, v) => WriteOf(r, v)' = WriteOf(r, v)
    BY <1>2, <2>2 DEF Effective, Exists, WriteOf
  <2> QED BY <1>1, <1>9, <2>3
<1> QED BY <1>8, <1>9

\* The intent commits all writes of the transaction at once.
LEMMA CommitsTxn ==
    ASSUME TxnInv, SnapshotInv, TxnInv', SnapshotInv', PutIntent
    PROVE  \E t \in TxnIds : SI!Commit(t)
<1>1. PICK t, c : t = op.t /\ c = op.cts
  OBVIOUS
<1>2. /\ op.pc = "intent" /\ t \in TxnIds /\ op.by = "client" /\ txn[t].st = "open"
      /\ meta[t].state = "Open" /\ UNCHANGED <<ver, head, txn>>
      /\ meta' = [meta EXCEPT ![t] =
             [state |-> "Committing", commit_ts |-> c, writes |-> txn[t].written]]
      /\ op' = Applying(t, txn[t].written, c, "client")
  BY <1>1 DEF PutIntent, TxnInv, ProtocolInv, CommitInv
<1>3. /\ \A u \in TxnIds : u # t => meta'[u] = meta[u]
      /\ meta'[t].state = "Committing"
  BY <1>2 DEF TxnInv, TypeOK
<1>4. op'.pc = "apply"
  BY <1>2, IdleType DEF Applying, OpType
<1>5. InProgress(t) /\ ~InProgress(t)'
  BY <1>2, <1>3 DEF InProgress
<1>6. \A u \in TxnIds \ {t} : LeavesTxn(u)
  <2> SUFFICES ASSUME NEW u \in TxnIds, u # t PROVE LeavesTxn(u)
    OBVIOUS
  <2>1. InProgress(u)' <=> InProgress(u)
    BY <1>2, <1>3, <1>4 DEF InProgress
  <2> QED BY <1>2, <2>1 DEF LeavesTxn
<1>7. c \in 0 .. MaxTs /\ c \in Nat
  <2>1. c \in Nat /\ c <= MaxTs
    BY <1>1, <1>2 DEF TxnInv, TypeOK, OpType, SnapshotInv, ClockInv
  <2> QED BY <2>1, BoundsAssumption, SMT
<1>8. \A u \in TxnIds : txn[u].st = "open" => txn[u].start_ts < c /\ txn[u].start_ts \in Nat
  BY <1>1, <1>2 DEF SnapshotInv, LaterInv, TxnInv, TypeOK, TxnObject
<1>9. ASSUME NEW r \in Rows, NEW v \in VersionIds
      PROVE  /\ Lists(txn[t].written, r, v) =>
                   /\ Effective(r, v)'
                   /\ WriteOf(r, v)' = [row |-> r, ts |-> c, val |-> ver[r][v].val]
             /\ ~Lists(txn[t].written, r, v) => (Effective(r, v)' <=> Effective(r, v))
             /\ Effective(r, v) => Effective(r, v)' /\ WriteOf(r, v)' = WriteOf(r, v)
  BY <1>1, IntentEntries
<1>10. Looks(t) /\ TypeOK
  BY <1>2, Abstract DEF TxnInv
<1>11. /\ t \in Running /\ Snap[t] = txn[t].start_ts /\ View[t] = [r \in Rows |-> Get(t, r)]
       /\ \A r : r \in WriteSet[t] <=> Wrote(t, r)
  BY <1>5, <1>10 DEF Looks
<1>12. HoldInv
  BY DEF SnapshotInv
<1>13. ASSUME NEW r \in Rows, NEW v \in VersionIds, Lists(txn[t].written, r, v)
       PROVE  /\ r \in WriteSet[t] /\ View[t][r] = ver[r][v].val
              /\ \A e \in CommittedWrites : e.row = r => e.ts <= txn[t].start_ts
  <2>1. /\ Holds(t, r, v) /\ NewestIs(r, ver[r][v].prev_id)
        /\ ver[r][v].prev_id # 0 => ver[r][v].prev_id \in VersionIds
    BY <1>2, <1>5, <1>12, <1>13, Held, SMT
  <2>2. head[r] = v /\ (ver[r][v].prev_id # 0 => ver[r][ver[r][v].prev_id].start_ts <= txn[t].start_ts)
    BY <2>1 DEF Holds
  <2>3. Wrote(t, r)
    BY <1>13 DEF Wrote
  <2>4. Get(t, r) = ver[r][v].val
    BY <1>2, <1>5, <2>2, <2>3, Reads
  <2>5. txn[t].start_ts \in Nat /\ \A u \in TxnIds : meta[u].state # "Committing"
    BY <1>2, <1>8, NoIntent
  <2>6. \A e \in CommittedWrites : e.row = r => e.ts <= txn[t].start_ts
    BY <2>1, <2>2, <2>5, NothingNewer
  <2> QED BY <1>11, <2>3, <2>4, <2>6
<1>14. ASSUME NEW r \in WriteSet[t]
       PROVE  r \in Rows /\ \E v \in VersionIds : Lists(txn[t].written, r, v)
  <2>1. PICK v \in VersionIds : Lists(txn[t].written, r, v)
    BY <1>11, <1>14 DEF Wrote
  <2>2. txn[t].written \in Seq(TxnWrite)
    BY <1>2, <1>10 DEF TypeOK, TxnObject
  <2>3. r \in Rows
    <3>1. PICK w : w = txn[t].written
      OBVIOUS
    <3>2. PICK j \in 1 .. Len(w) : w[j].row = r
      BY <2>1, <3>1 DEF Lists
    <3>3. w[j] \in TxnWrite
      BY <2>2, <3>1, SMT
    <3> QED BY <3>2, <3>3 DEF TxnWrite
  <2> QED BY <2>1, <2>3
<1> DEFINE new == {[row |-> r, ts |-> c, val |-> View[t][r]] : r \in WriteSet[t]}
<1>15. CommittedWrites' = CommittedWrites \cup new
  <2>1. ASSUME NEW e \in CommittedWrites PROVE e \in CommittedWrites'
    <3>1. PICK r \in Rows, v \in VersionIds : Effective(r, v) /\ e = WriteOf(r, v)
      BY Entries
    <3>2. Effective(r, v)' /\ e = WriteOf(r, v)'
      BY <1>9, <3>1
    <3> QED BY <3>2, EntriesNext
  <2>2. ASSUME NEW r \in WriteSet[t]
        PROVE  [row |-> r, ts |-> c, val |-> View[t][r]] \in CommittedWrites'
    <3>1. PICK v \in VersionIds : r \in Rows /\ Lists(txn[t].written, r, v)
      BY <1>14
    <3>2. Effective(r, v)' /\ WriteOf(r, v)' = [row |-> r, ts |-> c, val |-> View[t][r]]
      BY <1>9, <1>13, <3>1
    <3> QED BY <3>1, <3>2, EntriesNext
  <2>3. ASSUME NEW e \in CommittedWrites' PROVE e \in CommittedWrites \/ e \in new
    <3>1. PICK r \in Rows, v \in VersionIds : Effective(r, v)' /\ e = WriteOf(r, v)'
      BY EntriesNext
    <3>2. CASE Lists(txn[t].written, r, v)
      <4>1. r \in WriteSet[t] /\ e = [row |-> r, ts |-> c, val |-> View[t][r]]
        BY <1>9, <1>13, <3>1, <3>2
      <4> QED BY <4>1
    <3>3. CASE ~Lists(txn[t].written, r, v)
      <4>1. Effective(r, v) /\ e = WriteOf(r, v)
        BY <1>9, <3>1, <3>3
      <4> QED BY <4>1, Entries
    <3> QED BY <3>2, <3>3
  <2>4. \A e \in new : e \in CommittedWrites'
    BY <2>2
  <2> HIDE DEF new
  <2> QED BY <2>1, <2>3, <2>4
<1>16. \A e \in new : e.ts = c
  BY SMT
<1>17. ASSUME NEW u \in TxnIds PROVE LeavesSnapshot(u)
  <2> SUFFICES ASSUME InProgress(u), NEW r \in Rows
               PROVE  SI!Included(CommittedWrites', r, txn[u].start_ts) =
                      SI!Included(CommittedWrites, r, txn[u].start_ts)
    BY DEF LeavesSnapshot
  <2>1. txn[u].start_ts < c /\ txn[u].start_ts \in Nat
    BY <1>8 DEF InProgress
  <2>2. ~(c <= txn[u].start_ts)
    BY <1>7, <2>1, SMT
  <2> HIDE DEF new
  <2> QED BY <1>15, <1>16, <2>2 DEF SI!Included
<1>18. {t} \in SUBSET TxnIds
  BY <1>2
<1>19. SI!End({t})
  BY <1>5, <1>6, <1>17, <1>18, EndsTxns
<1>20. \A u \in Running : Snap[u] < c
  <2>1. \A u \in Running : u \in TxnIds /\ txn[u].st = "open" /\ Snap[u] = txn[u].start_ts
    BY DEF Running, Snap
  <2> QED BY <1>8, <2>1
<1>21. \A e \in CommittedWrites : e.row \in WriteSet[t] => e.ts <= Snap[t]
  BY <1>11, <1>13, <1>14
<1>22. SI!Commit(t)
  BY <1>7, <1>11, <1>15, <1>19, <1>20, <1>21 DEF SI!Commit
<1> QED BY <1>2, <1>22

\* Every step is a step of the abstract specification, or changes nothing there.
LEMMA Implements ==
    ASSUME MaxFaults = 0, TxnInv, SnapshotInv, TxnInv', SnapshotInv', [Next]_vars
    PROVE  [SI!Next]_(SI!vars)
<1>0. SI!Vals = Vals
  BY DEF SI!Vals, Vals
<1>1. ASSUME NEW t \in TxnIds, NEW r \in Rows, NEW kind, NEW val \in Vals, Write(t, r, kind, val)
      PROVE  SI!Next \/ UNCHANGED SI!vars
  <2>1. op = Idle /\ txn[t].st = "open"
    BY <1>1 DEF Write
  <2>2. CASE RewriteOwn(t, r, kind, val)
    <3>1. SI!Write(t, r, val)
      BY <2>1, <2>2, RewritesRow
    <3> QED BY <1>0, <3>1 DEF SI!Next
  <2>3. CASE WriteNew(t, r, kind, val)
    <3>1. \E k : \E u \in TxnIds, q \in Rows, x \in Vals : op = Idle /\ WriteNew(u, q, k, x)
      BY <1>1, <2>1, <2>3
    <3> QED BY <3>1, ForwardInvisible
  <2> QED BY <1>1, <2>2, <2>3 DEF Write
<1>2. CASE Call
  <2>1. NoRow \in Vals /\ Payloads \subseteq Vals
    BY DEF Vals
  <2>2. CASE Begin
    BY <2>2, ForwardInvisible
  <2>3. ASSUME NEW t \in TxnIds, Commit(t) \/ Abort(t) PROVE SI!Next \/ UNCHANGED SI!vars
    <3>1. op = Idle /\ txn[t].st = "open"
      BY <2>3 DEF Commit, Abort
    <3>2. CASE Commit(t) /\ CommitCheck(t)
      BY <3>2, ForwardInvisible
    <3>3. CASE (Commit(t) /\ ~CommitCheck(t)) \/ Abort(t)
      <4>1. /\ op' = Restoring(t, txn[t].written, "client")
            /\ UNCHANGED <<ver, head, meta, stored, next, txn>>
        BY <3>3 DEF Commit, Abort
      <4>2. SI!Abort(t)
        BY <3>1, <4>1, AbortsTxn
      <4> QED BY <4>2 DEF SI!Next
    <3> QED BY <2>3, <3>2, <3>3
  <2>4. CASE \E t \in TxnIds, r \in Rows : Delete(t, r)
    BY <1>1, <2>1, <2>4 DEF Delete
  <2>5. CASE \E t \in TxnIds, r \in Rows, p \in Payloads : Insert(t, r, p) \/ Update(t, r, p)
    BY <1>1, <2>1, <2>5 DEF Insert, Update
  <2> QED BY <1>2, <2>2, <2>3, <2>4, <2>5 DEF Call
<1>3. CASE HandlerStep
  <2>1. CASE BeginMeta \/ SetHead \/ PutIntent
    BY <1>0, <2>1, BeginsTxn, SetsHead, CommitsTxn DEF SI!Next
  <2>2. CASE PersistOracles
    BY <2>2, ForwardInvisible
  <2>3. CASE PutVersionValue \/ WriteMeta \/ ApplyCommitWrites \/ PutCommitted \/ CommitDone
             \/ RestoreHeads \/ PutAborted \/ RecoverTxns
    BY <2>3, PutVersionValueInvisible, WriteMetaInvisible, ApplyCommitWritesInvisible,
       PutCommittedInvisible, EndInvisible, RestoreHeadsInvisible, RecoverTxnsInvisible
  <2> QED BY <1>3, <2>1, <2>2, <2>3 DEF HandlerStep
<1>4. CASE Open
  BY <1>4, ForwardInvisible
<1>5. CASE Crash
  BY <1>5, CrashEndsAll DEF SI!Next
<1>6. ~KvError
  BY SMT DEF KvError, TxnInv, TypeOK
<1>7. CASE UNCHANGED vars
  BY <1>7, ControlInvisible DEF vars
<1> QED BY <1>2, <1>3, <1>4, <1>5, <1>6, <1>7 DEF Next

\* The empty database.
LEMMA InitImplements == Init => SI!Init
<1> SUFFICES ASSUME Init PROVE SI!Init
  OBVIOUS
<1>1. /\ \A r \in Rows, v \in VersionIds : ~Exists(r, v)
      /\ \A t \in TxnIds : txn[t].st = "none"
  BY DEF Init, Exists, NoTxn
<1>2. CommittedWrites = {}
  BY <1>1, Entries DEF Effective
<1>3. Running = {}
  BY <1>1 DEF Running
<1> QED BY <1>2, <1>3 DEF SI!Init, SI!Nothing, Snap, WriteSet, View

\* The transaction layer (database.cpp, txn.cpp, mvcc.cpp) implements snapshot
\* isolation: across any interleaving of transactions, any crashes and recoveries,
\* a transaction reads one committed state plus its own writes from Begin to its end,
\* its writes are committed at once, and of two that write a row only one commits.
THEOREM ImplementsIsolation ==
    ASSUME MaxFaults = 0
    PROVE  Spec => ImplementsSnapshotIsolation
<1> DEFINE I == TxnInv /\ SnapshotInv
<1>1. Spec => []I
  BY SnapshotInvariant
<1>2. I /\ I' /\ [Next]_vars => [SI!Next]_(SI!vars)
  BY Implements
<1> HIDE DEF I
<1> QED BY <1>1, <1>2, InitImplements, PTL DEF Spec, ImplementsSnapshotIsolation, SI!Spec

\* A read between two calls never meets a provisional version of a transaction
\* that is marked Committed (MvccStore::GetRow answers Corruption there).
THEOREM ReadsStayReadable ==
    ASSUME MaxFaults = 0
    PROVE  Spec => []ReadsNeverCorrupt
<1>1. TxnInv /\ SnapshotInv => ReadsNeverCorrupt
  <2> SUFFICES ASSUME TxnInv, SnapshotInv, NEW t \in TxnIds, NEW r \in Rows, txn[t].st = "open"
               PROVE  Get(t, r) # "Corruption"
    BY DEF ReadsNeverCorrupt
  <2>1. \A v \in VersionIds : Exists(r, v) => ver[r][v].val # "Corruption"
    <3> SUFFICES ASSUME NEW v \in VersionIds, Exists(r, v) PROVE ver[r][v].val # "Corruption"
      OBVIOUS
    <3>1. ver[r][v] \in VersionRecord
      BY DEF TxnInv, TypeOK, Exists
    <3>2. ver[r][v].val \in Vals
      BY <3>1 DEF VersionRecord
    <3> QED BY <3>2, ValuesAssumption
  <2>2. head[r] # 0 => head[r] \in VersionIds /\ Exists(r, head[r])
    BY ChainTypes, Vid DEF TxnInv, ProtocolInv, HeadInv
  <2>3. CASE head[r] # 0 /\ Provisional(r, head[r]) /\ ver[r][head[r]].created_by = t
    BY <2>1, <2>2, <2>3, OwnRead
  <2>4. CASE ~(head[r] # 0 /\ Provisional(r, head[r]) /\ ver[r][head[r]].created_by = t)
    <3>1. head[r] # 0 => Stamped(r, head[r]) \/ ver[r][head[r]].created_by # t
      BY <2>2, <2>4 DEF Provisional, Stamped, is_provisional
    <3>2. ReadsAt(r, txn[t].start_ts, MaxVersion, Get(t, r))
      BY <3>1, OtherRead
    <3>3. NoRow # "Corruption"
      BY ValuesAssumption DEF Vals
    <3> QED BY <2>1, <3>2, <3>3 DEF ReadsAt, Seen, Stamped
  <2> QED BY <2>3, <2>4
<1> QED BY <1>1, SnapshotInvariant, PTL

-----------------------------------------------------------------------------
\* SnapshotIsolation keeps the two promises it is named for.

\* What the functions of the state range over, and that a transaction which
\* does not run has written nothing.
AbstractShape ==
    /\ \A e \in CommittedWrites : e.ts \in Nat
    /\ Running \subseteq TxnIds
    /\ Snap \in [TxnIds -> Nat]
    /\ WriteSet \in [TxnIds -> SUBSET Rows]
    /\ View = [t \in TxnIds |-> [r \in Rows |-> View[t][r]]]
    /\ \A t \in TxnIds \ Running : WriteSet[t] = {}

AbstractInv == AbstractShape /\ SI!ViewIsSnapshot /\ SI!FirstCommitterWins

\* Commits with later timestamps do not change the state of a timestamp.
LEMMA LaterCommits ==
    ASSUME NEW h1, NEW h2, NEW r, NEW s \in Nat, h1 \subseteq h2,
           \A e \in h2 \ h1 : e.ts \in Nat /\ s < e.ts
    PROVE  SI!AsOf(h2, r, s) = SI!AsOf(h1, r, s)
<1>1. SI!Included(h2, r, s) = SI!Included(h1, r, s)
  BY SMT DEF SI!Included
<1> QED BY <1>1, SMT DEF SI!AsOf

\* Ending transactions, while commits later than every snapshot that goes on
\* appear on rows that no other transaction wrote.
LEMMA EndKeeps ==
    ASSUME AbstractInv, NEW T \in SUBSET Running, SI!End(T), CommittedWrites \subseteq CommittedWrites',
           \A e \in CommittedWrites' \ CommittedWrites :
               /\ e.ts \in Nat
               /\ \A u \in Running : Snap[u] < e.ts
               /\ \A u \in Running \ T : e.row \notin WriteSet[u]
    PROVE  AbstractInv'
<1> USE DEF AbstractInv
<1>1. /\ Running' = Running \ T /\ Running \subseteq TxnIds
      /\ \A t \in Running' : t \in TxnIds /\ t \in Running /\ t \notin T
  BY SMT DEF SI!End, AbstractShape
<1>2. \A t \in Running' : Snap'[t] = Snap[t] /\ WriteSet'[t] = WriteSet[t] /\ View'[t] = View[t]
  BY <1>1, SMT DEF SI!End
<1>3. AbstractShape'
  <2>1. Snap' \in [TxnIds -> Nat] /\ WriteSet' \in [TxnIds -> SUBSET Rows]
    BY SMT DEF SI!End, AbstractShape
  <2>2. View' = [t \in TxnIds |-> [r \in Rows |-> View'[t][r]]]
    <3>1. \A t \in TxnIds : View[t] = [r \in Rows |-> View[t][r]]
      BY SMT DEF AbstractShape
    <3>2. \A t \in TxnIds : View'[t] = [r \in Rows |-> View'[t][r]]
      BY <3>1, SMT DEF SI!End, SI!Nothing
    <3> QED BY <3>2, SMT DEF SI!End
  <2>3. \A t \in TxnIds \ Running' : WriteSet'[t] = {}
    BY SMT DEF SI!End, AbstractShape
  <2>4. \A e \in CommittedWrites' : e.ts \in Nat
    BY SMT DEF AbstractShape
  <2> QED BY <1>1, <2>1, <2>2, <2>3, <2>4, SMT DEF AbstractShape
<1>4. SI!ViewIsSnapshot'
  <2> SUFFICES ASSUME NEW t \in Running', NEW r \in Rows, r \notin WriteSet'[t]
               PROVE  View'[t][r] = SI!AsOf(CommittedWrites', r, Snap'[t])
    BY SMT DEF SI!ViewIsSnapshot
  <2>1. View'[t][r] = SI!AsOf(CommittedWrites, r, Snap[t])
    BY <1>1, <1>2, SMT DEF SI!ViewIsSnapshot
  <2>2. Snap[t] \in Nat /\ \A e \in CommittedWrites' \ CommittedWrites : e.ts \in Nat /\ Snap[t] < e.ts
    BY <1>1, SMT DEF AbstractShape
  <2>3. SI!AsOf(CommittedWrites', r, Snap[t]) = SI!AsOf(CommittedWrites, r, Snap[t])
    BY <2>2, LaterCommits, SMT
  <2> QED BY <1>2, <2>1, <2>3, SMT
<1>5. SI!FirstCommitterWins'
  BY <1>1, <1>2, SMT DEF SI!FirstCommitterWins
<1> QED BY <1>3, <1>4, <1>5, SMT

\* Begin preserves the invariant.
LEMMA BeginKeeps ==
    ASSUME AbstractInv, NEW t \in TxnIds, SI!Begin(t)
    PROVE  AbstractInv'
<1> USE DEF AbstractInv
<1>1. PICK s \in 0 .. MaxTs :
         /\ Snap' = [Snap EXCEPT ![t] = s]
         /\ View' = [View EXCEPT ![t] = [r \in Rows |-> SI!AsOf(CommittedWrites, r, s)]]
  BY Zenon DEF SI!Begin
<1>2. t \notin Running /\ Running' = Running \cup {t} /\ CommittedWrites' = CommittedWrites /\ WriteSet' = WriteSet
  BY SMT DEF SI!Begin
<1>3. /\ DOMAIN View = TxnIds /\ Snap'[t] = s /\ s \in Nat
      /\ View'[t] = [r \in Rows |-> SI!AsOf(CommittedWrites, r, s)]
      /\ \A u \in TxnIds : u # t => Snap'[u] = Snap[u] /\ View'[u] = View[u]
  BY <1>1, SMT DEF AbstractShape
<1>4. AbstractShape'
  <2>1. View' = [u \in TxnIds |-> [r \in Rows |-> View'[u][r]]]
    <3>1. \A u \in TxnIds : View[u] = [r \in Rows |-> View[u][r]]
      BY SMT DEF AbstractShape
    <3>2. \A u \in TxnIds : View'[u] = [r \in Rows |-> View'[u][r]]
      BY <1>3, <3>1, SMT
    <3>3. View' = [u \in TxnIds |-> View'[u]]
      BY <1>1, <1>3, Zenon
    <3> QED BY <3>2, <3>3, SMT
  <2> QED BY <1>1, <1>2, <1>3, <2>1, SMT DEF AbstractShape
<1>5. SI!ViewIsSnapshot'
  <2> SUFFICES ASSUME NEW u \in Running', NEW r \in Rows, r \notin WriteSet'[u]
               PROVE  View'[u][r] = SI!AsOf(CommittedWrites', r, Snap'[u])
    BY SMT DEF SI!ViewIsSnapshot
  <2>1. CASE u = t
    BY <1>2, <1>3, <2>1, SMT
  <2>2. CASE u # t
    <3>1. u \in Running /\ u \in TxnIds
      BY <1>2, <2>2, SMT DEF AbstractShape
    <3>2. View[u][r] = SI!AsOf(CommittedWrites, r, Snap[u])
      BY <1>2, <3>1, SMT DEF SI!ViewIsSnapshot
    <3> QED BY <1>2, <1>3, <2>2, <3>1, <3>2, SMT
  <2> QED BY <2>1, <2>2, SMT
<1>6. SI!FirstCommitterWins'
  BY <1>2, <1>3, SMT DEF SI!FirstCommitterWins, AbstractShape
<1> QED BY <1>4, <1>5, <1>6, SMT

\* Write preserves the invariant.
LEMMA WriteKeeps ==
    ASSUME AbstractInv, NEW t \in TxnIds, NEW r \in Rows, NEW v \in SI!Vals, SI!Write(t, r, v)
    PROVE  AbstractInv'
<1> USE DEF AbstractInv
<1>1. /\ t \in Running
      /\ \A u \in Running \ {t} : r \notin WriteSet[u]
      /\ \A e \in CommittedWrites : e.row = r => e.ts <= Snap[t]
      /\ WriteSet' = [WriteSet EXCEPT ![t] = @ \cup {r}]
      /\ View' = [View EXCEPT ![t][r] = v]
      /\ UNCHANGED <<CommittedWrites, Running, Snap>>
  BY SMT DEF SI!Write
<1>2. /\ WriteSet'[t] = WriteSet[t] \cup {r}
      /\ \A u \in TxnIds : u # t => WriteSet'[u] = WriteSet[u]
      /\ \A u \in TxnIds, s \in Rows : u # t \/ s # r => View'[u][s] = View[u][s]
  BY <1>1, SMT DEF AbstractShape
<1>3. AbstractShape'
  <2>1. View' = [u \in TxnIds |-> [s \in Rows |-> View'[u][s]]]
    BY <1>1, Zenon DEF AbstractShape
  <2> QED BY <1>1, <1>2, <2>1, SMT DEF AbstractShape
<1>4. SI!ViewIsSnapshot'
  <2> SUFFICES ASSUME NEW u \in Running', NEW s \in Rows, s \notin WriteSet'[u]
               PROVE  View'[u][s] = SI!AsOf(CommittedWrites', s, Snap'[u])
    BY SMT DEF SI!ViewIsSnapshot
  <2>1. u \in Running /\ u \in TxnIds
    BY <1>1, SMT DEF AbstractShape
  <2>2. s \notin WriteSet[u] /\ (u # t \/ s # r)
    BY <1>1, <1>2, <2>1, SMT
  <2>3. View[u][s] = SI!AsOf(CommittedWrites, s, Snap[u])
    BY <2>1, <2>2, SMT DEF SI!ViewIsSnapshot
  <2> QED BY <1>1, <1>2, <2>1, <2>2, <2>3, SMT
<1>5. SI!FirstCommitterWins'
  BY <1>1, <1>2, SMT DEF SI!FirstCommitterWins, AbstractShape
<1> QED BY <1>3, <1>4, <1>5, SMT

\* Commit preserves the invariant.
LEMMA CommitKeeps ==
    ASSUME AbstractInv, NEW t \in TxnIds, SI!Commit(t)
    PROVE  AbstractInv'
<1> USE DEF AbstractInv
<1>1. PICK ts \in 0 .. MaxTs :
         /\ \A u \in Running : Snap[u] < ts
         /\ CommittedWrites' = CommittedWrites \cup
               {[row |-> r, ts |-> ts, val |-> View[t][r]] : r \in WriteSet[t]}
  BY SMT DEF SI!Commit
<1>2. \A e \in CommittedWrites' \ CommittedWrites : e.ts = ts /\ e.row \in WriteSet[t]
  BY <1>1, SMT
<1>3. \A u \in Running \ {t} : \A r \in WriteSet[t] : r \notin WriteSet[u]
  BY SMT DEF SI!Commit, SI!FirstCommitterWins
<1>4. t \in Running /\ SI!End({t})
  BY SMT DEF SI!Commit
<1> QED BY <1>1, <1>2, <1>3, <1>4, EndKeeps, SMT

\* AbstractInv is inductive.
LEMMA AbstractInductive ==
    ASSUME AbstractInv, [SI!Next]_(SI!vars)
    PROVE  AbstractInv'
<1>1. CASE \E t \in TxnIds : SI!Begin(t)
  BY <1>1, BeginKeeps, SMT
<1>2. CASE \E t \in TxnIds : SI!Commit(t)
  BY <1>2, CommitKeeps, SMT
<1>3. CASE \E t \in TxnIds : SI!Abort(t)
  BY <1>3, EndKeeps, SMT DEF SI!Abort
<1>4. CASE \E t \in TxnIds, r \in Rows, v \in SI!Vals : SI!Write(t, r, v)
  BY <1>4, WriteKeeps, SMT
<1>5. CASE SI!Crash
  BY <1>5, EndKeeps, SMT DEF SI!Crash
<1>6. CASE UNCHANGED SI!vars
  BY <1>6, Zenon DEF SI!vars, AbstractInv, AbstractShape, SI!ViewIsSnapshot, SI!FirstCommitterWins
<1> QED BY <1>1, <1>2, <1>3, <1>4, <1>5, <1>6 DEF SI!Next

\* The abstract promise: a transaction reads one committed state until it ends, and
\* the rows it wrote nobody else wrote or committed since its snapshot.
THEOREM AbstractIsolation == SI!Spec => [](SI!ViewIsSnapshot /\ SI!FirstCommitterWins)
<1>1. SI!Init => AbstractInv
  BY SMT DEF SI!Init, AbstractInv, AbstractShape, SI!ViewIsSnapshot, SI!FirstCommitterWins, SI!Nothing
<1>2. AbstractInv /\ [SI!Next]_(SI!vars) => AbstractInv'
  BY AbstractInductive
<1>3. AbstractInv => SI!ViewIsSnapshot /\ SI!FirstCommitterWins
  BY DEF AbstractInv
<1> QED BY <1>1, <1>2, <1>3, PTL DEF SI!Spec

\* The promise behind Transaction::Get and Transaction::Commit (txn.cpp, database.cpp):
\* whatever others do, and however crashes cut them short, a transaction reads the
\* committed state of its start_ts_ wherever it has not written itself, and the rows
\* it wrote nobody else wrote or committed since then.
THEOREM SnapshotIsolationHolds ==
    ASSUME MaxFaults = 0
    PROVE  Spec => [](SI!ViewIsSnapshot /\ SI!FirstCommitterWins)
<1>1. Spec => SI!Spec
  BY ImplementsIsolation DEF ImplementsSnapshotIsolation
<1> QED BY <1>1, AbstractIsolation, PTL
=============================================================================
