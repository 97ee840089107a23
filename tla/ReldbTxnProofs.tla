--------------------------- MODULE ReldbTxnProofs ---------------------------
(**********************************************************************************)
(* The transactions of ReldbTxn for any number of rows, transactions, versions    *)
(* and crashes, as long as the engine returns no errors (MaxFaults = 0).  First   *)
(* the commit protocol: ProtocolInv (ReldbTxnInv) is inductive; facts about the   *)
(* operators, one lemma per action (begin and writes; commit; recovery and        *)
(* crash), combined in StepInv.  Then version chains: LifetimeInv is inductive    *)
(* relative to it.  The newest committed version of a row is at its head or right *)
(* below a provisional head, and what still has to be stamped is at the head of   *)
(* its row; hence the committed versions of a row never overlap in time.  Last,   *)
(* for any number of errors and no crash, where a transaction starts.             *)
(**********************************************************************************)
EXTENDS ReldbTxnInv, TLAPS

\* Zenon proves every leaf that names no other prover.
USE Zenon

\* Program points, so that the provers need not expand the enumerations.
LEMMA Pcs ==
    /\ \A x \in OpRet : x # "none" => x \in OpPc
    /\ "persist" \in OpPc /\ "beginMeta" \in OpPc /\ "putVersion" \in OpPc
    /\ "setHead" \in OpPc /\ "writeMeta" \in OpPc /\ "intent" \in OpPc
    /\ "apply" \in OpPc /\ "committed" \in OpPc /\ "restore" \in OpPc
    /\ "recover" \in OpPc /\ "idle" \in OpPc /\ "down" \in OpPc
    /\ "none" \in OpRet /\ "beginMeta" \in OpRet /\ "putVersion" \in OpRet
    /\ "committed" \in OpRet /\ "recover" \in OpRet
BY DEF OpPc, OpRet

\* The two resting states of the handler are well typed.
LEMMA IdleType == Idle \in OpType /\ Down \in OpType
BY BoundsAssumption, SMT DEF Idle, Down, Op, OpType, Vals, OpPc, OpRet

\* The fields of the two resting states that the invariants read.
LEMMA IdleFields ==
    /\ Idle.pc = "idle" /\ Idle.t = 0 /\ Idle.by = "client"
    /\ Down.pc = "down" /\ Down.t = 0 /\ Down.by = "client"
BY DEF Idle, Down, Op

\* Transaction and version ids are bounded positive naturals.
LEMMA Ids ==
    /\ \A t \in TxnIds : t \in Nat /\ t >= 1 /\ t <= MaxTxn
    /\ \A v \in VersionIds : v \in Nat /\ v >= 1 /\ v <= MaxVersion
    /\ VersionIds \subseteq 0 .. MaxVersion
BY BoundsAssumption, SMT DEF TxnIds, VersionIds

\* A handler that returns leaves no obligation on its locals.
LEMMA IdleNext ==
    ASSUME op' = Idle
    PROVE  /\ op' \in OpType /\ op'.pc = "idle" /\ op'.by = "client"
           /\ BeginInv' /\ WriteInv' /\ CommitInv' /\ RestoreInv' /\ RecoverInv' /\ ReturnInv'
<1>1. op' \in OpType /\ op'.pc = "idle" /\ op'.by = "client"
  BY IdleType, IdleFields
<1> QED BY <1>1 DEF BeginInv, WriteInv, CommitInv, RestoreInv, RecoverInv, ReturnInv, At

\* Nor does a process that dies.
LEMMA DownNext ==
    ASSUME op' = Down
    PROVE  /\ op' \in OpType /\ op'.pc = "down" /\ op'.by = "client"
           /\ BeginInv' /\ WriteInv' /\ CommitInv' /\ RestoreInv' /\ ReturnInv'
<1>1. op' \in OpType /\ op'.pc = "down" /\ op'.by = "client"
  BY IdleType, IdleFields
<1> QED BY <1>1 DEF BeginInv, WriteInv, CommitInv, RestoreInv, ReturnInv, At

\* Membership in a write list, after written_.push_back.
LEMMA Listed ==
    ASSUME NEW w \in Seq(TxnWrite), NEW e \in TxnWrite, NEW r, NEW v
    PROVE  /\ ~Lists(<<>>, r, v)
           /\ Append(w, e) \in Seq(TxnWrite)
           /\ Lists(Append(w, e), r, v) <=> Lists(w, r, v) \/ (e.row = r /\ e.vid = v)
<1>1. /\ Append(w, e) \in Seq(TxnWrite) /\ Len(Append(w, e)) = Len(w) + 1 /\ Len(w) \in Nat
      /\ \A j \in 1 .. Len(w) : Append(w, e)[j] = w[j]
      /\ Append(w, e)[Len(w) + 1] = e
  BY SMT
<1>2. ~Lists(<<>>, r, v)
  BY SMT DEF Lists
<1>3. Lists(Append(w, e), r, v) => Lists(w, r, v) \/ (e.row = r /\ e.vid = v)
  <2>1. \A j \in 1 .. Len(w) + 1 : j \in 1 .. Len(w) \/ j = Len(w) + 1
    BY <1>1, SMT
  <2> QED BY <1>1, <2>1 DEF Lists
<1>4. Lists(w, r, v) \/ (e.row = r /\ e.vid = v) => Lists(Append(w, e), r, v)
  <2>1. \A j \in 1 .. Len(w) : j \in 1 .. Len(w) + 1
    BY <1>1, SMT
  <2>2. Len(w) + 1 \in 1 .. Len(w) + 1
    BY <1>1, SMT
  <2> QED BY <1>1, <2>1, <2>2 DEF Lists
<1> QED BY <1>1, <1>2, <1>3, <1>4

\* An entry of a write list names a row and a version id.
LEMMA Entry ==
    ASSUME NEW w \in Seq(TxnWrite), NEW j \in 1 .. Len(w)
    PROVE  w[j] \in TxnWrite /\ w[j].row \in Rows /\ w[j].vid \in VersionIds
<1>1. w[j] \in TxnWrite
  BY SMT
<1> QED BY <1>1 DEF TxnWrite

\* Loop index arithmetic of ApplyCommitWrites.
LEMMA Bump ==
    ASSUME NEW n \in Nat, NEW i \in 1 .. n
    PROVE  /\ i \in Nat /\ i + 1 \in Nat /\ i + 1 \in 1 .. n + 1
           /\ \A j \in 1 .. i + 1 - 1 : j \in 1 .. i - 1 \/ j = i
           /\ \A j \in 1 .. i - 1 : j \in 1 .. n
           /\ \A m : m = i + 1 => m \in 1 .. n + 1 /\ \A j \in 1 .. m - 1 : j \in 1 .. i - 1 \/ j = i
BY SMT

\* The handler at the next index of its write list.
NextWrite(o) == [o EXCEPT !.i = @ + 1]

\* What the loop keeps when it goes on to the next index.
LEMMA NextIndex ==
    ASSUME NEW o \in OpType, o.i + 1 \in Nat
    PROVE  /\ NextWrite(o) \in OpType /\ NextWrite(o).pc = o.pc /\ NextWrite(o).t = o.t
           /\ NextWrite(o).by = o.by /\ NextWrite(o).w = o.w /\ NextWrite(o).cts = o.cts
           /\ NextWrite(o).i = o.i + 1
BY SMT DEF OpType, NextWrite

\* A version id that is at most a prev_id: that one is not 0.
LEMMA AtMost ==
    \A v \in VersionIds, p \in 0 .. MaxVersion : v <= p => p # 0 /\ (v # p => v < p)
BY Ids, SMT

\* Versions that are ordered differ.
LEMMA Irreflexive == \A u, v \in VersionIds : u < v => u # v
BY Ids, SMT

\* A timestamp is at most itself.
LEMMA Reflexive == \A n \in Nat : n <= n
BY SMT

\* Order of version ids.
LEMMA Below ==
    ASSUME NEW v \in VersionIds, NEW p \in 0 .. MaxVersion, NEW u \in VersionIds, p < v, u = v \/ u <= p
    PROVE  u <= v
BY Ids, SMT

\* Order of timestamps along a chain.
LEMMA Chained ==
    \A x, y : \A c \in Nat :
        /\ x.start_ts \in Nat /\ x.end_ts \in Nat /\ y.start_ts \in Nat
        /\ x.start_ts < y.start_ts /\ x.end_ts <= y.start_ts /\ y.start_ts < c
        => x.start_ts < c /\ x.end_ts <= c
BY SMT

\* Nothing above a version is at or below its predecessor.
LEMMA NotAbove ==
    \A v, u \in VersionIds, p \in 0 .. MaxVersion : p < v /\ v < u => ~(u <= p)
BY Ids, SMT

\* Past the end of the loop every index has been visited.
LEMMA Passed ==
    ASSUME NEW n \in Nat, NEW i \in Nat, i > n, NEW j \in 1 .. n
    PROVE  j \in 1 .. i - 1
BY SMT

\* Recovery moves the timestamp counter past a commit timestamp.
LEMMA Raised ==
    ASSUME NEW o \in Oracle, NEW c \in Nat, NEW p,
           p = o \/ (c >= o.ts /\ p = [o EXCEPT !.ts = c + 1])
    PROVE  p \in Oracle /\ p.ts >= o.ts /\ p.txn = o.txn /\ p.vid = o.vid
BY SMT DEF Oracle

\* A prev_id or head that is not 0 is a version id.
LEMMA Vid == \A p \in 0 .. MaxVersion : p # 0 => p \in VersionIds
BY BoundsAssumption, SMT DEF VersionIds

\* Steps that change neither which versions there are, nor their owners and
\* prev_ids, nor anything else durable.
LEMMA SkeletonFrame ==
    ASSUME TypeOK, ProtocolInv,
           \A r \in Rows, v \in VersionIds :
               /\ Exists(r, v)' <=> Exists(r, v)
               /\ Exists(r, v) => /\ ver'[r][v].prev_id = ver[r][v].prev_id
                                  /\ ver'[r][v].created_by = ver[r][v].created_by,
           UNCHANGED <<head, meta, stored, next, txn>>,
           op.pc \in {"idle", "apply"}, op'.pc \in {"idle", "apply"}
    PROVE  OracleInv' /\ ListInv' /\ HeadInv'
<1> USE DEF ProtocolInv
<1>1. OracleInv'
  BY DEF OracleInv
<1>2. ListInv'
  <2>1. \A r \in Rows, v \in VersionIds, t \in TxnIds :
           Exists(r, v)' /\ ver'[r][v].created_by = t <=> Exists(r, v) /\ ver[r][v].created_by = t
    OBVIOUS
  <2> QED BY <2>1, SMT DEF ListInv, Lists
<1>3. HeadInv'
  <2>1. \A r \in Rows : head[r] # 0 => head[r] \in VersionIds
    BY BoundsAssumption, SMT DEF TypeOK, VersionIds
  <2>2. \A r \in Rows, v \in VersionIds : Exists(r, v) /\ ver[r][v].prev_id # 0 =>
           ver[r][v].prev_id \in VersionIds
    BY BoundsAssumption, SMT DEF TypeOK, Exists, VersionRecord, VersionIds
  <2>3. \A r \in Rows : head'[r] # 0 => Exists(r, head[r])'
    BY <2>1 DEF HeadInv, Exists
  <2>4. \A r \in Rows, v \in VersionIds :
          Exists(r, v)' /\ ver'[r][v].prev_id # 0 => Exists(r, ver[r][v].prev_id)'
    BY <2>2, SMT DEF HeadInv, Exists
  <2> QED BY <2>3, <2>4 DEF HeadInv, At
<1> QED BY <1>1, <1>2, <1>3

\* PersistOracles preserves the invariant.
LEMMA PersistOraclesStep ==
    ASSUME TypeOK, ProtocolInv, PersistOracles
    PROVE  TypeOK' /\ ProtocolInv'
<1> USE DEF ProtocolInv
<1>1. /\ op.pc = "persist" /\ op.ret \in {"beginMeta", "putVersion", "committed", "recover"}
      /\ op.ret \in OpPc /\ op.ret \in OpRet /\ op \in OpType
      /\ stored \in Oracle /\ next \in Oracle
      /\ UNCHANGED <<ver, head, meta, next, txn, crashes, faults>>
  BY Pcs DEF TypeOK, PersistOracles, OpType, OpRet, ReturnInv
<1>14. 0 \in 0 .. 3 /\ 2 \in 0 .. 3 /\ 3 \in 0 .. 3
  BY SMT
<1>2. /\ op' \in OpType /\ op'.t = op.t /\ op'.by = op.by /\ op'.r = op.r /\ op'.prev = op.prev
      /\ \/ op.k = 1 /\ op'.k = 2 /\ op'.pc = "persist" /\ op'.ret = op.ret
         \/ op.k = 2 /\ op'.k = 3 /\ op'.pc = "persist" /\ op'.ret = op.ret
         \/ op.k = 3 /\ op'.pc = op.ret
  <2>1. CASE op.k = 1
    <3>1. op' = [op EXCEPT !.k = 2]
      BY <2>1, SMT DEF PersistOracles
    <3> QED BY <3>1, <1>1, <1>14, <2>1 DEF OpType
  <2>2. CASE op.k = 2
    <3>1. op' = [op EXCEPT !.k = 3]
      BY <2>2, SMT DEF PersistOracles
    <3> QED BY <3>1, <1>1, <1>14, <2>2 DEF OpType
  <2>3. CASE op.k = 3
    <3>1. op' = [op EXCEPT !.pc = op.ret, !.k = 0, !.ret = "none"]
      BY <2>3, SMT DEF PersistOracles
    <3> QED BY <3>1, <1>1, <1>14, <2>3, Pcs DEF OpType
  <2> QED BY <2>1, <2>2, <2>3 DEF PersistOracles
<1>3. /\ stored' \in Oracle
      /\ stored'.ts \in {stored.ts, next.ts}
      /\ stored'.txn \in {stored.txn, next.txn}
      /\ stored'.vid \in {stored.vid, next.vid}
      /\ op'.pc = "persist" /\ op'.k = 3 => stored'.txn = next.txn
      /\ op.k = 3 => stored'.vid = next.vid /\ stored'.txn = stored.txn
  <2>1. CASE op.k = 1
    BY <1>1, <1>2, <2>1, SMT DEF PersistOracles, Oracle
  <2>2. CASE op.k = 2
    BY <1>1, <1>2, <2>2, SMT DEF PersistOracles, Oracle
  <2>3. CASE op.k = 3
    BY <1>1, <1>2, <2>3, SMT DEF PersistOracles, Oracle
  <2> QED BY <2>1, <2>2, <2>3 DEF PersistOracles
<1>4. TypeOK'
  BY <1>1, <1>2, <1>3 DEF TypeOK
<1>5. OracleInv'
  <2>1. stored.txn <= stored'.txn /\ stored.vid <= stored'.vid
    BY <1>1, <1>3, SMT DEF Oracle, OracleInv
  <2>2. \A t \in TxnIds : t \in Nat
    BY BoundsAssumption, SMT DEF TxnIds
  <2>3. \A v \in VersionIds : v \in Nat
    BY BoundsAssumption, SMT DEF VersionIds
  <2> QED BY <1>1, <1>2, <1>3, <2>1, <2>2, <2>3, SMT DEF Oracle, OracleInv, Exists
<1>6. BeginInv'
  BY <1>1, <1>2, <1>3 DEF Oracle, BeginInv, At
<1>7. WriteInv'
  BY <1>1, <1>2, <1>3 DEF WriteInv, At, Exists, NewVid, Provisional
<1>8. CommitInv' /\ RestoreInv'
  BY <1>1, <1>2 DEF CommitInv, RestoreInv, At
<1>12. RecoverInv'
  BY <1>1, <1>2 DEF RecoverInv, At
<1>13. ReturnInv'
  BY <1>1, <1>2, SMT DEF ReturnInv
<1>9. StateInv'
  BY <1>1, <1>2 DEF StateInv, At
<1>10. VersionInv'
  BY <1>1 DEF VersionInv, Exists
<1>11. ListInv'
  BY <1>1, <1>2, SMT DEF ListInv, Exists, NewVid
<1>15. HeadInv'
  BY <1>1, <1>2 DEF HeadInv, Exists, At
<1> QED BY <1>4, <1>5, <1>6, <1>7, <1>8, <1>9, <1>10, <1>11, <1>12, <1>13, <1>15

\* Begin preserves the invariant.
LEMMA BeginStep ==
    ASSUME TypeOK, ProtocolInv, Begin
    PROVE  TypeOK' /\ ProtocolInv'
<1> USE DEF ProtocolInv
<1>1. /\ op = Idle /\ next.txn <= MaxTxn /\ next \in Oracle /\ stored \in Oracle
      /\ next' = [next EXCEPT !.txn = @ + 1]
      /\ UNCHANGED <<ver, head, meta, stored, txn, crashes, faults>>
      /\ txn \in [TxnIds -> TxnObject]
  BY DEF Begin, TypeOK
<1>2. op.pc = "idle" /\ op.t = 0 /\ op.by = "client"
  BY <1>1, IdleFields
<1>3. /\ op' \in OpType /\ op'.t = next.txn /\ op'.by = "client"
      /\ op'.pc = "persist" /\ op'.ret = "beginMeta" /\ op'.k = 1
  <2>1. op' = [Idle EXCEPT !.t = next.txn, !.pc = "persist", !.k = 1, !.ret = "beginMeta"]
    BY DEF Begin, Persist
  <2>2. next.txn \in Nat /\ 1 \in 0 .. 3
    BY <1>1, SMT DEF Oracle
  <2> QED BY <2>1, <2>2, Pcs, IdleType, IdleFields DEF OpType
<1>4. /\ next' \in Oracle /\ next'.ts = next.ts /\ next'.txn = next.txn + 1
      /\ next'.vid = next.vid
  BY <1>1, SMT DEF Oracle
<1>5. next.txn >= 1
  BY <1>2 DEF OracleInv
<1>6. next.txn \in TxnIds /\ meta[next.txn].state = "NotFound" /\ txn[next.txn].st = "none"
  <2>1. next.txn \in TxnIds
    BY <1>1, <1>5, BoundsAssumption, SMT DEF Oracle, TxnIds
  <2>2. meta[next.txn].state = "NotFound"
    BY <1>1, <1>2, <2>1, SMT DEF Oracle, OracleInv
  <2> QED BY <2>1, <2>2 DEF StateInv
<1>7. TypeOK'
  BY <1>1, <1>3, <1>4 DEF TypeOK
<1>8. OracleInv'
  BY <1>1, <1>2, <1>3, <1>4, BoundsAssumption, SMT DEF Oracle, OracleInv, Exists
<1>9. BeginInv'
  BY <1>1, <1>3, <1>4, <1>6, SMT DEF Oracle, BeginInv, At
<1>10. WriteInv' /\ CommitInv' /\ RestoreInv'
  BY <1>3 DEF WriteInv, CommitInv, RestoreInv, At
<1>14. RecoverInv'
  BY <1>3 DEF RecoverInv, At
<1>15. ReturnInv'
  BY <1>3, SMT DEF ReturnInv
<1>11. StateInv'
  BY <1>1, <1>2, <1>3, <1>4 DEF TxnObject, Oracle, StateInv, At
<1>12. VersionInv'
  BY <1>1 DEF VersionInv, Exists
<1>13. ListInv'
  BY <1>1, <1>2, SMT DEF ListInv, Exists
<1>16. HeadInv'
  BY <1>1, <1>3 DEF HeadInv, Exists, At
<1> QED BY <1>7, <1>8, <1>9, <1>10, <1>11, <1>12, <1>13, <1>14, <1>15, <1>16

\* BeginMeta preserves the invariant.
LEMMA BeginMetaStep ==
    ASSUME TypeOK, ProtocolInv, BeginMeta
    PROVE  TypeOK' /\ ProtocolInv'
<1> USE DEF ProtocolInv
<1>1. /\ op.pc = "beginMeta" /\ op' = Idle
      /\ meta' = [meta EXCEPT ![op.t] = [NoMeta EXCEPT !.state = "Open"]]
      /\ txn' = [txn EXCEPT ![op.t] = [st |-> "open", start_ts |-> LastCommit, written |-> <<>>]]
      /\ UNCHANGED <<ver, head, stored, next, crashes, faults>>
      /\ next \in Oracle /\ meta \in [TxnIds -> TxnMeta] /\ txn \in [TxnIds -> TxnObject]
      /\ ver \in [Rows -> [VersionIds -> VersionRecord \cup {NoVersion}]]
  BY DEF BeginMeta, TypeOK
<1>2. /\ op.by = "client" /\ op.t \in TxnIds /\ op.t < stored.txn
      /\ meta[op.t].state = "NotFound" /\ txn[op.t].st = "none"
  BY <1>1 DEF BeginInv, At
<1>3. /\ op' \in OpType /\ op'.pc = "idle" /\ op'.by = "client"
      /\ BeginInv' /\ WriteInv' /\ CommitInv' /\ RestoreInv' /\ RecoverInv' /\ ReturnInv'
  BY <1>1, IdleNext
<1>4. /\ meta' \in [TxnIds -> TxnMeta]
      /\ meta'[op.t].state = "Open" /\ meta'[op.t].writes = <<>>
      /\ \A t \in TxnIds : t # op.t => meta'[t] = meta[t]
  <2>1. [NoMeta EXCEPT !.state = "Open"] = [state |-> "Open", commit_ts |-> 0, writes |-> <<>>]
    BY SMT DEF NoMeta
  <2>2. [state |-> "Open", commit_ts |-> 0, writes |-> <<>>] \in TxnMeta
    BY SMT DEF TxnMeta, TxnState
  <2> QED BY <1>1, <1>2, <2>1, <2>2
<1>5. /\ txn' \in [TxnIds -> TxnObject]
      /\ txn'[op.t].st = "open" /\ txn'[op.t].start_ts < next.ts /\ txn'[op.t].written = <<>>
      /\ \A t \in TxnIds : t # op.t => txn'[t] = txn[t]
  <2>1. LastCommit \in Nat /\ LastCommit < next.ts
    BY <1>1, SMT DEF OracleInv, Oracle, LastCommit
  <2>2. [st |-> "open", start_ts |-> LastCommit, written |-> <<>>] \in TxnObject
    BY <2>1, SMT DEF TxnObject
  <2> QED BY <1>1, <1>2, <2>1, <2>2
<1>6. TypeOK'
  BY <1>1, <1>3, <1>4, <1>5 DEF TypeOK
<1>7. OracleInv'
  BY <1>1, <1>2, <1>3, <1>4 DEF OracleInv, Exists
<1>8. StateInv'
  BY <1>1, <1>2, <1>3, <1>4, <1>5, SMT DEF StateInv, At
<1>9. \A r \in Rows, v \in VersionIds : Exists(r, v) =>
        ver[r][v].created_by # op.t /\ ver[r][v].created_by \in TxnIds
  BY <1>1, <1>2, SMT DEF VersionInv, VersionRecord, Exists
<1>10. VersionInv'
  BY <1>1, <1>4, <1>9, SMT DEF VersionInv, Exists
<1>11. ListInv'
  <2>1. ASSUME NEW t \in TxnIds, txn'[t].st = "open", NEW r \in Rows, NEW v \in VersionIds
        PROVE  /\ Lists(txn[t].written, r, v)' => Exists(r, v)' /\ ver'[r][v].created_by = t
               /\ Exists(r, v)' /\ ver'[r][v].created_by = t => Lists(txn[t].written, r, v)'
    BY <1>1, <1>4, <1>5, <1>9, <2>1, Listed, SMT DEF ListInv, Exists, Lists
  <2>2. ASSUME NEW t \in TxnIds, meta'[t].state \in {"Open", "Committing"},
               NEW r \in Rows, NEW v \in VersionIds, Lists(meta[t].writes, r, v)'
        PROVE  Exists(r, v)' /\ ver'[r][v].created_by = t
    BY <1>1, <1>4, <1>9, <2>2, Listed, SMT DEF ListInv, Exists, Lists
  <2>3. ASSUME NEW t \in TxnIds, meta'[t].state = "Committing"
        PROVE  /\ meta'[t].commit_ts >= 1
               /\ \A r \in Rows, v \in VersionIds :
                    Exists(r, v)' /\ ver'[r][v].created_by = t => Lists(meta[t].writes, r, v)'
    BY <1>1, <1>4, <2>3, SMT DEF ListInv, Exists, Lists
  <2> QED BY <2>1, <2>2, <2>3, SMT DEF ListInv
<1>12. HeadInv'
  BY <1>1, <1>3 DEF HeadInv, Exists, At
<1> QED BY <1>3, <1>6, <1>7, <1>8, <1>10, <1>11, <1>12

\* PutVersionValue preserves the invariant.
LEMMA PutVersionValueStep ==
    ASSUME TypeOK, ProtocolInv, PutVersionValue
    PROVE  TypeOK' /\ ProtocolInv'
<1> USE DEF ProtocolInv
<1> DEFINE rec == [start_ts |-> 0, end_ts |-> 0, prev_id |-> op.prev,
                   created_by |-> op.t, val |-> op.val]
<1>1. /\ op.pc = "putVersion" /\ op' = [op EXCEPT !.pc = "setHead"]
      /\ ver' = [ver EXCEPT ![op.r][NewVid] = rec]
      /\ UNCHANGED <<head, meta, stored, next, txn, crashes, faults>>
      /\ next \in Oracle /\ stored \in Oracle /\ op \in OpType
      /\ ver \in [Rows -> [VersionIds -> VersionRecord \cup {NoVersion}]]
  BY DEF PutVersionValue, TypeOK
<1>2. /\ op.by = "client" /\ op.t \in TxnIds /\ op.r \in Rows /\ NewVid \in VersionIds
      /\ txn[op.t].st = "open" /\ meta[op.t].state = "Open"
      /\ stored.vid = next.vid /\ \A r \in Rows : ~Exists(r, NewVid)
  BY <1>1 DEF WriteInv, At
<1>3. /\ op' \in OpType /\ op'.pc = "setHead" /\ op'.by = "client"
      /\ op'.t = op.t /\ op'.r = op.r /\ op'.prev = op.prev /\ NewVid' = NewVid
  BY <1>1, <1>2, Pcs DEF OpType, NewVid
<1>4. /\ rec \in VersionRecord /\ rec # NoVersion
      /\ rec.start_ts = 0 /\ rec.created_by = op.t /\ rec.prev_id = op.prev
  <2>1. 0 \in Nat /\ op.prev \in 0 .. MaxVersion /\ op.val \in Vals
    BY <1>1 DEF OpType
  <2> QED BY <1>2, <2>1, ValuesAssumption, SMT DEF VersionRecord
<1> HIDE DEF rec
<1>5. /\ ver' \in [Rows -> [VersionIds -> VersionRecord \cup {NoVersion}]]
      /\ ver'[op.r][NewVid] = rec
      /\ \A r \in Rows, v \in VersionIds : r # op.r \/ v # NewVid => ver'[r][v] = ver[r][v]
  BY <1>1, <1>2, <1>4
<1>6. TypeOK'
  BY <1>1, <1>3, <1>5 DEF TypeOK
<1>7. OracleInv'
  <2>1. NewVid < stored.vid
    BY <1>1, <1>2, SMT DEF NewVid, Oracle
  <2> QED BY <1>1, <1>3, <1>5, <2>1 DEF OracleInv, Exists
<1>8. BeginInv' /\ CommitInv' /\ RestoreInv' /\ ReturnInv'
  BY <1>3 DEF BeginInv, CommitInv, RestoreInv, ReturnInv, At
<1>9. WriteInv'
  BY <1>1, <1>2, <1>3, <1>4, <1>5 DEF WriteInv, At, Provisional, Exists
<1>10. RecoverInv'
  BY <1>1, <1>2, <1>3 DEF RecoverInv, At
<1>11. StateInv'
  BY <1>1, <1>2, <1>3, ZenonT(30) DEF StateInv, At
<1>12. VersionInv'
  BY <1>1, <1>2, <1>4, <1>5, SMT DEF VersionInv, Exists
<1>13. ListInv'
  BY <1>1, <1>2, <1>3, <1>4, <1>5, SMT DEF ListInv, Exists
<1>14. HeadInv'
  <2>1. \A r \in Rows, v \in VersionIds : Exists(r, v) => Exists(r, v)'
    BY <1>4, <1>5 DEF Exists
  <2>2. \A r \in Rows, v \in VersionIds : Exists(r, v) => v # NewVid /\ ver'[r][v] = ver[r][v]
    BY <1>2, <1>5
  <2>3. op.prev # 0 => Exists(op.r, op.prev) /\ op.prev \in VersionIds
    <3>1. op.prev \in 0 .. MaxVersion
      BY <1>1 DEF OpType
    <3> QED BY <1>1, <3>1, BoundsAssumption, SMT DEF HeadInv, At, VersionIds
  <2>4. \A r \in Rows : head[r] # 0 => head[r] \in VersionIds
    BY BoundsAssumption, SMT DEF TypeOK, VersionIds
  <2>5. \A r \in Rows, v \in VersionIds : Exists(r, v) /\ ver[r][v].prev_id # 0 =>
           ver[r][v].prev_id \in VersionIds
    BY BoundsAssumption, <1>1, SMT DEF Exists, VersionRecord, VersionIds
  <2>6. \A r \in Rows : head'[r] # 0 => Exists(r, head[r])'
    BY <1>1, <2>1, <2>4 DEF HeadInv, Exists
  <2>7. ASSUME NEW r \in Rows, NEW v \in VersionIds, Exists(r, v)', ver'[r][v].prev_id # 0
        PROVE  Exists(r, ver[r][v].prev_id)'
    <3>1. CASE r = op.r /\ v = NewVid
      BY <1>2, <1>4, <1>5, <2>1, <2>3, <2>7, <3>1 DEF Exists
    <3>2. CASE ~(r = op.r /\ v = NewVid)
      <4>1. Exists(r, v) /\ ver'[r][v] = ver[r][v]
        BY <1>5, <2>7, <3>2 DEF Exists
      <4> QED BY <2>1, <2>5, <2>7, <4>1 DEF HeadInv, Exists
    <3> QED BY <3>1, <3>2
  <2> QED BY <1>3, <2>6, <2>7 DEF HeadInv, At
<1> QED BY <1>6, <1>7, <1>8, <1>9, <1>10, <1>11, <1>12, <1>13, <1>14

\* SetHead preserves the invariant.
LEMMA SetHeadStep ==
    ASSUME TypeOK, ProtocolInv, SetHead
    PROVE  TypeOK' /\ ProtocolInv'
<1> USE DEF ProtocolInv
<1> DEFINE e == [row |-> op.r, vid |-> NewVid]
<1>1. /\ op.pc = "setHead" /\ op' = [op EXCEPT !.pc = "writeMeta"]
      /\ head' = [head EXCEPT ![op.r] = NewVid]
      /\ txn' = [txn EXCEPT ![op.t].written = Append(@, e)]
      /\ UNCHANGED <<ver, meta, stored, next, crashes, faults>>
      /\ head \in [Rows -> 0 .. MaxVersion] /\ txn \in [TxnIds -> TxnObject] /\ op \in OpType
  BY DEF SetHead, TypeOK
<1>2. /\ op.by = "client" /\ op.t \in TxnIds /\ op.r \in Rows /\ NewVid \in VersionIds
      /\ txn[op.t].st = "open" /\ meta[op.t].state = "Open"
      /\ Exists(op.r, NewVid) /\ ver[op.r][NewVid].created_by = op.t
  BY <1>1 DEF WriteInv, At, Provisional
<1>3. /\ op' \in OpType /\ op'.pc = "writeMeta" /\ op'.by = "client"
      /\ op'.t = op.t /\ op'.r = op.r /\ NewVid' = NewVid
  BY <1>1, <1>2, Pcs DEF OpType, NewVid
<1>4. e \in TxnWrite /\ e.row = op.r /\ e.vid = NewVid
  BY <1>2 DEF TxnWrite
<1> HIDE DEF e
<1>5. /\ txn' \in [TxnIds -> TxnObject]
      /\ txn'[op.t].st = "open" /\ txn'[op.t].start_ts = txn[op.t].start_ts
      /\ txn[op.t].written \in Seq(TxnWrite)
      /\ txn'[op.t].written = Append(txn[op.t].written, e)
      /\ \A t \in TxnIds : t # op.t => txn'[t] = txn[t]
  <2>1. txn[op.t].written \in Seq(TxnWrite) /\ txn[op.t] \in TxnObject
    BY <1>1, <1>2 DEF TxnObject
  <2>2. Append(txn[op.t].written, e) \in Seq(TxnWrite)
    BY <1>4, <2>1, SMT
  <2>3. [txn[op.t] EXCEPT !.written = Append(@, e)] \in TxnObject
    BY <2>1, <2>2 DEF TxnObject
  <2> QED BY <1>1, <1>2, <2>1, <2>3 DEF TxnObject
<1>6. TypeOK'
  <2>1. head' \in [Rows -> 0 .. MaxVersion]
    BY <1>1, <1>2, Ids
  <2> QED BY <1>1, <1>3, <1>5, <2>1 DEF TypeOK
<1>7. OracleInv' /\ VersionInv'
  BY <1>1, <1>3 DEF OracleInv, VersionInv, Exists
<1>8. BeginInv' /\ CommitInv' /\ RestoreInv' /\ ReturnInv'
  BY <1>3 DEF BeginInv, CommitInv, RestoreInv, ReturnInv, At
<1>9. WriteInv' /\ RecoverInv'
  BY <1>1, <1>2, <1>3, <1>5 DEF WriteInv, RecoverInv, At
<1>10. StateInv'
  BY <1>1, <1>2, <1>3, <1>5 DEF StateInv, At
<1>11. ListInv'
  <2>1. ASSUME NEW t \in TxnIds, txn'[t].st = "open", NEW r \in Rows, NEW v \in VersionIds
        PROVE  /\ Lists(txn[t].written, r, v)' => Exists(r, v)' /\ ver'[r][v].created_by = t
               /\ Exists(r, v)' /\ ver'[r][v].created_by = t => Lists(txn[t].written, r, v)'
    <3>1. CASE t # op.t
      BY <1>1, <1>2, <1>5, <2>1, <3>1, SMT DEF ListInv, Exists, Lists
    <3>2. CASE t = op.t
      <4>1. Lists(txn[t].written, r, v)' <=>
               Lists(txn[t].written, r, v) \/ (r = op.r /\ v = NewVid)
        <5>1. Lists(txn[t].written, r, v)' <=> Lists(Append(txn[t].written, e), r, v)
          BY <1>5, <3>2 DEF Lists
        <5> QED BY <1>4, <1>5, <3>2, <5>1, Listed, SMT
      <4> QED BY <1>1, <1>2, <3>2, <4>1, SMT DEF ListInv, Exists
    <3> QED BY <3>1, <3>2
  <2>2. \A t \in TxnIds : meta'[t].state \in {"Open", "Committing"} =>
          \A r \in Rows, v \in VersionIds :
              Lists(meta[t].writes, r, v)' => Exists(r, v)' /\ ver'[r][v].created_by = t
    BY <1>1, SMT DEF ListInv, Exists, Lists
  <2>3. \A t \in TxnIds : meta'[t].state = "Committing" =>
          /\ meta'[t].commit_ts >= 1
          /\ \A r \in Rows, v \in VersionIds :
                Exists(r, v)' /\ ver'[r][v].created_by = t => Lists(meta[t].writes, r, v)'
    BY <1>1, SMT DEF ListInv, Exists, Lists
  <2> QED BY <2>1, <2>2, <2>3, SMT DEF ListInv
<1>12. HeadInv'
  BY <1>1, <1>2, <1>3 DEF HeadInv, Exists, At
<1> QED BY <1>6, <1>7, <1>8, <1>9, <1>10, <1>11, <1>12

\* WriteMeta preserves the invariant.
LEMMA WriteMetaStep ==
    ASSUME TypeOK, ProtocolInv, WriteMeta
    PROVE  TypeOK' /\ ProtocolInv'
<1> USE DEF ProtocolInv
<1> DEFINE m == [state |-> "Open", commit_ts |-> 0, writes |-> txn[op.t].written]
<1>1. /\ op.pc = "writeMeta" /\ op' = Idle
      /\ meta' = [meta EXCEPT ![op.t] = m]
      /\ UNCHANGED <<ver, head, stored, next, txn, crashes, faults>>
      /\ meta \in [TxnIds -> TxnMeta] /\ txn \in [TxnIds -> TxnObject]
      /\ ver \in [Rows -> [VersionIds -> VersionRecord \cup {NoVersion}]]
  BY DEF WriteMeta, TypeOK
<1>2. /\ op.by = "client" /\ op.t \in TxnIds
      /\ txn[op.t].st = "open" /\ meta[op.t].state = "Open"
  BY <1>1 DEF WriteInv, At
<1>3. /\ op' \in OpType /\ op'.pc = "idle" /\ op'.by = "client"
      /\ BeginInv' /\ WriteInv' /\ CommitInv' /\ RestoreInv' /\ RecoverInv' /\ ReturnInv'
  BY <1>1, IdleNext
<1>4. m \in TxnMeta /\ m.state = "Open" /\ m.writes = txn[op.t].written
  <2>1. 0 \in Nat /\ txn[op.t].written \in Seq(TxnWrite)
    BY <1>1, <1>2 DEF TxnObject
  <2> QED BY <2>1 DEF TxnMeta, TxnState
<1> HIDE DEF m
<1>5. /\ meta' \in [TxnIds -> TxnMeta] /\ meta'[op.t] = m
      /\ \A t \in TxnIds : t # op.t => meta'[t] = meta[t]
  BY <1>1, <1>2, <1>4
<1>6. TypeOK'
  BY <1>1, <1>3, <1>5 DEF TypeOK
<1>7. OracleInv'
  BY <1>1, <1>2, <1>3, <1>4, <1>5 DEF OracleInv, Exists
<1>8. StateInv'
  BY <1>1, <1>2, <1>3, <1>4, <1>5 DEF StateInv, At
<1>9. VersionInv'
  <2>1. \A r \in Rows, v \in VersionIds : Exists(r, v) => ver[r][v].created_by \in TxnIds
    BY <1>1, ZenonT(30) DEF VersionRecord, Exists
  <2> QED BY <1>1, <1>2, <1>4, <1>5, <2>1, SMT DEF VersionInv, Exists
<1>10. ListInv'
  <2>1. \A t \in TxnIds : txn[t].st = "open" =>
          \A r \in Rows, v \in VersionIds :
              /\ Lists(txn[t].written, r, v)' => Exists(r, v)' /\ ver'[r][v].created_by = t
              /\ Exists(r, v)' /\ ver'[r][v].created_by = t => Lists(txn[t].written, r, v)'
    BY <1>1, SMT DEF ListInv, Exists, Lists
  <2>2. ASSUME NEW t \in TxnIds, meta'[t].state \in {"Open", "Committing"},
               NEW r \in Rows, NEW v \in VersionIds, Lists(meta[t].writes, r, v)'
        PROVE  Exists(r, v)' /\ ver'[r][v].created_by = t
    BY <1>1, <1>2, <1>4, <1>5, <2>2, SMT DEF ListInv, Exists, Lists
  <2>3. ASSUME NEW t \in TxnIds, meta'[t].state = "Committing"
        PROVE  /\ meta'[t].commit_ts >= 1
               /\ \A r \in Rows, v \in VersionIds :
                    Exists(r, v)' /\ ver'[r][v].created_by = t => Lists(meta[t].writes, r, v)'
    BY <1>1, <1>4, <1>5, <2>3, SMT DEF ListInv, Exists, Lists
  <2> QED BY <1>1, <2>1, <2>2, <2>3, SMT DEF ListInv
<1>11. HeadInv'
  BY <1>1, <1>3 DEF HeadInv, Exists, At
<1> QED BY <1>3, <1>6, <1>7, <1>8, <1>9, <1>10, <1>11

\* RewriteOwn preserves the invariant.
LEMMA RewriteOwnStep ==
    ASSUME TypeOK, ProtocolInv, NEW t \in TxnIds, NEW r \in Rows, NEW kind, NEW val \in Vals,
           op = Idle, txn[t].st = "open", RewriteOwn(t, r, kind, val)
    PROVE  TypeOK' /\ ProtocolInv'
<1> USE DEF ProtocolInv
<1>1. PICK i \in Written(t, r) :
         /\ ver' = [ver EXCEPT ![r][txn[t].written[i].vid].val = val]
         /\ UNCHANGED <<head, meta, stored, next, txn, op, crashes, faults>>
  BY DEF RewriteOwn
<1> DEFINE vid == txn[t].written[i].vid
<1>2. /\ ver \in [Rows -> [VersionIds -> VersionRecord \cup {NoVersion}]]
      /\ op \in OpType
      /\ txn[t].written \in Seq(TxnWrite) /\ i \in 1 .. Len(txn[t].written)
      /\ txn[t].written[i].row = r
  BY <1>1 DEF TypeOK, Written, TxnObject
<1>3. vid \in VersionIds /\ Lists(txn[t].written, r, vid)
  BY <1>2, Entry DEF Lists
<1> HIDE DEF vid
<1>4. Exists(r, vid) /\ ver[r][vid] \in VersionRecord
  BY <1>2, <1>3, SMT DEF ListInv, Exists
<1>5. /\ ver' \in [Rows -> [VersionIds -> VersionRecord \cup {NoVersion}]]
      /\ \A s \in Rows, v \in VersionIds :
            /\ Exists(s, v)' <=> Exists(s, v)
            /\ Exists(s, v) => /\ ver'[s][v].start_ts = ver[s][v].start_ts
                               /\ ver'[s][v].prev_id = ver[s][v].prev_id
                               /\ ver'[s][v].created_by = ver[s][v].created_by
  <2>1. ver' = [ver EXCEPT ![r][vid].val = val]
    BY <1>1 DEF vid
  <2>2. [ver[r][vid] EXCEPT !.val = val] \in VersionRecord
    BY <1>4 DEF VersionRecord
  <2>3. /\ ver' \in [Rows -> [VersionIds -> VersionRecord \cup {NoVersion}]]
        /\ ver'[r][vid] = [ver[r][vid] EXCEPT !.val = val]
        /\ \A s \in Rows, v \in VersionIds : s # r \/ v # vid => ver'[s][v] = ver[s][v]
    BY <1>2, <1>3, <2>1, <2>2
  <2>4. /\ ver'[r][vid].start_ts = ver[r][vid].start_ts
        /\ ver'[r][vid].prev_id = ver[r][vid].prev_id
        /\ ver'[r][vid].created_by = ver[r][vid].created_by
        /\ ver'[r][vid] # NoVersion
    BY <1>4, <2>2, <2>3, ValuesAssumption DEF VersionRecord
  <2> QED BY <1>4, <2>3, <2>4 DEF Exists
<1>6. TypeOK'
  BY <1>1, <1>5 DEF TypeOK
<1>7. op.pc = "idle"
  BY IdleFields
<1>8. /\ op'.pc = "idle"
      /\ BeginInv' /\ WriteInv' /\ CommitInv' /\ RestoreInv' /\ RecoverInv' /\ ReturnInv'
  BY <1>1, IdleNext
<1>9. StateInv'
  BY <1>1 DEF StateInv, At
<1>10. VersionInv'
  <2> SUFFICES ASSUME NEW s \in Rows, NEW v \in VersionIds, Exists(s, v)'
               PROVE  LET owner == meta'[ver'[s][v].created_by]
                      IN  /\ owner.state # "NotFound"
                          /\ ver'[s][v].start_ts # 0 =>
                                /\ owner.state \in {"Committing", "Committed"}
                                /\ ver'[s][v].start_ts = owner.commit_ts
                          /\ ver'[s][v].start_ts = 0 => owner.state # "Committed"
    BY DEF VersionInv
  <2>1. Exists(s, v) /\ ver'[s][v].start_ts = ver[s][v].start_ts
        /\ ver'[s][v].created_by = ver[s][v].created_by
    BY <1>5
  <2> QED BY <1>1, <2>1, ZenonT(30) DEF VersionInv
<1>11. OracleInv' /\ ListInv' /\ HeadInv'
  BY <1>1, <1>5, <1>7, <1>8, SkeletonFrame, ZenonT(30)
<1> QED BY <1>6, <1>8, <1>9, <1>10, <1>11

\* The prev_id that Write records is 0 or an existing version.
LEMMA PrevIdExists ==
    ASSUME TypeOK, ProtocolInv, NEW r \in Rows
    PROVE  PrevId(r) \in 0 .. MaxVersion /\ (PrevId(r) # 0 => Exists(r, PrevId(r)))
<1>1. /\ head[r] \in 0 .. MaxVersion
      /\ ver \in [Rows -> [VersionIds -> VersionRecord \cup {NoVersion}]]
  BY DEF TypeOK
<1>2. head[r] # 0 => head[r] \in VersionIds /\ Exists(r, head[r])
  BY <1>1, BoundsAssumption, SMT DEF VersionIds, ProtocolInv, HeadInv
<1>3. head[r] # 0 => ver[r][head[r]].prev_id \in 0 .. MaxVersion
  BY <1>1, <1>2 DEF Exists, VersionRecord
<1> QED BY <1>1, <1>2, <1>3 DEF PrevId, ProtocolInv, HeadInv

\* WriteNew preserves the invariant.
LEMMA WriteNewStep ==
    ASSUME TypeOK, ProtocolInv, NEW t \in TxnIds, NEW r \in Rows, NEW kind, NEW val \in Vals,
           op = Idle, txn[t].st = "open", WriteNew(t, r, kind, val)
    PROVE  TypeOK' /\ ProtocolInv'
<1> USE DEF ProtocolInv
<1>1. /\ next.vid <= MaxVersion /\ next \in Oracle /\ stored \in Oracle
      /\ next' = [next EXCEPT !.vid = @ + 1]
      /\ op' = Persist([Idle EXCEPT !.t = t, !.r = r, !.val = val, !.prev = PrevId(r)],
                       "putVersion")
      /\ UNCHANGED <<ver, head, meta, stored, txn, crashes, faults>>
  BY DEF WriteNew, TypeOK
<1>2. op.pc = "idle" /\ op.t = 0 /\ op.by = "client"
  BY IdleFields
<1>3. /\ op' \in OpType /\ op'.t = t /\ op'.by = "client" /\ op'.r = r /\ op'.prev = PrevId(r)
      /\ op'.pc = "persist" /\ op'.ret = "putVersion" /\ op'.k = 1
  <2>1. op' = [Idle EXCEPT !.t = t, !.r = r, !.val = val, !.prev = PrevId(r),
                           !.pc = "persist", !.k = 1, !.ret = "putVersion"]
    BY <1>1 DEF Persist
  <2>2. t \in Nat /\ 1 \in 0 .. 3 /\ PrevId(r) \in 0 .. MaxVersion
    BY Ids, PrevIdExists, SMT
  <2> QED BY <2>1, <2>2, Pcs, IdleType, IdleFields DEF OpType
<1>4. /\ next' \in Oracle /\ next'.ts = next.ts /\ next'.txn = next.txn
      /\ next'.vid = next.vid + 1 /\ NewVid' = next.vid
  BY <1>1, SMT DEF Oracle, NewVid
<1>5. next.vid \in VersionIds /\ \A s \in Rows : ~Exists(s, next.vid)
  <2>1. next.vid \in VersionIds
    BY <1>1, <1>2, BoundsAssumption, SMT DEF OracleInv, VersionIds, Oracle
  <2> QED BY <1>1, <1>2, <2>1, SMT DEF OracleInv, Oracle
<1>6. meta[t].state = "Open"
  BY <1>2 DEF StateInv, At
<1>7. TypeOK'
  BY <1>1, <1>3, <1>4 DEF TypeOK
<1>8. OracleInv'
  BY <1>1, <1>2, <1>3, <1>4, SMT DEF Oracle, OracleInv, Exists
<1>9. BeginInv' /\ CommitInv' /\ RestoreInv' /\ ReturnInv'
  BY <1>3, SMT DEF BeginInv, CommitInv, RestoreInv, ReturnInv, At
<1>10. WriteInv' /\ RecoverInv'
  BY <1>1, <1>3, <1>4, <1>5, <1>6, SMT DEF WriteInv, RecoverInv, At, Exists
<1>11. StateInv'
  BY <1>1, <1>2, <1>3, <1>4 DEF StateInv, At
<1>12. VersionInv'
  BY <1>1 DEF VersionInv, Exists
<1>13. ListInv'
  BY <1>1, <1>2, SMT DEF ListInv, Exists
<1>14. HeadInv'
  BY <1>1, <1>3, PrevIdExists, ZenonT(30) DEF HeadInv, Exists, At
<1> QED BY <1>7, <1>8, <1>9, <1>10, <1>11, <1>12, <1>13, <1>14

\* AbortTransaction, or a failed commit check, enters RestoreHeads.
LEMMA RestoringStep ==
    ASSUME TypeOK, ProtocolInv, NEW t \in TxnIds, op = Idle, txn[t].st = "open",
           op' = Restoring(t, txn[t].written, "client"),
           UNCHANGED <<ver, head, meta, stored, next, txn, crashes, faults>>
    PROVE  TypeOK' /\ ProtocolInv'
<1> USE DEF ProtocolInv
<1> DEFINE w == txn[t].written
<1>1. op.pc = "idle" /\ op.t = 0 /\ op.by = "client"
  BY IdleFields
<1>2. w \in Seq(TxnWrite) /\ Len(w) \in Nat
  BY SMT DEF TypeOK, TxnObject
<1>3. /\ op' \in OpType /\ op'.t = t /\ op'.by = "client" /\ op'.w = w
      /\ op'.pc = "restore" /\ op'.i = Len(w)
  <2>1. op' = [Idle EXCEPT !.pc = "restore", !.t = t, !.w = w, !.i = Len(w), !.by = "client"]
    BY DEF Restoring
  <2>2. t \in Nat
    BY Ids
  <2> HIDE DEF w
  <2> QED BY <1>2, <2>1, <2>2, Pcs, IdleType, ZenonT(30) DEF OpType
<1>4. meta[t].state = "Open"
  BY <1>1 DEF StateInv, At
<1>5. \A j \in 1 .. Len(w) : Exists(w[j].row, w[j].vid) /\ ver[w[j].row][w[j].vid].created_by = t
  <2> SUFFICES ASSUME NEW j \in 1 .. Len(w)
               PROVE  Exists(w[j].row, w[j].vid) /\ ver[w[j].row][w[j].vid].created_by = t
    OBVIOUS
  <2>1. w[j].row \in Rows /\ w[j].vid \in VersionIds
    BY <1>2, Entry
  <2>2. Lists(w, w[j].row, w[j].vid)
    BY DEF Lists
  <2> QED BY <2>1, <2>2, SMT DEF ListInv
<1>6. RestoreInv'
  <2>1. Len(w) \in 0 .. Len(w)
    BY <1>2, SMT
  <2> HIDE DEF w
  <2>2. op'.i \in 0 .. Len(op'.w)
    BY <1>3, <2>1
  <2>3. \A j \in 1 .. Len(op'.w) : Exists(op.w[j].row, op.w[j].vid)'
                         /\ ver'[op'.w[j].row][op'.w[j].vid].created_by = op'.t
    BY <1>3, <1>5 DEF Exists
  <2>4. op'.t \in TxnIds /\ meta'[op'.t].state = "Open" /\ txn'[op'.t].st = "open"
    BY <1>3, <1>4
  <2> QED BY <2>2, <2>3, <2>4 DEF RestoreInv
<1> HIDE DEF w
<1>7. TypeOK'
  BY <1>3 DEF TypeOK
<1>8. OracleInv' /\ VersionInv'
  BY <1>1, <1>3 DEF OracleInv, VersionInv, Exists
<1>9. BeginInv' /\ WriteInv' /\ CommitInv' /\ ReturnInv' /\ RecoverInv'
  BY <1>3 DEF BeginInv, WriteInv, CommitInv, ReturnInv, RecoverInv, At
<1>10. StateInv'
  BY <1>1, <1>3 DEF StateInv, At
<1>11. ListInv'
  BY <1>1, SMT DEF ListInv, Exists
<1>12. HeadInv'
  BY <1>3 DEF HeadInv, Exists, At
<1> QED BY <1>6, <1>7, <1>8, <1>9, <1>10, <1>11, <1>12

-----------------------------------------------------------------------------
\* Commit preserves the invariant.
LEMMA CommitStep ==
    ASSUME TypeOK, ProtocolInv, NEW t \in TxnIds, Commit(t)
    PROVE  TypeOK' /\ ProtocolInv'
<1> USE DEF ProtocolInv
<1>1. op = Idle /\ txn[t].st = "open"
      /\ UNCHANGED <<ver, head, meta, stored, txn, crashes, faults>>
  BY DEF Commit
<1>2. CASE ~CommitCheck(t)
  BY <1>1, <1>2, RestoringStep DEF Commit
<1>3. CASE CommitCheck(t)
  <2>1. /\ next \in Oracle /\ next' = [next EXCEPT !.ts = @ + 1]
        /\ op' = [Idle EXCEPT !.pc = "intent", !.t = t, !.cts = next.ts]
        /\ txn \in [TxnIds -> TxnObject]
    BY <1>3 DEF Commit, TypeOK
  <2>2. op.pc = "idle" /\ op.t = 0 /\ op.by = "client"
    BY <1>1, IdleFields
  <2>3. /\ next' \in Oracle /\ next'.ts = next.ts + 1 /\ next.ts \in Nat
        /\ next'.txn = next.txn /\ next'.vid = next.vid
    BY <2>1, SMT DEF Oracle
  <2>4. op' \in OpType /\ op'.t = t /\ op'.by = "client" /\ op'.pc = "intent" /\ op'.cts = next.ts
    <3>1. t \in Nat
      BY Ids
    <3> QED BY <2>1, <2>3, <3>1, Pcs, IdleType, IdleFields DEF OpType
  <2>5. meta[t].state = "Open"
    BY <1>1, <2>2 DEF StateInv, At
  <2>6. TypeOK'
    BY <1>1, <2>3, <2>4 DEF TypeOK
  <2>7. OracleInv' /\ VersionInv'
    BY <1>1, <2>2, <2>3, <2>4, SMT DEF OracleInv, VersionInv, Exists
  <2>8. BeginInv' /\ WriteInv' /\ RestoreInv' /\ ReturnInv' /\ RecoverInv'
    BY <2>4 DEF BeginInv, WriteInv, RestoreInv, ReturnInv, RecoverInv, At
  <2>9. CommitInv'
    <3>1. next.ts >= 1 /\ next.ts < next'.ts
      BY <2>3, SMT DEF OracleInv
    <3> QED BY <1>1, <2>4, <2>5, <3>1 DEF CommitInv, At
  <2>10. StateInv'
    <3>1. \A u \in TxnIds : txn[u].st = "open" => txn[u].start_ts < next'.ts
      BY <2>1, <2>3, SMT DEF StateInv, TxnObject
    <3> QED BY <1>1, <2>2, <2>4, <3>1 DEF StateInv, At
  <2>11. ListInv'
    BY <1>1, <2>2, SMT DEF ListInv, Exists
  <2>12. HeadInv'
    BY <1>1, <2>4 DEF HeadInv, Exists, At
  <2> QED BY <2>6, <2>7, <2>8, <2>9, <2>10, <2>11, <2>12
<1> QED BY <1>2, <1>3

\* Abort preserves the invariant.
LEMMA AbortStep ==
    ASSUME TypeOK, ProtocolInv, NEW t \in TxnIds, Abort(t)
    PROVE  TypeOK' /\ ProtocolInv'
BY RestoringStep DEF Abort

\* PutIntent preserves the invariant.
LEMMA PutIntentStep ==
    ASSUME TypeOK, ProtocolInv, PutIntent
    PROVE  TypeOK' /\ ProtocolInv'
<1> USE DEF ProtocolInv
<1> DEFINE m == [state |-> "Committing", commit_ts |-> op.cts, writes |-> txn[op.t].written]
<1>1. /\ op.pc = "intent" /\ op \in OpType
      /\ op' = Applying(op.t, txn[op.t].written, op.cts, "client")
      /\ meta' = [meta EXCEPT ![op.t] = m]
      /\ UNCHANGED <<ver, head, stored, next, txn, crashes, faults>>
      /\ meta \in [TxnIds -> TxnMeta] /\ txn \in [TxnIds -> TxnObject]
      /\ ver \in [Rows -> [VersionIds -> VersionRecord \cup {NoVersion}]]
  BY DEF PutIntent, TypeOK
<1>2. /\ op.by = "client" /\ op.t \in TxnIds /\ op.cts >= 1 /\ op.cts \in Nat
      /\ txn[op.t].st = "open" /\ meta[op.t].state = "Open"
      /\ txn[op.t].written \in Seq(TxnWrite)
  BY <1>1 DEF CommitInv, At, OpType, TxnObject
<1>3. /\ op' \in OpType /\ op'.pc = "apply" /\ op'.by = "client" /\ op'.t = op.t
      /\ op'.w = txn[op.t].written /\ op'.cts = op.cts /\ op'.i = 1
  <2>1. op' = [Idle EXCEPT !.pc = "apply", !.t = op.t, !.w = txn[op.t].written, !.i = 1,
                           !.cts = op.cts, !.by = "client"]
    BY <1>1 DEF Applying
  <2>2. op.t \in Nat /\ 1 \in Nat
    BY <1>2, Ids
  <2> QED BY <1>2, <2>1, <2>2, Pcs, IdleType, IdleFields DEF OpType
<1>4. /\ m \in TxnMeta /\ m.state = "Committing" /\ m.writes = txn[op.t].written
      /\ m.commit_ts = op.cts
  BY <1>2 DEF TxnMeta, TxnState
<1> HIDE DEF m
<1>5. /\ meta' \in [TxnIds -> TxnMeta] /\ meta'[op.t] = m
      /\ \A t \in TxnIds : t # op.t => meta'[t] = meta[t]
  BY <1>1, <1>2, <1>4
<1>6. TypeOK'
  BY <1>1, <1>3, <1>5 DEF TypeOK
<1>7. OracleInv'
  BY <1>1, <1>2, <1>3, <1>4, <1>5 DEF OracleInv, Exists
<1>8. BeginInv' /\ WriteInv' /\ RestoreInv' /\ ReturnInv' /\ RecoverInv'
  BY <1>3 DEF BeginInv, WriteInv, RestoreInv, ReturnInv, RecoverInv, At
<1>9. CommitInv'
  <2>1. op'.i \in 1 .. Len(op'.w) + 1 /\ 1 .. op'.i - 1 = {}
    BY <1>2, <1>3, SMT
  <2> QED BY <1>1, <1>2, <1>3, <1>4, <1>5, <2>1 DEF CommitInv, At
<1>10. StateInv'
  BY <1>1, <1>2, <1>3, <1>4, <1>5 DEF StateInv, At
<1>11. \A r \in Rows, v \in VersionIds : Exists(r, v) => ver[r][v].created_by \in TxnIds
  BY <1>1, SMT DEF VersionRecord, Exists
<1>12. VersionInv'
  BY <1>1, <1>2, <1>4, <1>5, <1>11, SMT DEF VersionInv, Exists
<1>13. ListInv'
  <2>1. \A t \in TxnIds : txn'[t].st = "open" =>
          \A r \in Rows, v \in VersionIds :
              /\ Lists(txn[t].written, r, v)' => Exists(r, v)' /\ ver'[r][v].created_by = t
              /\ Exists(r, v)' /\ ver'[r][v].created_by = t => Lists(txn[t].written, r, v)'
    BY <1>1, SMT DEF ListInv, Exists, Lists
  <2>2. ASSUME NEW t \in TxnIds, meta'[t].state \in {"Open", "Committing"},
               NEW r \in Rows, NEW v \in VersionIds, Lists(meta[t].writes, r, v)'
        PROVE  Exists(r, v)' /\ ver'[r][v].created_by = t
    BY <1>1, <1>2, <1>4, <1>5, <2>2, SMT DEF ListInv, Exists, Lists
  <2>3. ASSUME NEW t \in TxnIds, meta'[t].state = "Committing"
        PROVE  /\ meta'[t].commit_ts >= 1
               /\ \A r \in Rows, v \in VersionIds :
                    Exists(r, v)' /\ ver'[r][v].created_by = t => Lists(meta[t].writes, r, v)'
    <3>1. CASE t = op.t
      BY <1>1, <1>2, <1>4, <1>5, <2>1, <3>1, SMT DEF Lists
    <3>2. CASE t # op.t
      BY <1>1, <1>5, <2>3, <3>2, SMT DEF ListInv, Exists, Lists
    <3> QED BY <3>1, <3>2
  <2> QED BY <2>1, <2>2, <2>3, SMT DEF ListInv
<1>14. HeadInv'
  BY <1>1, <1>3 DEF HeadInv, Exists, At
<1> QED BY <1>6, <1>7, <1>8, <1>9, <1>10, <1>12, <1>13, <1>14

\* ApplyCommitWrites never meets Corruption: the version it is at belongs to the
\* transaction and is provisional or already carries this commit timestamp.
LEMMA ApplyFacts ==
    ASSUME TypeOK, ProtocolInv, op.pc = "apply", op.i <= Len(op.w)
    PROVE  LET r == op.w[op.i].row
               vid == op.w[op.i].vid
           IN  /\ op \in OpType /\ op.t \in TxnIds /\ op.cts >= 1
               /\ r \in Rows /\ vid \in VersionIds
               /\ Exists(r, vid) /\ ver[r][vid] \in VersionRecord
               /\ ver[r][vid].created_by = op.t
               /\ ver[r][vid].start_ts \in {0, op.cts}
               /\ op.i \in 1 .. Len(op.w)
<1> USE DEF ProtocolInv
<1>1. /\ op \in OpType /\ op.t \in TxnIds /\ op.w \in Seq(TxnWrite) /\ op.i \in Nat
      /\ meta[op.t].state = "Committing" /\ op.w = meta[op.t].writes
      /\ op.cts = meta[op.t].commit_ts
      /\ ver \in [Rows -> [VersionIds -> VersionRecord \cup {NoVersion}]]
  BY ZenonT(30) DEF CommitInv, TypeOK, OpType
<1>2. op.i \in 1 .. Len(op.w)
  BY <1>1, SMT DEF CommitInv
<1> DEFINE r == op.w[op.i].row
<1> DEFINE vid == op.w[op.i].vid
<1>3. r \in Rows /\ vid \in VersionIds /\ Lists(meta[op.t].writes, r, vid)
  BY <1>1, <1>2, Entry DEF Lists
<1> HIDE DEF r, vid
<1>4. Exists(r, vid) /\ ver[r][vid].created_by = op.t
  BY <1>1, <1>3, SMT DEF ListInv
<1>5. op.cts >= 1
  BY <1>1 DEF ListInv
<1>6. ver[r][vid].start_ts \in {0, op.cts}
  BY <1>1, <1>3, <1>4 DEF VersionInv
<1>7. ver[r][vid] \in VersionRecord
  BY <1>1, <1>3, <1>4, SMT DEF Exists
<1> QED BY <1>1, <1>2, <1>3, <1>4, <1>5, <1>6, <1>7 DEF r, vid

\* A step of ApplyCommitWrites that stamps at most versions of its transaction.
LEMMA ApplyFrame ==
    ASSUME TypeOK, ProtocolInv, op.pc = "apply", op'.pc = "apply",
           ver' \in [Rows -> [VersionIds -> VersionRecord \cup {NoVersion}]],
           \A r \in Rows, v \in VersionIds :
               /\ Exists(r, v)' <=> Exists(r, v)
               /\ Exists(r, v) => /\ ver'[r][v].prev_id = ver[r][v].prev_id
                                  /\ ver'[r][v].created_by = ver[r][v].created_by
                                  /\ \/ ver'[r][v].start_ts = ver[r][v].start_ts
                                     \/ /\ ver[r][v].created_by = op.t
                                        /\ ver'[r][v].start_ts = op.cts,
           op.cts >= 1,
           op' \in OpType, op'.t = op.t, op'.by = op.by, op'.w = op.w, op'.cts = op.cts,
           op'.i \in 1 .. Len(op.w) + 1,
           \A j \in 1 .. op'.i - 1 : ver'[op.w[j].row][op.w[j].vid].start_ts = op.cts,
           UNCHANGED <<head, meta, stored, next, txn, crashes, faults>>
    PROVE  TypeOK' /\ ProtocolInv'
<1> USE DEF ProtocolInv
<1>1. TypeOK'
  BY DEF TypeOK
<1>2. BeginInv' /\ WriteInv' /\ RestoreInv' /\ ReturnInv' /\ RecoverInv'
  BY ZenonT(30) DEF BeginInv, WriteInv, RestoreInv, ReturnInv, RecoverInv, At
<1>3. CommitInv'
  BY DEF CommitInv, At
<1>4. StateInv'
  BY DEF StateInv, At
<1>5. OracleInv' /\ ListInv' /\ HeadInv'
  BY SkeletonFrame
<1>6. VersionInv'
  <2> SUFFICES ASSUME NEW s \in Rows, NEW v \in VersionIds, Exists(s, v)'
               PROVE  LET owner == meta'[ver'[s][v].created_by]
                      IN  /\ owner.state # "NotFound"
                          /\ ver'[s][v].start_ts # 0 =>
                                /\ owner.state \in {"Committing", "Committed"}
                                /\ ver'[s][v].start_ts = owner.commit_ts
                          /\ ver'[s][v].start_ts = 0 => owner.state # "Committed"
    BY DEF VersionInv
  <2>1. Exists(s, v) /\ ver'[s][v].created_by = ver[s][v].created_by
    OBVIOUS
  <2>2. CASE ver'[s][v].start_ts = ver[s][v].start_ts
    BY <2>1, <2>2 DEF VersionInv
  <2>3. CASE ver[s][v].created_by = op.t /\ ver'[s][v].start_ts = op.cts
    BY <2>1, <2>3 DEF CommitInv
  <2> QED BY <2>1, <2>2, <2>3, ZenonT(30)
<1> QED BY <1>1, <1>2, <1>3, <1>4, <1>5, <1>6

\* ApplyCommitWrites preserves the invariant.
LEMMA ApplyCommitWritesStep ==
    ASSUME TypeOK, ProtocolInv, ApplyCommitWrites
    PROVE  TypeOK' /\ ProtocolInv'
<1> USE DEF ProtocolInv
<1>0. Len(op.w) \in Nat /\ op.i \in 1 .. Len(op.w)
  <2>1. op.pc = "apply" /\ op.i <= Len(op.w) /\ op \in OpType
    BY DEF ApplyCommitWrites, TypeOK
  <2>2. op.i \in 1 .. Len(op.w)
    BY <2>1, ApplyFacts
  <2> QED BY <2>1, <2>2, SMT DEF OpType
<1> DEFINE r == op.w[op.i].row
           vid == op.w[op.i].vid
           rec == ver[r][vid]
           prev == IF rec.prev_id = 0 THEN NoVersion ELSE ver[r][rec.prev_id]
<1>1. /\ op.pc = "apply" /\ op.i <= Len(op.w)
      /\ UNCHANGED <<head, meta, stored, next, txn, crashes, faults>>
      /\ ver \in [Rows -> [VersionIds -> VersionRecord \cup {NoVersion}]]
  BY DEF ApplyCommitWrites, TypeOK
<1>2. /\ op \in OpType /\ op.t \in TxnIds /\ op.cts >= 1
      /\ r \in Rows /\ vid \in VersionIds
      /\ Exists(r, vid) /\ rec \in VersionRecord /\ rec # NoVersion
      /\ rec.created_by = op.t /\ rec.start_ts \in {0, op.cts}
      /\ op.i \in 1 .. Len(op.w)
  BY <1>1, ApplyFacts DEF Exists
<1>3. /\ op.w \in Seq(TxnWrite) /\ op.cts \in Nat /\ op.i \in Nat
      /\ \A j \in 1 .. op.i - 1 : ver[op.w[j].row][op.w[j].vid].start_ts = op.cts
      /\ \A j \in 1 .. Len(op.w) : Exists(op.w[j].row, op.w[j].vid)
                                   /\ op.w[j].row \in Rows /\ op.w[j].vid \in VersionIds
  <2>1. /\ op.w \in Seq(TxnWrite) /\ op.cts \in Nat /\ op.i \in Nat
        /\ op.w = meta[op.t].writes /\ meta[op.t].state = "Committing"
        /\ \A j \in 1 .. op.i - 1 : ver[op.w[j].row][op.w[j].vid].start_ts = op.cts
    BY <1>1, <1>2 DEF OpType, CommitInv
  <2>2. ASSUME NEW j \in 1 .. Len(op.w)
        PROVE  Exists(op.w[j].row, op.w[j].vid)
               /\ op.w[j].row \in Rows /\ op.w[j].vid \in VersionIds
    <3>1. op.w[j].row \in Rows /\ op.w[j].vid \in VersionIds
      BY <2>1, Entry
    <3> DEFINE s == op.w[j].row
    <3> DEFINE v == op.w[j].vid
    <3>2. s \in Rows /\ v \in VersionIds /\ Lists(meta[op.t].writes, s, v)
      BY <2>1, <3>1 DEF Lists
    <3>3. op.t \in TxnIds
      BY <1>2, ZenonT(30)
    <3> HIDE DEF s, v
    <3>4. Exists(s, v)
      BY <2>1, <3>2, <3>3 DEF ListInv
    <3> QED BY <3>1, <3>4 DEF s, v
  <2> QED BY <2>1, <2>2
<1>4. ASSUME op' = [op EXCEPT !.i = @ + 1]
      PROVE  /\ op' \in OpType /\ op'.pc = "apply" /\ op'.t = op.t /\ op'.by = op.by
             /\ op'.w = op.w /\ op'.cts = op.cts /\ op'.i = op.i + 1
             /\ op'.i \in 1 .. Len(op.w) + 1
             /\ \A j \in 1 .. op'.i - 1 : j \in 1 .. op.i - 1 \/ j = op.i
  <2>1. op.i + 1 \in Nat /\ op.i + 1 \in 1 .. Len(op.w) + 1
        /\ \A j \in 1 .. op.i + 1 - 1 : j \in 1 .. op.i - 1 \/ j = op.i
    BY <1>0, Bump
  <2>2. op \in OpType /\ op.pc = "apply"
    BY <1>1, <1>2
  <2>3. op' = NextWrite(op)
    BY <1>4 DEF NextWrite
  <2>4. /\ op' \in OpType /\ op'.pc = op.pc /\ op'.t = op.t /\ op'.by = op.by
        /\ op'.w = op.w /\ op'.cts = op.cts /\ op'.i = op.i + 1
    BY <2>1, <2>2, <2>3, NextIndex
  <2>5. PICK n : n = op'.i
    OBVIOUS
  <2>6. n = op.i + 1
    BY <2>4, <2>5
  <2>7. n \in 1 .. Len(op.w) + 1 /\ \A j \in 1 .. n - 1 : j \in 1 .. op.i - 1 \/ j = op.i
    BY <1>0, <2>6, Bump
  <2> QED BY <2>2, <2>4, <2>5, <2>7
<1>5. \/ rec.start_ts = op.cts /\ op' = [op EXCEPT !.i = @ + 1] /\ UNCHANGED ver
      \/ /\ rec.start_ts = 0 /\ prev # NoVersion
         /\ ver' = [ver EXCEPT ![r][rec.prev_id].end_ts = op.cts] /\ UNCHANGED op
      \/ /\ rec.start_ts = 0
         /\ ver' = [ver EXCEPT ![r][vid].start_ts = op.cts]
         /\ op' = [op EXCEPT !.i = @ + 1]
  BY <1>2 DEF ApplyCommitWrites
<1>6. CASE rec.start_ts = op.cts /\ op' = [op EXCEPT !.i = @ + 1] /\ UNCHANGED ver
  <2>1. \A j \in 1 .. op'.i - 1 : ver'[op.w[j].row][op.w[j].vid].start_ts = op.cts
    BY <1>3, <1>4, <1>6
  <2> HIDE DEF r, vid
  <2> QED BY <1>1, <1>2, <1>4, <1>6, <2>1, ApplyFrame DEF Exists
<1>7. CASE /\ rec.start_ts = 0 /\ prev # NoVersion
           /\ ver' = [ver EXCEPT ![r][rec.prev_id].end_ts = op.cts] /\ UNCHANGED op
  <2> DEFINE p == rec.prev_id
  <2>1. p \in VersionIds /\ ver[r][p] \in VersionRecord
    <3>1. p # 0 /\ ver[r][p] # NoVersion /\ p \in 0 .. MaxVersion
      BY <1>2, <1>7 DEF VersionRecord
    <3>2. p \in VersionIds
      BY <3>1, Vid
    <3> QED BY <1>1, <1>2, <3>1, <3>2, ZenonT(30)
  <2> HIDE DEF r, vid, p
  <2>2. [ver[r][p] EXCEPT !.end_ts = op.cts] \in VersionRecord
    BY <1>3, <2>1 DEF VersionRecord
  <2>3. /\ ver' \in [Rows -> [VersionIds -> VersionRecord \cup {NoVersion}]]
        /\ ver'[r][p] = [ver[r][p] EXCEPT !.end_ts = op.cts]
        /\ \A s \in Rows, v \in VersionIds : s # r \/ v # p => ver'[s][v] = ver[s][v]
    BY <1>1, <1>2, <1>7, <2>1, <2>2 DEF p
  <2>4. /\ ver'[r][p].start_ts = ver[r][p].start_ts /\ ver'[r][p].prev_id = ver[r][p].prev_id
        /\ ver'[r][p].created_by = ver[r][p].created_by
        /\ ver'[r][p] # NoVersion /\ ver[r][p] # NoVersion
    BY <2>1, <2>2, <2>3, ValuesAssumption DEF VersionRecord
  <2>5. \A s \in Rows, v \in VersionIds :
            /\ Exists(s, v)' <=> Exists(s, v)
            /\ Exists(s, v) => /\ ver'[s][v].start_ts = ver[s][v].start_ts
                               /\ ver'[s][v].prev_id = ver[s][v].prev_id
                               /\ ver'[s][v].created_by = ver[s][v].created_by
    BY <2>3, <2>4, ZenonT(30) DEF Exists
  <2>6. \A j \in 1 .. op'.i - 1 : ver'[op.w[j].row][op.w[j].vid].start_ts = op.cts
    <3>1. \A j \in 1 .. op.i - 1 : j \in 1 .. Len(op.w)
      BY <1>2, <1>3, SMT
    <3> QED BY <1>3, <1>7, <2>5, <3>1, SMT
  <2>7. op'.i \in 1 .. Len(op.w) + 1
    BY <1>2, <1>3, <1>7, SMT
  <2> QED BY <1>1, <1>2, <1>7, <2>3, <2>5, <2>6, <2>7, ApplyFrame
<1>8. CASE /\ rec.start_ts = 0
           /\ ver' = [ver EXCEPT ![r][vid].start_ts = op.cts]
           /\ op' = [op EXCEPT !.i = @ + 1]
  <2>1. r = op.w[op.i].row /\ vid = op.w[op.i].vid
    OBVIOUS
  <2> HIDE DEF r, vid
  <2>2. [ver[r][vid] EXCEPT !.start_ts = op.cts] \in VersionRecord
    BY <1>2, <1>3 DEF VersionRecord
  <2>3. /\ ver' \in [Rows -> [VersionIds -> VersionRecord \cup {NoVersion}]]
        /\ ver'[r][vid] = [ver[r][vid] EXCEPT !.start_ts = op.cts]
        /\ \A s \in Rows, v \in VersionIds : s # r \/ v # vid => ver'[s][v] = ver[s][v]
    BY <1>1, <1>2, <1>8, <2>2
  <2>4. /\ ver'[r][vid].start_ts = op.cts /\ ver'[r][vid].prev_id = ver[r][vid].prev_id
        /\ ver'[r][vid].created_by = ver[r][vid].created_by
        /\ ver'[r][vid] # NoVersion /\ ver[r][vid] # NoVersion
    BY <1>2, <2>2, <2>3, ValuesAssumption DEF VersionRecord
  <2>5. \A s \in Rows, v \in VersionIds :
            /\ Exists(s, v)' <=> Exists(s, v)
            /\ Exists(s, v) => /\ ver'[s][v].prev_id = ver[s][v].prev_id
                               /\ ver'[s][v].created_by = ver[s][v].created_by
                               /\ \/ ver'[s][v].start_ts = ver[s][v].start_ts
                                  \/ /\ ver[s][v].created_by = op.t
                                     /\ ver'[s][v].start_ts = op.cts
    BY <1>2, <2>3, <2>4 DEF Exists
  <2>6. \A j \in 1 .. op'.i - 1 : ver'[op.w[j].row][op.w[j].vid].start_ts = op.cts
    <3>1. \A j \in 1 .. op.i - 1 : j \in 1 .. Len(op.w)
      BY <1>2, <1>3, SMT
    <3>2. ASSUME NEW j \in 1 .. op.i - 1
          PROVE  ver'[op.w[j].row][op.w[j].vid].start_ts = op.cts
      <4>1. /\ ver[op.w[j].row][op.w[j].vid].start_ts = op.cts
            /\ op.w[j].row \in Rows /\ op.w[j].vid \in VersionIds
        BY <1>3, <3>1
      <4> QED BY <2>3, <2>4, <4>1
    <3> QED BY <1>4, <1>8, <2>1, <2>4, <3>2
  <2> QED BY <1>1, <1>2, <1>4, <1>8, <2>3, <2>5, <2>6, ApplyFrame
<1> QED BY <1>5, <1>6, <1>7, <1>8

-----------------------------------------------------------------------------
\* PutCommitted preserves the invariant.
LEMMA PutCommittedStep ==
    ASSUME TypeOK, ProtocolInv, PutCommitted
    PROVE  TypeOK' /\ ProtocolInv'
<1> USE DEF ProtocolInv
<1> DEFINE m == [state |-> "Committed", commit_ts |-> op.cts, writes |-> <<>>]
<1>1. /\ op.pc = "apply" /\ op.i > Len(op.w) /\ op \in OpType
      /\ meta' = [meta EXCEPT ![op.t] = m]
      /\ UNCHANGED <<ver, head, stored, txn, crashes, faults>>
      /\ meta \in [TxnIds -> TxnMeta] /\ txn \in [TxnIds -> TxnObject]
      /\ next \in Oracle /\ stored \in Oracle
      /\ ver \in [Rows -> [VersionIds -> VersionRecord \cup {NoVersion}]]
  BY DEF PutCommitted, TypeOK
<1>2. /\ op.t \in TxnIds /\ op.cts \in Nat /\ op.w \in Seq(TxnWrite) /\ op.i \in Nat
      /\ op.by \in {"client", "Open"}
      /\ op.by = "client" => txn[op.t].st = "open"
      /\ meta[op.t].state = "Committing"
      /\ op.cts = meta[op.t].commit_ts /\ op.w = meta[op.t].writes
      /\ op.i \in 1 .. Len(op.w) + 1
      /\ \A j \in 1 .. op.i - 1 : ver[op.w[j].row][op.w[j].vid].start_ts = op.cts
  BY <1>1 DEF CommitInv, OpType
<1>3. op.cts >= 1
  BY <1>2 DEF ListInv
<1>4. \A r \in Rows, v \in VersionIds :
         Exists(r, v) /\ ver[r][v].created_by = op.t => ver[r][v].start_ts = op.cts
  <2> SUFFICES ASSUME NEW r \in Rows, NEW v \in VersionIds, Exists(r, v),
                      ver[r][v].created_by = op.t
               PROVE  ver[r][v].start_ts = op.cts
    BY ZenonT(30)
  <2>1. Lists(op.w, r, v)
    BY <1>2, ZenonT(30) DEF ListInv
  <2>2. PICK j \in 1 .. Len(op.w) : op.w[j].row = r /\ op.w[j].vid = v
    BY <2>1, ZenonT(30) DEF Lists
  <2>3. Len(op.w) \in Nat
    BY <1>2, SMT
  <2>4. j \in 1 .. op.i - 1
    BY <1>1, <1>2, <2>3, Passed
  <2> QED BY <1>2, <2>2, <2>4
<1>5. /\ op' \in OpType
      /\ \/ /\ op.by = "client" /\ next' = next
            /\ op'.pc = "persist" /\ op'.k = 1 /\ op'.ret = "committed"
            /\ op'.t = op.t /\ op'.by = "client"
         \/ /\ op.by = "Open" /\ op'.t = op.t + 1 /\ op'.by = "Open"
            /\ \/ op.cts >= next.ts /\ next' = [next EXCEPT !.ts = op.cts + 1]
                  /\ op'.pc = "persist" /\ op'.k = 1 /\ op'.ret = "recover"
               \/ next' = next /\ op'.pc = "recover"
  <2>1. op.t \in Nat /\ op.t + 1 \in Nat /\ 1 \in 0 .. 3
    BY <1>2, Ids, SMT
  <2>2. CASE op.by = "client"
    <3>1. /\ op' = [Idle EXCEPT !.t = op.t, !.pc = "persist", !.k = 1, !.ret = "committed"]
          /\ next' = next
      BY <2>2 DEF PutCommitted, Persist
    <3> QED BY <2>1, <2>2, <3>1, Pcs, IdleType, IdleFields DEF OpType
  <2>3. CASE op.by = "Open" /\ op.cts >= next.ts
    <3>1. /\ op' = [Idle EXCEPT !.t = op.t + 1, !.by = "Open",
                                !.pc = "persist", !.k = 1, !.ret = "recover"]
          /\ next' = [next EXCEPT !.ts = op.cts + 1]
      BY <2>3 DEF PutCommitted, Persist
    <3> QED BY <2>1, <2>3, <3>1, Pcs, IdleType, IdleFields DEF OpType
  <2>4. CASE op.by = "Open" /\ ~(op.cts >= next.ts)
    <3>1. /\ op' = [Idle EXCEPT !.pc = "recover", !.t = op.t + 1, !.by = "Open"]
          /\ next' = next
      BY <2>4, ZenonT(30) DEF PutCommitted
    <3> QED BY <2>1, <2>4, <3>1, Pcs, IdleType, IdleFields DEF OpType
  <2> QED BY <1>2, <2>2, <2>3, <2>4
<1>6. next' \in Oracle /\ next'.ts >= next.ts /\ next'.txn = next.txn /\ next'.vid = next.vid
  <2>1. next' = next \/ (op.cts >= next.ts /\ next' = [next EXCEPT !.ts = op.cts + 1])
    BY <1>5
  <2> QED BY <1>1, <1>2, <2>1, Raised
<1>7. m \in TxnMeta /\ m.state = "Committed" /\ m.commit_ts = op.cts
  BY <1>2, SMT DEF TxnMeta, TxnState
<1> HIDE DEF m
<1>8. /\ meta' \in [TxnIds -> TxnMeta] /\ meta'[op.t] = m
      /\ \A t \in TxnIds : t # op.t => meta'[t] = meta[t]
  BY <1>1, <1>2, <1>7
<1>9. TypeOK'
  BY <1>1, <1>5, <1>6, <1>8, ZenonT(30) DEF TypeOK
<1>10. OracleInv'
  <2>1. next.ts \in Nat /\ next'.ts \in Nat /\ next.ts >= 1
    BY <1>1, <1>6 DEF OracleInv, Oracle
  <2>2. next'.ts >= 1
    BY <1>6, <2>1, SMT
  <2> QED BY <1>1, <1>2, <1>5, <1>6, <1>8, <2>2 DEF OracleInv, Exists
<1>11. BeginInv' /\ WriteInv' /\ RestoreInv' /\ ReturnInv'
  BY <1>5, SMT DEF BeginInv, WriteInv, RestoreInv, ReturnInv, At
<1>12. CommitInv'
  BY <1>1, <1>2, <1>5, <1>7, <1>8 DEF CommitInv, At
<1>13. RecoverInv'
  <2>1. op.by = "Open" => op'.t >= 1
    BY <1>2, <1>5, Ids, SMT
  <2> QED BY <1>1, <1>5, <2>1, ZenonT(30) DEF RecoverInv, At
<1>14. StateInv'
  <2> SUFFICES ASSUME NEW t \in TxnIds
               PROVE  /\ meta'[t].state = "Committing" => op'.by = "Open" /\ t >= op'.t
                      /\ meta'[t].state = "Open" =>
                            txn'[t].st = "open" \/ (op'.by = "Open" /\ t >= op'.t)
                      /\ txn'[t].st # "none" => meta'[t].state # "NotFound"
                      /\ txn'[t].st = "open" =>
                            /\ txn'[t].start_ts < next'.ts
                            /\ \/ meta'[t].state = "Open"
                               \/ op'.t = t /\ At({"committed"})'
    BY ZenonT(30) DEF StateInv
  <2>1. op.by = "Open" => /\ t # op.t /\ t >= op.t => t >= op'.t
                          /\ txn[t].st = "none"
    BY <1>1, <1>2, <1>5, Ids, SMT DEF RecoverInv
  <2>2. txn[t].st = "open" => txn[t].start_ts < next'.ts
    BY <1>1, <1>6, SMT DEF StateInv, TxnObject, Oracle
  <2>3. CASE t = op.t
    BY <1>1, <1>2, <1>5, <1>7, <1>8, <2>1, <2>2, <2>3, ZenonT(30) DEF StateInv, At
  <2>4. CASE t # op.t
    BY <1>1, <1>2, <1>5, <1>8, <2>1, <2>2, <2>4 DEF StateInv, At
  <2> QED BY <2>3, <2>4
<1>15. VersionInv'
  <2>1. \A r \in Rows, v \in VersionIds : Exists(r, v) => ver[r][v].created_by \in TxnIds
    BY <1>1, SMT DEF VersionRecord, Exists
  <2> SUFFICES ASSUME NEW r \in Rows, NEW v \in VersionIds, Exists(r, v)
               PROVE  LET owner == meta'[ver[r][v].created_by]
                      IN  /\ owner.state # "NotFound"
                          /\ ver[r][v].start_ts # 0 =>
                                /\ owner.state \in {"Committing", "Committed"}
                                /\ ver[r][v].start_ts = owner.commit_ts
                          /\ ver[r][v].start_ts = 0 => owner.state # "Committed"
    BY <1>1, SMT DEF VersionInv, Exists
  <2>2. CASE ver[r][v].created_by = op.t
    <3>1. ver[r][v].start_ts = op.cts /\ op.cts # 0
      BY <1>2, <1>3, <1>4, <2>2, SMT
    <3> QED BY <1>7, <1>8, <2>2, <3>1, ZenonT(30)
  <2>3. CASE ver[r][v].created_by # op.t
    BY <1>8, <2>1, <2>3 DEF VersionInv
  <2> QED BY <2>2, <2>3
<1>16. ListInv'
  BY <1>1, <1>5, <1>7, <1>8, SMT DEF ListInv, Exists, Lists
<1>17. HeadInv'
  BY <1>1, <1>5 DEF HeadInv, Exists, At
<1> QED BY <1>9, <1>10, <1>11, <1>12, <1>13, <1>14, <1>15, <1>16, <1>17

\* CommitDone preserves the invariant.
LEMMA CommitDoneStep ==
    ASSUME TypeOK, ProtocolInv, CommitDone
    PROVE  TypeOK' /\ ProtocolInv'
<1> USE DEF ProtocolInv
<1>1. /\ op.pc = "committed" /\ op' = Idle
      /\ txn' = [txn EXCEPT ![op.t].st = "finished"]
      /\ UNCHANGED <<ver, head, meta, stored, next, crashes, faults>>
      /\ txn \in [TxnIds -> TxnObject]
  BY DEF CommitDone, TypeOK
<1>2. /\ op.by = "client" /\ op.t \in TxnIds
      /\ txn[op.t].st = "open" /\ meta[op.t].state = "Committed"
  BY <1>1 DEF CommitInv, At
<1>3. /\ op' \in OpType /\ op'.pc = "idle" /\ op'.by = "client"
      /\ BeginInv' /\ WriteInv' /\ CommitInv' /\ RestoreInv' /\ RecoverInv' /\ ReturnInv'
  BY <1>1, IdleNext
<1>4. /\ txn' \in [TxnIds -> TxnObject] /\ txn'[op.t].st = "finished"
      /\ \A t \in TxnIds : t # op.t => txn'[t] = txn[t]
  BY <1>1, <1>2 DEF TxnObject
<1>5. TypeOK'
  BY <1>1, <1>3, <1>4 DEF TypeOK
<1>6. OracleInv' /\ VersionInv'
  BY <1>1, <1>3 DEF OracleInv, VersionInv, Exists
<1>7. StateInv'
  BY <1>1, <1>2, <1>3, <1>4 DEF StateInv, At
<1>8. ListInv'
  BY <1>1, <1>4, SMT DEF ListInv, Exists
<1>9. HeadInv'
  BY <1>1, <1>3 DEF HeadInv, Exists, At
<1> QED BY <1>3, <1>5, <1>6, <1>7, <1>8, <1>9

\* RestoreHeads preserves the invariant.
LEMMA RestoreHeadsStep ==
    ASSUME TypeOK, ProtocolInv, RestoreHeads
    PROVE  TypeOK' /\ ProtocolInv'
<1> USE DEF ProtocolInv
<1>1. /\ op.pc = "restore" /\ op.i > 0 /\ op \in OpType
      /\ op' = [op EXCEPT !.i = @ - 1]
      /\ head' = IF head[op.w[op.i].row] # op.w[op.i].vid THEN head
                 ELSE [head EXCEPT ![op.w[op.i].row] =
                          ver[op.w[op.i].row][op.w[op.i].vid].prev_id]
      /\ UNCHANGED <<ver, meta, stored, next, txn, crashes, faults>>
      /\ head \in [Rows -> 0 .. MaxVersion]
      /\ ver \in [Rows -> [VersionIds -> VersionRecord \cup {NoVersion}]]
  BY DEF RestoreHeads, TypeOK
<1>2. op.w \in Seq(TxnWrite) /\ op.i \in Nat /\ Len(op.w) \in Nat /\ op.i \in 1 .. Len(op.w)
  BY <1>1, SMT DEF OpType, RestoreInv
<1> DEFINE r == op.w[op.i].row
<1> DEFINE v == op.w[op.i].vid
<1>3. r \in Rows /\ v \in VersionIds /\ Exists(r, v)
  BY <1>1, <1>2, Entry DEF RestoreInv
<1>4. head' = head \/ head' = [head EXCEPT ![r] = ver[r][v].prev_id]
  BY <1>1
<1> HIDE DEF r, v
<1>5. /\ ver[r][v].prev_id \in 0 .. MaxVersion
      /\ ver[r][v].prev_id # 0 => Exists(r, ver[r][v].prev_id)
  BY <1>1, <1>3 DEF HeadInv, Exists, VersionRecord
<1>6. /\ op' \in OpType /\ op'.pc = "restore" /\ op'.t = op.t /\ op'.by = op.by /\ op'.w = op.w
      /\ op'.i = op.i - 1 /\ op'.i \in 0 .. Len(op.w)
  <2>1. op.i - 1 \in Nat /\ op.i - 1 \in 0 .. Len(op.w)
    BY <1>2, SMT
  <2> QED BY <1>1, <2>1 DEF OpType
<1>7. TypeOK'
  <2>1. head' \in [Rows -> 0 .. MaxVersion]
    BY <1>1, <1>3, <1>4, <1>5, ZenonT(30)
  <2> QED BY <1>1, <1>6, <2>1 DEF TypeOK
<1>8. OracleInv' /\ VersionInv'
  BY <1>1, <1>6 DEF OracleInv, VersionInv, Exists
<1>9. BeginInv' /\ WriteInv' /\ CommitInv' /\ ReturnInv'
  BY <1>6, ZenonT(30) DEF BeginInv, WriteInv, CommitInv, ReturnInv, At
<1>10. RestoreInv'
  BY <1>1, <1>6 DEF RestoreInv, Exists
<1>11. RecoverInv'
  BY <1>1, <1>6, ZenonT(30) DEF RecoverInv, At
<1>12. StateInv'
  BY <1>1, <1>6 DEF StateInv, At
<1>13. ListInv'
  BY <1>1, SMT DEF ListInv, Exists
<1>14. HeadInv'
  <2>1. ASSUME NEW s \in Rows, head'[s] # 0
        PROVE  Exists(s, head[s])'
    BY <1>1, <1>3, <1>4, <1>5, <2>1 DEF HeadInv, Exists
  <2> QED BY <1>1, <1>6, <2>1 DEF HeadInv, Exists, At
<1> QED BY <1>7, <1>8, <1>9, <1>10, <1>11, <1>12, <1>13, <1>14

\* PutAborted preserves the invariant.
LEMMA PutAbortedStep ==
    ASSUME TypeOK, ProtocolInv, PutAborted
    PROVE  TypeOK' /\ ProtocolInv'
<1> USE DEF ProtocolInv
<1>1. /\ op.pc = "restore" /\ op \in OpType
      /\ meta' = [meta EXCEPT ![op.t] = [NoMeta EXCEPT !.state = "Aborted"]]
      /\ \/ /\ op.by = "Open" /\ txn' = txn
            /\ op' = [Idle EXCEPT !.pc = "recover", !.t = op.t + 1, !.by = "Open"]
         \/ /\ op.by # "Open" /\ op' = Idle /\ txn' = [txn EXCEPT ![op.t].st = "finished"]
      /\ UNCHANGED <<ver, head, stored, next, crashes, faults>>
      /\ meta \in [TxnIds -> TxnMeta] /\ txn \in [TxnIds -> TxnObject]
      /\ ver \in [Rows -> [VersionIds -> VersionRecord \cup {NoVersion}]]
  BY DEF PutAborted, TypeOK
<1>2. /\ op.t \in TxnIds /\ op.t \in Nat /\ meta[op.t].state = "Open"
      /\ op.by \in {"client", "Open"} /\ (op.by = "client" => txn[op.t].st = "open")
  BY <1>1, Ids DEF RestoreInv, OpType
<1>3. /\ meta' \in [TxnIds -> TxnMeta] /\ meta'[op.t].state = "Aborted"
      /\ \A t \in TxnIds : t # op.t => meta'[t] = meta[t]
  <2>1. [NoMeta EXCEPT !.state = "Aborted"] = [state |-> "Aborted", commit_ts |-> 0, writes |-> <<>>]
    BY SMT DEF NoMeta
  <2>2. [state |-> "Aborted", commit_ts |-> 0, writes |-> <<>>] \in TxnMeta
    BY SMT DEF TxnMeta, TxnState
  <2> QED BY <1>1, <1>2, <2>1, <2>2
<1>4. VersionInv'
  <2>1. \A r \in Rows, v \in VersionIds : Exists(r, v) => ver[r][v].created_by \in TxnIds
    BY <1>1, SMT DEF VersionRecord, Exists
  <2> QED BY <1>1, <1>2, <1>3, <2>1, SMT DEF VersionInv, Exists
<1>5. CASE op.by = "client"
  <2>1. /\ op' \in OpType /\ op'.pc = "idle" /\ op'.by = "client"
        /\ BeginInv' /\ WriteInv' /\ CommitInv' /\ RestoreInv' /\ RecoverInv' /\ ReturnInv'
    BY <1>1, <1>5, IdleNext
  <2>2. /\ txn' \in [TxnIds -> TxnObject] /\ txn'[op.t].st = "finished"
        /\ \A t \in TxnIds : t # op.t => txn'[t] = txn[t]
    BY <1>1, <1>2, <1>5, ZenonT(30) DEF TxnObject
  <2>3. TypeOK'
    BY <1>1, <1>3, <2>1, <2>2 DEF TypeOK
  <2>4. OracleInv'
    BY <1>1, <1>2, <1>3, <2>1 DEF OracleInv, Exists
  <2>5. StateInv'
    BY <1>1, <1>2, <1>3, <1>5, <2>1, <2>2, SMT DEF StateInv, At
  <2>6. ListInv'
    BY <1>1, <1>3, <2>2, SMT DEF ListInv, Exists
  <2>7. HeadInv'
    BY <1>1, <2>1 DEF HeadInv, Exists, At
  <2> QED BY <1>4, <2>1, <2>3, <2>4, <2>5, <2>6, <2>7
<1>6. CASE op.by = "Open"
  <2>1. txn' = txn /\ op' \in OpType /\ op'.pc = "recover" /\ op'.by = "Open" /\ op'.t = op.t + 1
    <3>1. op' = [Idle EXCEPT !.pc = "recover", !.t = op.t + 1, !.by = "Open"] /\ txn' = txn
      BY <1>1, <1>6
    <3>2. op.t + 1 \in Nat
      BY <1>2, SMT
    <3> QED BY <3>1, <3>2, Pcs, IdleType DEF OpType
  <2>2. TypeOK'
    BY <1>1, <1>3, <2>1 DEF TypeOK
  <2>3. OracleInv'
    BY <1>1, <1>2, <1>3, <2>1, ZenonT(30) DEF OracleInv, Exists
  <2>4. BeginInv' /\ WriteInv' /\ CommitInv' /\ RestoreInv' /\ ReturnInv'
    BY <2>1 DEF BeginInv, WriteInv, CommitInv, RestoreInv, ReturnInv, At
  <2>5. RecoverInv'
    BY <1>1, <1>2, <1>6, <2>1, SMT DEF RecoverInv, At
  <2>6. StateInv'
    <3>1. \A t \in TxnIds : t # op.t /\ t >= op.t => t >= op'.t
      BY <1>2, <2>1, Ids, SMT
    <3>2. \A t \in TxnIds : txn[t].st = "none"
      BY <1>6 DEF RecoverInv
    <3> QED BY <1>1, <1>2, <1>3, <1>6, <2>1, <3>1, <3>2 DEF StateInv, At
  <2>7. ListInv'
    BY <1>1, <1>3, <2>1, SMT DEF ListInv, Exists
  <2>8. HeadInv'
    BY <1>1, <2>1 DEF HeadInv, Exists, At
  <2> QED BY <1>4, <2>2, <2>3, <2>4, <2>5, <2>6, <2>7, <2>8
<1> QED BY <1>2, <1>5, <1>6

\* Crash preserves the invariant.
LEMMA CrashStep ==
    ASSUME TypeOK, ProtocolInv, Crash
    PROVE  TypeOK' /\ ProtocolInv'
<1> USE DEF ProtocolInv
<1>1. /\ crashes < MaxCrashes /\ crashes' = crashes + 1 /\ crashes \in 0 .. MaxCrashes
      /\ next' = FirstOracle /\ txn' = [t \in TxnIds |-> NoTxn] /\ op' = Down
      /\ UNCHANGED <<ver, head, meta, stored, faults>>
  BY DEF Crash, durable, TypeOK
<1>2. /\ op' \in OpType /\ op'.pc = "down" /\ op'.by = "client"
      /\ BeginInv' /\ WriteInv' /\ CommitInv' /\ RestoreInv' /\ ReturnInv'
  BY <1>1, DownNext
<1>3. next' \in Oracle /\ next'.ts = 1 /\ next'.txn = 1 /\ next'.vid = 1
  BY <1>1 DEF FirstOracle, Oracle
<1>4. txn' \in [TxnIds -> TxnObject] /\ \A t \in TxnIds : txn'[t].st = "none"
  <2>1. NoTxn \in TxnObject /\ NoTxn.st = "none"
    BY SMT DEF NoTxn, TxnObject
  <2> QED BY <1>1, <2>1
<1>5. TypeOK'
  <2>1. crashes' \in 0 .. MaxCrashes
    BY <1>1, BoundsAssumption, SMT
  <2> QED BY <1>1, <1>2, <1>3, <1>4, <2>1 DEF TypeOK
<1>6. OracleInv'
  BY <1>1, <1>2, <1>3, BoundsAssumption, SMT DEF OracleInv, Exists
<1>7. VersionInv'
  BY <1>1 DEF VersionInv, Exists
<1>8. RecoverInv' /\ StateInv'
  BY <1>1, <1>2, <1>4 DEF RecoverInv, StateInv, At
<1>9. ListInv'
  BY <1>1, <1>4, SMT DEF ListInv, Exists
<1>10. HeadInv'
  BY <1>1, <1>2 DEF HeadInv, Exists, At
<1> QED BY <1>2, <1>5, <1>6, <1>7, <1>8, <1>9, <1>10

\* Open preserves the invariant.
LEMMA OpenStep ==
    ASSUME TypeOK, ProtocolInv, Open
    PROVE  TypeOK' /\ ProtocolInv'
<1> USE DEF ProtocolInv
<1>1. /\ op = Down /\ next' = stored
      /\ op' = Persist([Idle EXCEPT !.t = 1, !.by = "Open"], "recover")
      /\ UNCHANGED <<ver, head, meta, stored, txn, crashes, faults>>
  BY DEF Open, durable
<1>2. op.pc = "down" /\ \A t \in TxnIds : txn[t].st = "none"
  BY <1>1, IdleFields DEF RecoverInv
<1>3. /\ op' \in OpType /\ op'.pc = "persist" /\ op'.ret = "recover" /\ op'.k = 1
      /\ op'.by = "Open" /\ op'.t = 1
  <2>1. op' = [Idle EXCEPT !.t = 1, !.by = "Open", !.pc = "persist", !.k = 1, !.ret = "recover"]
    BY <1>1 DEF Persist
  <2>2. 1 \in Nat /\ 1 \in 0 .. 3
    BY SMT
  <2> QED BY <2>1, <2>2, Pcs, IdleType DEF OpType
<1>4. TypeOK'
  BY <1>1, <1>3 DEF TypeOK
<1>5. OracleInv' /\ VersionInv'
  <2>1. VersionInv'
    BY <1>1 DEF VersionInv, Exists
  <2>2. OracleInv'
    <3>1. stored.txn \in Nat /\ stored.vid \in Nat
      BY DEF TypeOK, Oracle
    <3>2. stored.txn <= stored.txn /\ stored.vid <= stored.vid
      BY <3>1, Reflexive
    <3> QED BY <1>1, <1>3, <3>2 DEF OracleInv, Exists
  <2> QED BY <2>1, <2>2
<1>6. BeginInv' /\ WriteInv' /\ CommitInv' /\ RestoreInv' /\ ReturnInv'
  BY <1>3, SMT DEF BeginInv, WriteInv, CommitInv, RestoreInv, ReturnInv, At
<1>7. RecoverInv'
  BY <1>1, <1>2, <1>3, SMT DEF RecoverInv, At
<1>8. StateInv'
  BY <1>1, <1>2, <1>3, Ids DEF StateInv, At
<1>9. ListInv'
  BY <1>1, <1>2, SMT DEF ListInv, Exists
<1>10. HeadInv'
  BY <1>1, <1>3 DEF HeadInv, Exists, At
<1> QED BY <1>4, <1>5, <1>6, <1>7, <1>8, <1>9, <1>10

\* RecoverTxns preserves the invariant.
LEMMA RecoverTxnsStep ==
    ASSUME TypeOK, ProtocolInv, RecoverTxns
    PROVE  TypeOK' /\ ProtocolInv'
<1> USE DEF ProtocolInv
<1>1. /\ op.pc = "recover" /\ op \in OpType /\ next \in Oracle /\ stored \in Oracle
      /\ UNCHANGED <<ver, head, meta, stored, next, txn, crashes, faults>>
      /\ meta \in [TxnIds -> TxnMeta]
  BY DEF RecoverTxns, durable, TypeOK
<1>2. /\ op.by = "Open" /\ op.t >= 1 /\ op.t \in Nat
      /\ \A t \in TxnIds : txn[t].st = "none"
  BY <1>1, ZenonT(30) DEF RecoverInv, At, OpType
<1>3. VersionInv' /\ ListInv'
  BY <1>1, <1>2, SMT DEF VersionInv, ListInv, Exists
<1>4. CASE op.t >= next.txn
  <2>1. op' = Idle
    BY <1>4 DEF RecoverTxns
  <2>2. /\ op' \in OpType /\ op'.pc = "idle" /\ op'.by = "client"
        /\ BeginInv' /\ WriteInv' /\ CommitInv' /\ RestoreInv' /\ RecoverInv' /\ ReturnInv'
    BY <2>1, IdleNext
  <2>3. TypeOK'
    BY <1>1, <2>2 DEF TypeOK
  <2>4. OracleInv' /\ HeadInv'
    BY <1>1, <2>2 DEF OracleInv, HeadInv, Exists, At
  <2>5. \A t \in TxnIds : meta[t].state # "NotFound" => ~(t >= op.t)
    BY <1>1, <1>2, <1>4, Ids, SMT DEF OracleInv, Oracle
  <2>6. StateInv'
    BY <1>1, <1>2, <2>5 DEF StateInv, At
  <2> QED BY <1>3, <2>2, <2>3, <2>4, <2>6
<1>5. CASE ~(op.t >= next.txn)
  <2>1. op.t \in TxnIds
    BY <1>1, <1>2, <1>5, BoundsAssumption, SMT DEF OracleInv, Oracle, TxnIds
  <2>2. /\ meta[op.t] \in TxnMeta /\ meta[op.t].writes \in Seq(TxnWrite)
        /\ meta[op.t].commit_ts \in Nat /\ Len(meta[op.t].writes) \in Nat
    <3>1. meta[op.t] \in TxnMeta
      BY <1>1, <2>1
    <3> QED BY <3>1, SMT DEF TxnMeta
  <2> DEFINE w == meta[op.t].writes
  <2>3. CASE meta[op.t].state = "Committing"
    <3>1. /\ op' \in OpType /\ op'.pc = "apply" /\ op'.t = op.t /\ op'.w = w /\ op'.i = 1
          /\ op'.cts = meta[op.t].commit_ts /\ op'.by = "Open"
      <4>1. op' = [Idle EXCEPT !.pc = "apply", !.t = op.t, !.w = w, !.i = 1,
                               !.cts = meta[op.t].commit_ts, !.by = "Open"]
        BY <1>5, <2>3 DEF RecoverTxns, Recovering, Applying
      <4>2. 1 \in Nat
        OBVIOUS
      <4> QED BY <1>2, <2>2, <4>1, <4>2, Pcs, IdleType DEF OpType
    <3>2. TypeOK'
      BY <1>1, <3>1 DEF TypeOK
    <3>3. OracleInv' /\ HeadInv'
      BY <1>1, <3>1 DEF OracleInv, HeadInv, Exists, At
    <3>4. BeginInv' /\ WriteInv' /\ RestoreInv' /\ ReturnInv'
      BY <3>1 DEF BeginInv, WriteInv, RestoreInv, ReturnInv, At
    <3>5. CommitInv'
      <4>1. op'.i \in 1 .. Len(op'.w) + 1 /\ 1 .. op'.i - 1 = {}
        BY <2>2, <3>1, SMT
      <4> QED BY <1>1, <2>1, <2>3, <3>1, <4>1 DEF CommitInv, At
    <3>6. RecoverInv' /\ StateInv'
      BY <1>1, <1>2, <3>1 DEF RecoverInv, StateInv, At
    <3> QED BY <1>3, <3>2, <3>3, <3>4, <3>5, <3>6
  <2>4. CASE meta[op.t].state = "Open"
    <3>1. /\ op' \in OpType /\ op'.pc = "restore" /\ op'.t = op.t /\ op'.w = w /\ op'.i = Len(w)
          /\ op'.by = "Open"
      <4>1. op' = [Idle EXCEPT !.pc = "restore", !.t = op.t, !.w = w, !.i = Len(w), !.by = "Open"]
        BY <1>5, <2>4 DEF RecoverTxns, Recovering, Restoring
      <4> QED BY <1>2, <2>2, <4>1, Pcs, IdleType DEF OpType
    <3>2. TypeOK'
      BY <1>1, <3>1 DEF TypeOK
    <3>3. OracleInv' /\ HeadInv'
      BY <1>1, <3>1 DEF OracleInv, HeadInv, Exists, At
    <3>4. BeginInv' /\ WriteInv' /\ CommitInv' /\ ReturnInv'
      BY <3>1, ZenonT(30) DEF BeginInv, WriteInv, CommitInv, ReturnInv, At
    <3>5. ASSUME NEW j \in 1 .. Len(w)
          PROVE  Exists(w[j].row, w[j].vid) /\ ver[w[j].row][w[j].vid].created_by = op.t
      <4> DEFINE r == w[j].row
      <4> DEFINE v == w[j].vid
      <4>1. r \in Rows /\ v \in VersionIds /\ Lists(w, r, v)
        BY <2>2, Entry DEF Lists
      <4> HIDE DEF r, v
      <4>2. Exists(r, v) /\ ver[r][v].created_by = op.t
        BY <2>1, <2>4, <4>1, ZenonT(30) DEF ListInv
      <4> QED BY <4>2 DEF r, v
    <3>6. RestoreInv'
      <4>1. op'.i \in 0 .. Len(op'.w)
        BY <2>2, <3>1, SMT
      <4>2. op'.t \in TxnIds /\ meta'[op'.t].state = "Open" /\ op'.by # "client"
        BY <1>1, <2>1, <2>4, <3>1
      <4>3. \A j \in 1 .. Len(op'.w) : Exists(op.w[j].row, op.w[j].vid)'
                         /\ ver'[op'.w[j].row][op'.w[j].vid].created_by = op'.t
        BY <1>1, <3>1, <3>5 DEF Exists
      <4> QED BY <4>1, <4>2, <4>3 DEF RestoreInv
    <3>7. RecoverInv' /\ StateInv'
      BY <1>1, <1>2, <3>1 DEF RecoverInv, StateInv, At
    <3> QED BY <1>3, <3>2, <3>3, <3>4, <3>6, <3>7
  <2>5. CASE meta[op.t].state \notin {"Committing", "Open"}
    <3>1. /\ op' \in OpType /\ op'.pc = "recover" /\ op'.t = op.t + 1 /\ op'.by = "Open"
      <4>1. op' = [op EXCEPT !.t = op.t + 1]
        BY <1>5, <2>5 DEF RecoverTxns, Recovering
      <4>2. op.t + 1 \in Nat
        BY <1>2, SMT
      <4> QED BY <1>1, <1>2, <4>1, <4>2 DEF OpType
    <3>2. TypeOK'
      BY <1>1, <3>1 DEF TypeOK
    <3>3. OracleInv' /\ HeadInv'
      BY <1>1, <3>1, ZenonT(30) DEF OracleInv, HeadInv, Exists, At
    <3>4. BeginInv' /\ WriteInv' /\ CommitInv' /\ RestoreInv' /\ ReturnInv'
      BY <3>1 DEF BeginInv, WriteInv, CommitInv, RestoreInv, ReturnInv, At
    <3>5. RecoverInv'
      BY <1>1, <1>2, <3>1, SMT DEF RecoverInv, At
    <3>6. \A t \in TxnIds : t # op.t /\ t >= op.t => t >= op'.t
      BY <1>2, <3>1, Ids, SMT
    <3>7. StateInv'
      BY <1>1, <1>2, <2>5, <3>1, <3>6 DEF StateInv, At
    <3> QED BY <1>3, <3>2, <3>3, <3>4, <3>5, <3>7
  <2> QED BY <2>3, <2>4, <2>5
<1> QED BY <1>4, <1>5

\* The empty database satisfies the invariant.
LEMMA InitInv == Init => TypeOK /\ ProtocolInv
<1> SUFFICES ASSUME Init PROVE TypeOK /\ ProtocolInv
  OBVIOUS
<1>1. /\ op = Idle /\ op \in OpType /\ op.pc = "idle" /\ op.by = "client"
  BY IdleType, IdleFields DEF Init
<1>2. NoMeta \in TxnMeta /\ NoMeta.state = "NotFound" /\ NoTxn \in TxnObject /\ NoTxn.st = "none"
      /\ FirstOracle \in Oracle /\ FirstOracle.ts = 1 /\ FirstOracle.txn = 1 /\ FirstOracle.vid = 1
  BY SMT DEF NoMeta, TxnMeta, TxnState, NoTxn, TxnObject, FirstOracle, Oracle
<1>3. TypeOK
  <2>1. 0 \in 0 .. MaxVersion /\ 0 \in 0 .. MaxCrashes /\ 0 \in 0 .. MaxFaults
    BY BoundsAssumption, SMT
  <2> QED BY <1>1, <1>2, <2>1 DEF Init, TypeOK
<1>4. /\ \A t \in TxnIds : meta[t].state = "NotFound" /\ txn[t].st = "none"
      /\ \A r \in Rows, v \in VersionIds : ~Exists(r, v)
      /\ \A r \in Rows : head[r] = 0
  BY <1>2 DEF Init, Exists
<1>5. OracleInv
  BY <1>1, <1>2, <1>4, BoundsAssumption, SMT DEF Init, OracleInv
<1>6. ReturnInv /\ BeginInv /\ WriteInv /\ CommitInv /\ RestoreInv
  BY <1>1 DEF ReturnInv, BeginInv, WriteInv, CommitInv, RestoreInv, At
<1>7. RecoverInv /\ StateInv /\ VersionInv
  BY <1>1, <1>4 DEF RecoverInv, StateInv, VersionInv, At
<1>8. ListInv /\ HeadInv
  BY <1>1, <1>4 DEF ListInv, HeadInv, At
<1> QED BY <1>3, <1>5, <1>6, <1>7, <1>8 DEF ProtocolInv

\* Stuttering preserves the invariant.
LEMMA StutterInv ==
    ASSUME TypeOK, ProtocolInv, UNCHANGED vars
    PROVE  TypeOK' /\ ProtocolInv'
<1>1. UNCHANGED <<ver, head, meta, stored, next, txn, op, crashes, faults>> /\ NewVid' = NewVid
  BY DEF vars, NewVid
<1>2. TypeOK'
  BY <1>1 DEF TypeOK
<1>3. OracleInv' /\ ReturnInv' /\ BeginInv' /\ WriteInv'
  BY <1>1 DEF ProtocolInv, OracleInv, ReturnInv, BeginInv, WriteInv, At, Exists, Provisional
<1>4. CommitInv' /\ RestoreInv' /\ RecoverInv' /\ StateInv'
  BY <1>1, ZenonT(30) DEF ProtocolInv, CommitInv, RestoreInv, RecoverInv, StateInv, At, Exists
<1>5. VersionInv' /\ ListInv' /\ HeadInv'
  BY <1>1, SMT DEF ProtocolInv, VersionInv, ListInv, HeadInv, At, Exists
<1> QED BY <1>2, <1>3, <1>4, <1>5 DEF ProtocolInv

\* Every step preserves the invariant when no engine call fails.
LEMMA StepInv ==
    ASSUME MaxFaults = 0, TypeOK, ProtocolInv, [Next]_vars
    PROVE  TypeOK' /\ ProtocolInv'
<1>1. ASSUME NEW t \in TxnIds, NEW r \in Rows, NEW kind, NEW val \in Vals, Write(t, r, kind, val)
      PROVE  TypeOK' /\ ProtocolInv'
  <2>1. op = Idle /\ txn[t].st = "open"
    BY <1>1 DEF Write
  <2>2. CASE RewriteOwn(t, r, kind, val)
    BY <2>1, <2>2, RewriteOwnStep
  <2>3. CASE WriteNew(t, r, kind, val)
    BY <2>1, <2>3, WriteNewStep
  <2> QED BY <1>1, <2>2, <2>3 DEF Write
<1>2. CASE Call
  <2>1. NoRow \in Vals /\ Payloads \subseteq Vals
    BY DEF Vals
  <2>2. CASE Begin
    BY <2>2, BeginStep
  <2>3. ASSUME NEW t \in TxnIds, Commit(t) \/ Abort(t)
        PROVE  TypeOK' /\ ProtocolInv'
    BY <2>3, CommitStep, AbortStep
  <2>4. ASSUME NEW t \in TxnIds, NEW r \in Rows, Delete(t, r)
        PROVE  TypeOK' /\ ProtocolInv'
    BY <1>1, <2>1, <2>4 DEF Delete
  <2>5. ASSUME NEW t \in TxnIds, NEW r \in Rows, NEW p \in Payloads,
               Insert(t, r, p) \/ Update(t, r, p)
        PROVE  TypeOK' /\ ProtocolInv'
    BY <1>1, <2>1, <2>5 DEF Insert, Update
  <2> QED BY <1>2, <2>2, <2>3, <2>4, <2>5 DEF Call
<1>3. CASE HandlerStep
  BY <1>3, PersistOraclesStep, BeginMetaStep, PutVersionValueStep, SetHeadStep, WriteMetaStep,
     PutIntentStep, ApplyCommitWritesStep, PutCommittedStep, CommitDoneStep,
     RestoreHeadsStep, PutAbortedStep, RecoverTxnsStep DEF HandlerStep
<1>4. CASE Open
  BY <1>4, OpenStep
<1>5. CASE Crash
  BY <1>5, CrashStep
<1>6. ~KvError
  BY SMT DEF KvError, TypeOK
<1>7. CASE UNCHANGED vars
  BY <1>7, StutterInv
<1> QED BY <1>2, <1>3, <1>4, <1>5, <1>6, <1>7 DEF Next

\* The inductive invariant of the commit protocol: write lists, intents, stamps
\* and recovery progress agree at every program point, across any crashes.
THEOREM ProtocolInvariant ==
    ASSUME MaxFaults = 0
    PROVE  Spec => [](TypeOK /\ ProtocolInv)
<1>1. TypeOK /\ ProtocolInv /\ [Next]_vars => (TypeOK /\ ProtocolInv)'
  BY StepInv
<1> QED BY <1>1, InitInv, PTL DEF Spec

\* Every key and every in-memory field keeps its type.
THEOREM TypeCorrect ==
    ASSUME MaxFaults = 0
    PROVE  Spec => []TypeOK
BY ProtocolInvariant, PTL

\* Commit order (CommitTransaction, RecoverTxns): no transaction is ever marked
\* Committed while one of its versions is provisional, whatever crashes between
\* the intent, the stamps and the Committed record.
THEOREM CommitOrder ==
    ASSUME MaxFaults = 0
    PROVE  Spec => []CommittedStamped
<1>1. ProtocolInv => CommittedStamped
  BY DEF ProtocolInv, VersionInv, CommittedStamped, is_provisional, Exists
<1> QED BY <1>1, ProtocolInvariant, PTL

\* Atomicity of abort (AbortTransaction, RecoverTxns): no version of an aborted
\* transaction ever carries a commit timestamp.
THEOREM AbortLeavesNothing ==
    ASSUME MaxFaults = 0
    PROVE  Spec => []AbortedNeverStamped
<1>1. ProtocolInv => AbortedNeverStamped
  BY DEF ProtocolInv, VersionInv, AbortedNeverStamped, is_provisional, Exists
<1> QED BY <1>1, ProtocolInvariant, PTL

\* Recovery (RecoverTxns): once Open has returned, the transactions recorded as
\* Open are exactly the live ones and none is Committing.
THEOREM RecoveryComplete ==
    ASSUME MaxFaults = 0
    PROVE  Spec => []OnlyLiveTxnsUnfinished
<1>1. ProtocolInv => OnlyLiveTxnsUnfinished
  <2> SUFFICES ASSUME ProtocolInv, op = Idle PROVE OnlyLiveTxnsUnfinished
    BY DEF OnlyLiveTxnsUnfinished
  <2>1. op.pc = "idle" /\ op.by = "client"
    BY IdleFields
  <2> QED BY <2>1 DEF ProtocolInv, StateInv, At, OnlyLiveTxnsUnfinished
<1> QED BY <1>1, ProtocolInvariant, PTL

-----------------------------------------------------------------------------
\* A step leaves which versions there are, and all of them but their values, alone.
SameVersions ==
    \A r \in Rows, v \in VersionIds :
        /\ ver'[r][v] # NoVersion <=> ver[r][v] # NoVersion
        /\ ver[r][v] # NoVersion =>
              /\ ver'[r][v].start_ts = ver[r][v].start_ts /\ ver'[r][v].end_ts = ver[r][v].end_ts
              /\ ver'[r][v].prev_id = ver[r][v].prev_id
              /\ ver'[r][v].created_by = ver[r][v].created_by

\* The types of what chains are made of.
LEMMA ChainTypes ==
    ASSUME TypeOK
    PROVE  /\ \A r \in Rows : head[r] \in 0 .. MaxVersion /\ (head[r] # 0 => head[r] \in VersionIds)
           /\ \A r \in Rows, v \in VersionIds : Exists(r, v) =>
                 /\ ver[r][v].start_ts \in Nat /\ ver[r][v].end_ts \in Nat
                 /\ ver[r][v].created_by \in TxnIds /\ ver[r][v].prev_id \in 0 .. MaxVersion
                 /\ ver[r][v].prev_id # 0 => ver[r][v].prev_id \in VersionIds
           /\ \A t \in TxnIds : meta[t].commit_ts \in Nat
<1>1. \A r \in Rows, v \in VersionIds : Exists(r, v) => ver[r][v] \in VersionRecord
  BY DEF TypeOK, Exists
<1>2. \A x \in VersionRecord : /\ x.start_ts \in Nat /\ x.end_ts \in Nat /\ x.created_by \in TxnIds
                               /\ x.prev_id \in 0 .. MaxVersion
  BY DEF VersionRecord
<1>3. \A r \in Rows : head[r] \in 0 .. MaxVersion
  BY DEF TypeOK
<1>4. \A t \in TxnIds : meta[t].commit_ts \in Nat
  BY DEF TypeOK, TxnMeta
<1> QED BY <1>1, <1>2, <1>3, <1>4, Vid

\* The chain of one row: its head is 0 or stamped, or provisional above the newest
\* committed version.
RowChain(r) ==
    \/ /\ head[r] = 0 \/ Stamped(r, head[r])
       /\ NewestIs(r, head[r]) /\ (head[r] # 0 => ver[r][head[r]].end_ts = 0)
    \/ /\ head[r] # 0 /\ ~Stamped(r, head[r]) /\ Provisional(r, head[r])
       /\ ver[r][head[r]].prev_id < head[r] /\ NewestIs(r, ver[r][head[r]].prev_id)
       /\ ver[r][head[r]].prev_id # 0 =>
            \/ ver[r][ver[r][head[r]].prev_id].end_ts = 0
            \/ /\ meta[ver[r][head[r]].created_by].state = "Committing"
               /\ ver[r][ver[r][head[r]].prev_id].end_ts =
                     meta[ver[r][head[r]].created_by].commit_ts

\* The chain invariant, row by row.
LEMMA Chain == ASSUME ChainInv, NEW r \in Rows PROVE RowChain(r)
BY DEF ChainInv, RowChain

\* To re-establish the chain invariant it is enough to look at each row.
LEMMA ChainNext == ASSUME \A r \in Rows : RowChain(r)' PROVE ChainInv'
BY DEF ChainInv, RowChain

-----------------------------------------------------------------------------
\* Steps that leave versions and heads alone.

\* When a step changes no stored version, each version stays as provisional or
\* stamped as it was, and the newest stamped version of a row stays the same.
LEMMA SameStamps ==
    ASSUME SameVersions, NEW r \in Rows
    PROVE  /\ \A v \in VersionIds : /\ Exists(r, v)' <=> Exists(r, v)
                                    /\ Stamped(r, v)' <=> Stamped(r, v)
                                    /\ Provisional(r, v)' <=> Provisional(r, v)
           /\ \A p \in 0 .. MaxVersion : NewestIs(r, p)' <=> NewestIs(r, p)
<1>1. \A v \in VersionIds : /\ Exists(r, v)' <=> Exists(r, v)
                            /\ Stamped(r, v)' <=> Stamped(r, v)
                            /\ Provisional(r, v)' <=> Provisional(r, v)
  BY DEF SameVersions, Exists, Stamped, Provisional
<1>2. ASSUME NEW p \in 0 .. MaxVersion PROVE NewestIs(r, p)' <=> NewestIs(r, p)
  <2>1. p # 0 => p \in VersionIds
    BY Vid
  <2> QED BY <1>1, <2>1 DEF NewestIs
<1> QED BY <1>1, <1>2

\* A step that leaves versions and heads alone keeps the chain invariant, as long
\* as no transaction leaves the Committing state with a version still unstamped.
LEMMA ChainFrame ==
    ASSUME TypeOK, ProtocolInv, ChainInv, SameVersions, head' = head,
           \A r \in Rows, v \in VersionIds :
               Provisional(r, v) /\ meta[ver[r][v].created_by].state = "Committing" =>
                   /\ meta'[ver[r][v].created_by].state = "Committing"
                   /\ meta'[ver[r][v].created_by].commit_ts = meta[ver[r][v].created_by].commit_ts
    PROVE  ChainInv'
<1> SUFFICES ASSUME NEW r \in Rows
             PROVE  RowChain(r)'
  BY ChainNext
<1> DEFINE h == head[r]
<1>1. h \in 0 .. MaxVersion /\ (h # 0 => h \in VersionIds) /\ head'[r] = h
  BY ChainTypes
<1>2. CASE h = 0 \/ Stamped(r, h)
  <2>1. NewestIs(r, h) /\ (h # 0 => ver[r][h].end_ts = 0)
    BY <1>2, Chain DEF RowChain
  <2>2. (h = 0 \/ Stamped(r, head[r])') /\ NewestIs(r, head[r])'
    BY <1>1, <1>2, <2>1, SameStamps DEF NewestIs, Stamped, Exists
  <2>3. h # 0 => ver'[r][h].end_ts = 0
    BY <1>1, <1>2, <2>1, SMTT(30) DEF Stamped, Exists, SameVersions
  <2> QED BY <1>1, <2>2, <2>3 DEF RowChain
<1>3. CASE h # 0 /\ ~Stamped(r, h)
  <2> DEFINE p == ver[r][h].prev_id
             o == ver[r][h].created_by
  <2>1. /\ Provisional(r, h) /\ p < h /\ NewestIs(r, p)
        /\ p # 0 => \/ ver[r][p].end_ts = 0
                    \/ meta[o].state = "Committing" /\ ver[r][p].end_ts = meta[o].commit_ts
    BY <1>3, Chain DEF RowChain
  <2>2. Exists(r, h) /\ h \in VersionIds
    BY <1>1, <1>3, <2>1 DEF Provisional
  <2>3. /\ p \in 0 .. MaxVersion /\ (p # 0 => p \in VersionIds /\ Exists(r, p))
        /\ ver'[r][h].prev_id = p /\ ver'[r][h].created_by = o
        /\ p # 0 => ver'[r][p].end_ts = ver[r][p].end_ts
    <3>1. p \in 0 .. MaxVersion /\ (p # 0 => p \in VersionIds)
      BY <2>2, ChainTypes
    <3>2. p # 0 => Exists(r, p)
      BY <2>1 DEF NewestIs, Stamped
    <3> QED BY <2>2, <3>1, <3>2 DEF SameVersions, Exists
  <2>4. ~Stamped(r, head[r])' /\ Provisional(r, head[r])'
    BY <1>1, <1>3, <2>1, <2>2, SameStamps DEF Stamped, Provisional, Exists
  <2>5. NewestIs(r, ver[r][head[r]].prev_id)'
    <3>1. ver'[r][head'[r]].prev_id = p
      BY <1>1, <2>3
    <3>2. \A u \in VersionIds : ver'[r][u] # NoVersion /\ ver'[r][u].start_ts # 0 <=> Stamped(r, u)
      BY SameStamps DEF Stamped, Exists
    <3>3. ASSUME NEW q, q = p
          PROVE  /\ q # 0 => ver'[r][q] # NoVersion /\ ver'[r][q].start_ts # 0
                 /\ \A u \in VersionIds :
                       ver'[r][u] # NoVersion /\ ver'[r][u].start_ts # 0 => u <= q
      BY <2>1, <2>3, <3>2, <3>3 DEF NewestIs
    <3> QED BY <3>1, <3>3 DEF NewestIs, Stamped, Exists
  <2>6. p # 0 => \/ ver'[r][p].end_ts = 0
                 \/ meta'[o].state = "Committing" /\ ver'[r][p].end_ts = meta'[o].commit_ts
    BY <2>1, <2>2, <2>3
  <2> QED BY <1>1, <1>3, <2>1, <2>3, <2>4, <2>5, <2>6, ZenonT(30) DEF RowChain
<1> QED BY <1>2, <1>3

\* A row that a step does not touch.
LEMMA RowFrame ==
    ASSUME TypeOK, ChainInv, NEW r \in Rows, head'[r] = head[r], meta' = meta,
           \A v \in VersionIds : ver'[r][v] = ver[r][v]
    PROVE  RowChain(r)'
<1>1. head[r] # 0 => head[r] \in VersionIds
  BY ChainTypes
<1>2. \A p \in 0 .. MaxVersion : NewestIs(r, p)' <=> NewestIs(r, p)
  BY Vid DEF NewestIs, Stamped, Exists
<1>3. CASE head[r] = 0 \/ Stamped(r, head[r])
  <2>1. NewestIs(r, head[r]) /\ (head[r] # 0 => ver[r][head[r]].end_ts = 0)
    BY <1>3, Chain DEF RowChain
  <2>2. head'[r] = 0 \/ Stamped(r, head[r])'
    BY <1>1, <1>3 DEF Stamped, Exists
  <2>3. NewestIs(r, head[r])'
    BY <1>1, <2>1 DEF NewestIs, Stamped, Exists
  <2>4. head'[r] # 0 => ver'[r][head'[r]].end_ts = 0
    BY <1>1, <2>1
  <2> QED BY <2>2, <2>3, <2>4 DEF RowChain
<1>4. CASE head[r] # 0 /\ ~Stamped(r, head[r])
  <2>1. PICK h \in VersionIds : h = head[r]
    BY <1>1, <1>4
  <2>2. Provisional(r, h)
    BY <1>4, <2>1, Chain DEF RowChain
  <2>3. PICK p \in 0 .. MaxVersion : p = ver[r][h].prev_id
    BY <2>2, ChainTypes DEF Provisional
  <2>4. /\ p < h /\ NewestIs(r, p)
        /\ p # 0 => \/ ver[r][p].end_ts = 0
                    \/ /\ meta[ver[r][h].created_by].state = "Committing"
                       /\ ver[r][p].end_ts = meta[ver[r][h].created_by].commit_ts
    BY <1>4, <2>1, <2>3, Chain DEF RowChain
  <2>5. /\ head'[r] = h /\ ver'[r][h] = ver[r][h] /\ h # 0 /\ ~Stamped(r, h)' /\ Provisional(r, h)'
        /\ NewestIs(r, p)' /\ (p # 0 => ver'[r][p] = ver[r][p])
    BY <1>2, <1>4, <2>1, <2>2, <2>4, Vid DEF Stamped, Provisional, Exists
  <2>6. ~Stamped(r, head[r])' /\ Provisional(r, head[r])' /\ NewestIs(r, ver[r][head[r]].prev_id)'
    BY <2>3, <2>5 DEF Stamped, Provisional, Exists, NewestIs
  <2> QED BY <2>3, <2>4, <2>5, <2>6 DEF RowChain
<1> QED BY <1>3, <1>4

\* Nothing still to be stamped appears or is moved.
LEMMA StampFrame ==
    ASSUME TypeOK, HeadInv, ToStampInv, SameVersions, head' = head, op'.pc # "intent",
           \A t \in TxnIds : meta'[t].state = "Committing" =>
               meta[t].state = "Committing" /\ meta'[t].commit_ts = meta[t].commit_ts
    PROVE  ToStampInv'
<1> SUFFICES ASSUME NEW t \in TxnIds, meta'[t].state = "Committing",
                    NEW r \in Rows, NEW v \in VersionIds,
                    Provisional(r, v)', ver'[r][v].created_by = t
             PROVE  /\ head'[r] = v
                    /\ ver'[r][v].prev_id # 0 =>
                          ver'[r][ver'[r][v].prev_id].start_ts < meta'[t].commit_ts
  BY DEF ToStampInv
<1>1. Provisional(r, v) /\ Exists(r, v)
  BY SameStamps DEF Provisional
<1>2. ver[r][v].created_by = t /\ ver'[r][v].prev_id = ver[r][v].prev_id
  BY <1>1 DEF SameVersions, Exists
<1>3. /\ head[r] = v
      /\ ver[r][v].prev_id # 0 => ver[r][ver[r][v].prev_id].start_ts < meta[t].commit_ts
  BY <1>1, <1>2 DEF ToStampInv
<1>4. ver[r][v].prev_id # 0 =>
         ver'[r][ver[r][v].prev_id].start_ts = ver[r][ver[r][v].prev_id].start_ts
  BY <1>1, ChainTypes DEF HeadInv, SameVersions, Exists
<1> QED BY <1>2, <1>3, <1>4

\* A step that leaves versions alone keeps provisional versions open-ended and
\* lifetimes disjoint.
LEMMA EndsFrame ==
    ASSUME OpenEnded, LifetimesDisjoint, SameVersions
    PROVE  OpenEnded' /\ LifetimesDisjoint'
<1>1. OpenEnded'
  BY SMT DEF OpenEnded, SameVersions, Provisional, Exists
<1>2. LifetimesDisjoint'
  BY SMT DEF LifetimesDisjoint, SameVersions, is_provisional
<1> QED BY <1>1, <1>2

\* A step after which no version is being installed and no commit is checked, and
\* which leaves versions, heads and intents alone.
LEMMA QuietFrame ==
    ASSUME TypeOK, ProtocolInv, LifetimeInv, SameVersions, head' = head,
           ~At({"putVersion", "setHead"})', op'.pc # "intent",
           \A t \in TxnIds : meta'[t].state = "Committing" =>
               meta[t].state = "Committing" /\ meta'[t].commit_ts = meta[t].commit_ts,
           \A r \in Rows, v \in VersionIds :
               Provisional(r, v) /\ meta[ver[r][v].created_by].state = "Committing" =>
                   /\ meta'[ver[r][v].created_by].state = "Committing"
                   /\ meta'[ver[r][v].created_by].commit_ts = meta[ver[r][v].created_by].commit_ts
    PROVE  LifetimeInv'
<1>1. HeadInv /\ ChainInv /\ ToStampInv /\ OpenEnded /\ LifetimesDisjoint
  BY DEF ProtocolInv, LifetimeInv
<1>2. InstallInv'
  BY DEF InstallInv
<1> QED BY <1>1, <1>2, ChainFrame, StampFrame, EndsFrame DEF LifetimeInv

\* The same when transaction records stay as well.
LEMMA DurableFrame ==
    ASSUME TypeOK, ProtocolInv, LifetimeInv, UNCHANGED <<ver, head, meta>>,
           ~At({"putVersion", "setHead"})', op'.pc # "intent"
    PROVE  LifetimeInv'
<1>1. SameVersions
  BY DEF SameVersions
<1> QED BY <1>1, QuietFrame

-----------------------------------------------------------------------------
\* Steps that only move control.

\* Where control goes, for handlers that start from Idle.
LEMMA Starts ==
    /\ \A o \in OpType, x \in {"beginMeta", "committed", "recover"} :
          op' = Persist(o, x) => ~At({"putVersion", "setHead"})' /\ op'.pc # "intent"
    /\ op' = Idle \/ op' = Down => ~At({"putVersion", "setHead"})' /\ op'.pc # "intent"
    /\ op'.pc \in {"apply", "restore", "recover"} => ~At({"putVersion", "setHead"})' /\ op'.pc # "intent"
<1>1. \A o \in OpType : \A x : Persist(o, x).pc = "persist" /\ Persist(o, x).ret = x
  BY DEF Persist, OpType
<1>2. Idle.pc = "idle" /\ Down.pc = "down"
  BY IdleFields
<1> QED BY <1>1, <1>2, SMT DEF At

\* PersistOracles only moves the counters to disk.
LEMMA PersistOraclesLife ==
    ASSUME TypeOK, ProtocolInv, LifetimeInv, PersistOracles
    PROVE  LifetimeInv'
<1>1. /\ op \in OpType /\ op.pc = "persist" /\ UNCHANGED <<ver, head, meta, next>>
      /\ op.ret \in OpRet \ {"none"} /\ NewVid' = NewVid
  BY DEF PersistOracles, TypeOK, OpType, ProtocolInv, ReturnInv, NewVid
<1>2. /\ op'.prev = op.prev /\ op'.r = op.r /\ op'.pc # "intent"
      /\ At({"putVersion", "setHead"})' => At({"putVersion", "setHead"})
  <2>1. CASE op.k = 3
    <3>1. op' = [op EXCEPT !.pc = op.ret, !.k = 0, !.ret = "none"]
      BY <2>1, SMT DEF PersistOracles
    <3>2. op'.prev = op.prev /\ op'.r = op.r /\ op'.pc = op.ret /\ op'.ret = "none"
      BY <1>1, <3>1 DEF OpType
    <3> QED BY <1>1, <3>2 DEF At, OpRet
  <2>2. CASE op.k # 3
    <3>1. PICK k : op' = [op EXCEPT !.k = k]
      BY <2>2 DEF PersistOracles
    <3>2. op'.prev = op.prev /\ op'.r = op.r /\ op'.pc = op.pc /\ op'.ret = op.ret
      BY <1>1, <3>1 DEF OpType
    <3> QED BY <1>1, <3>2 DEF At
  <2> QED BY <2>1, <2>2
<1>3. SameVersions
  BY <1>1 DEF SameVersions
<1>4. InstallInv'
  BY <1>1, <1>2 DEF LifetimeInv, InstallInv, NewestIs, Stamped, Exists
<1>5. HeadInv /\ ChainInv /\ ToStampInv /\ OpenEnded /\ LifetimesDisjoint
  BY DEF ProtocolInv, LifetimeInv
<1>6. ChainInv'
  BY <1>1, <1>3, <1>5, ChainFrame
<1>7. ToStampInv'
  BY <1>1, <1>2, <1>3, <1>5, StampFrame
<1> QED BY <1>3, <1>4, <1>5, <1>6, <1>7, EndsFrame DEF LifetimeInv

\* Begin, Abort, the end of a commit, a crash, and the steps of Open between two
\* transactions change no version, no head and no record.
LEMMA ControlLife ==
    ASSUME TypeOK, ProtocolInv, LifetimeInv,
           Begin \/ CommitDone \/ Crash \/ Open \/ RecoverTxns \/ \E t \in TxnIds : Abort(t)
    PROVE  LifetimeInv'
<1>1. UNCHANGED <<ver, head, meta>>
  BY DEF Begin, CommitDone, Crash, Open, RecoverTxns, Abort, durable
<1>2. [Idle EXCEPT !.t = next.txn] \in OpType /\ [Idle EXCEPT !.t = 1, !.by = "Open"] \in OpType
  BY IdleType, ZenonT(30) DEF OpType, TypeOK, Oracle
<1>3. CASE Begin \/ CommitDone \/ Crash \/ Open
  BY <1>1, <1>2, <1>3, Starts, DurableFrame DEF Begin, CommitDone, Crash, Open
<1>4. CASE \E t \in TxnIds : Abort(t)
  <2>1. op'.pc = "restore"
    BY <1>4, IdleType, ZenonT(30) DEF Abort, Restoring, OpType
  <2> QED BY <1>1, <2>1, Starts, DurableFrame
<1>5. CASE RecoverTxns
  <2>1. op' = Idle \/ op'.pc \in {"apply", "restore", "recover"}
    BY <1>5, IdleType DEF RecoverTxns, Recovering, Applying, Restoring, OpType, TypeOK
  <2> QED BY <1>1, <2>1, Starts, DurableFrame
<1> QED BY <1>3, <1>4, <1>5

\* Records of transactions that have no intent on disk before or after the step:
\* BeginMeta, WriteMeta and PutAborted.
LEMMA RecordLife ==
    ASSUME TypeOK, ProtocolInv, LifetimeInv, NEW m, m.state # "Committing",
           op.t \in TxnIds, meta[op.t].state # "Committing",
           meta' = [meta EXCEPT ![op.t] = m], UNCHANGED <<ver, head>>,
           op' = Idle \/ op'.pc = "recover"
    PROVE  LifetimeInv'
<1>1. SameVersions
  BY DEF SameVersions
<1>2. \A t \in TxnIds : meta'[t] = IF t = op.t THEN m ELSE meta[t]
  BY DEF TypeOK
<1>3. \A t \in TxnIds : meta[t].state = "Committing" \/ meta'[t].state = "Committing" =>
         meta'[t] = meta[t]
  BY <1>2
<1>4. \A r \in Rows, v \in VersionIds : Provisional(r, v) => ver[r][v].created_by \in TxnIds
  BY ChainTypes DEF Provisional
<1> QED BY <1>1, <1>3, <1>4, Starts, QuietFrame

\* The first record of a transaction touches no chain (Begin).
LEMMA BeginMetaLife ==
    ASSUME TypeOK, ProtocolInv, LifetimeInv, BeginMeta
    PROVE  LifetimeInv'
<1>1. op.t \in TxnIds /\ meta[op.t].state = "NotFound"
  BY DEF BeginMeta, ProtocolInv, BeginInv, At
<1>2. [NoMeta EXCEPT !.state = "Open"].state = "Open"
  BY DEF NoMeta
<1> QED BY <1>1, <1>2, RecordLife DEF BeginMeta

\* Recording the write list of an open transaction touches no chain (Write).
LEMMA WriteMetaLife ==
    ASSUME TypeOK, ProtocolInv, LifetimeInv, WriteMeta
    PROVE  LifetimeInv'
<1>1. op.t \in TxnIds /\ meta[op.t].state = "Open"
  BY DEF WriteMeta, ProtocolInv, WriteInv, At
<1>2. [state |-> "Open", commit_ts |-> 0, writes |-> txn[op.t].written].state = "Open"
  OBVIOUS
<1> QED BY <1>1, <1>2, RecordLife DEF WriteMeta

\* The Aborted record of a transaction whose heads are restored touches no chain
\* (AbortTransaction, RecoverTxns).
LEMMA PutAbortedLife ==
    ASSUME TypeOK, ProtocolInv, LifetimeInv, PutAborted
    PROVE  LifetimeInv'
<1>1. op.t \in TxnIds /\ meta[op.t].state = "Open"
  BY DEF PutAborted, ProtocolInv, RestoreInv
<1>2. [NoMeta EXCEPT !.state = "Aborted"].state = "Aborted"
  BY DEF NoMeta
<1>3. op' = Idle \/ op'.pc = "recover"
  BY IdleType, ZenonT(30) DEF PutAborted, OpType
<1> QED BY <1>1, <1>2, <1>3, RecordLife DEF PutAborted

\* A second write of a row by the same transaction replaces the payload of the
\* provisional version that it listed, and nothing else (txn.cpp, Write).
Rewrites(t, r, vid, val) ==
    /\ vid \in VersionIds /\ Lists(txn[t].written, r, vid) /\ Exists(r, vid)
    /\ ver'[r][vid].val = val
    /\ \A s \in Rows, v \in VersionIds : s # r \/ v # vid => ver'[s][v] = ver[s][v]
    /\ SameVersions

\* That is what RewriteOwn does.
LEMMA RewriteOwnShape ==
    ASSUME TypeOK, ProtocolInv, NEW t \in TxnIds, NEW r \in Rows, NEW kind,
           NEW val \in Vals, txn[t].st = "open", RewriteOwn(t, r, kind, val)
    PROVE  \E vid : Rewrites(t, r, vid, val)
<1>1. PICK i \in Written(t, r) : ver' = [ver EXCEPT ![r][txn[t].written[i].vid].val = val]
  BY DEF RewriteOwn
<1> DEFINE vid == txn[t].written[i].vid
<1>2. /\ ver \in [Rows -> [VersionIds -> VersionRecord \cup {NoVersion}]]
      /\ txn[t].written \in Seq(TxnWrite) /\ i \in 1 .. Len(txn[t].written)
      /\ txn[t].written[i].row = r
  BY <1>1 DEF TypeOK, Written, TxnObject
<1>3. vid \in VersionIds /\ Lists(txn[t].written, r, vid)
  BY <1>2, Entry DEF Lists
<1>4. ver[r][vid] # NoVersion /\ ver[r][vid] \in VersionRecord
  BY <1>2, <1>3, SMT DEF ProtocolInv, ListInv, Exists
<1>5. ver' = [ver EXCEPT ![r][vid].val = val]
  BY <1>1
<1> HIDE DEF vid
<1>6. /\ ver'[r][vid] = [ver[r][vid] EXCEPT !.val = val]
      /\ \A s \in Rows, v \in VersionIds : s # r \/ v # vid => ver'[s][v] = ver[s][v]
  BY <1>2, <1>3, <1>5
<1>7. [ver[r][vid] EXCEPT !.val = val] \in VersionRecord
  BY <1>4 DEF VersionRecord
<1>8. /\ ver'[r][vid].start_ts = ver[r][vid].start_ts /\ ver'[r][vid].end_ts = ver[r][vid].end_ts
      /\ ver'[r][vid].prev_id = ver[r][vid].prev_id
      /\ ver'[r][vid].created_by = ver[r][vid].created_by
      /\ ver'[r][vid].val = val /\ ver'[r][vid] # NoVersion
  BY <1>4, <1>6, <1>7, ValuesAssumption DEF VersionRecord
<1>9. SameVersions
  BY <1>4, <1>6, <1>8 DEF SameVersions
<1>10. Rewrites(t, r, vid, val)
  BY <1>3, <1>4, <1>6, <1>8, <1>9 DEF Rewrites, Exists
<1> QED BY <1>10

\* Rewriting a payload touches no chain.
LEMMA RewriteOwnLife ==
    ASSUME TypeOK, ProtocolInv, LifetimeInv, NEW t \in TxnIds, NEW r \in Rows, NEW kind,
           NEW val \in Vals, op = Idle, txn[t].st = "open", RewriteOwn(t, r, kind, val)
    PROVE  LifetimeInv'
<1>1. UNCHANGED <<head, meta, op>>
  BY DEF RewriteOwn
<1>2. SameVersions
  BY RewriteOwnShape DEF Rewrites
<1> QED BY <1>1, <1>2, Starts, QuietFrame

-----------------------------------------------------------------------------
\* Transaction::Write.

\* The version that Write puts below the new one is the newest committed one, and
\* still open-ended: a provisional head can only be an aborted one here.
LEMMA PrevIdNewest ==
    ASSUME TypeOK, ProtocolInv, ChainInv, NEW r \in Rows, op = Idle,
           head[r] # 0 => ~(/\ ver[r][head[r]].start_ts = 0
                            /\ meta[ver[r][head[r]].created_by].state \in {"Open", "NotFound"})
    PROVE  /\ NewestIs(r, PrevId(r))
           /\ PrevId(r) # 0 => ver[r][PrevId(r)].end_ts = 0
<1> DEFINE h == head[r]
<1>1. h # 0 => h \in VersionIds /\ Exists(r, h)
  BY ChainTypes DEF ProtocolInv, HeadInv
<1>2. CASE h = 0 \/ Stamped(r, h)
  <2>1. PrevId(r) = h
    BY <1>2, SMTT(30) DEF PrevId, Stamped, is_provisional
  <2> QED BY <1>2, <2>1, Chain DEF RowChain
<1>3. CASE h # 0 /\ ~Stamped(r, h)
  <2>1. /\ ver[r][h].start_ts = 0 /\ ver[r][h].created_by \in TxnIds
    BY <1>1, <1>3, ChainTypes DEF Stamped
  <2>2. meta[ver[r][h].created_by].state \notin {"Open", "NotFound", "Committed"}
    BY <1>1, <1>3, <2>1 DEF ProtocolInv, VersionInv
  <2>3. meta[ver[r][h].created_by].state # "Committing"
    <3>1. op.pc = "idle" /\ op.by = "client"
      BY IdleFields
    <3> QED BY <2>1, <3>1 DEF ProtocolInv, StateInv
  <2>4. meta[ver[r][h].created_by].state \in TxnState
    BY <2>1 DEF TypeOK, TxnMeta
  <2>5. meta[ver[r][h].created_by].state = "Aborted"
    BY <2>2, <2>3, <2>4 DEF TxnState
  <2>6. PrevId(r) = ver[r][h].prev_id
    BY <1>3, <2>1, <2>5 DEF PrevId, is_provisional
  <2> QED BY <1>3, <2>3, <2>6, Chain DEF RowChain
<1> QED BY <1>2, <1>3

\* A first write of a row picks as predecessor the newest committed version,
\* skipping a head that an aborted transaction left (txn.cpp, Write).
LEMMA WriteNewLife ==
    ASSUME TypeOK, ProtocolInv, LifetimeInv, NEW t \in TxnIds, NEW r \in Rows, NEW kind,
           NEW val \in Vals, op = Idle, WriteNew(t, r, kind, val)
    PROVE  LifetimeInv'
<1>1. /\ next' = [next EXCEPT !.vid = @ + 1] /\ UNCHANGED <<ver, head, meta>>
      /\ op' = Persist([Idle EXCEPT !.t = t, !.r = r, !.val = val, !.prev = PrevId(r)],
                       "putVersion")
      /\ head[r] # 0 => ~HeldByOther(t, r)
  BY DEF WriteNew
<1>2. head[r] # 0 => ~(/\ ver[r][head[r]].start_ts = 0
                       /\ meta[ver[r][head[r]].created_by].state \in {"Open", "NotFound"})
  BY <1>1 DEF HeldByOther, is_provisional
<1>3. /\ HeadInv /\ OracleInv /\ ChainInv /\ ToStampInv /\ OpenEnded /\ LifetimesDisjoint
  BY DEF ProtocolInv, LifetimeInv
<1>4. /\ NewestIs(r, PrevId(r)) /\ (PrevId(r) # 0 => ver[r][PrevId(r)].end_ts = 0)
      /\ PrevId(r) \in 0 .. MaxVersion /\ (PrevId(r) # 0 => Exists(r, PrevId(r)))
  BY <1>2, <1>3, PrevIdNewest, PrevIdExists
<1>5. op'.prev = PrevId(r) /\ op'.r = r /\ op'.pc = "persist"
  BY <1>1, <1>4, IdleType DEF Persist, OpType
<1>6. NewVid' = next.vid /\ PrevId(r) < next.vid
  <2>1. next \in Oracle /\ stored \in Oracle /\ op.pc # "down"
    BY IdleFields DEF TypeOK
  <2>2. NewVid' = next.vid /\ next.vid \in Nat /\ stored.vid \in Nat /\ next.vid >= 1
    BY <1>1, <1>3, <2>1, SMT DEF NewVid, Oracle, OracleInv
  <2>3. PrevId(r) # 0 => PrevId(r) < stored.vid /\ stored.vid <= next.vid
    BY <1>3, <1>4, <2>1, Vid DEF OracleInv
  <2> QED BY <1>4, <2>2, <2>3, SMT
<1>7. InstallInv'
  BY <1>1, <1>4, <1>5, <1>6 DEF InstallInv, NewestIs, Stamped, Exists
<1>8. SameVersions
  BY <1>1 DEF SameVersions
<1>9. ChainInv'
  BY <1>1, <1>3, <1>8, ChainFrame
<1>10. ToStampInv'
  BY <1>1, <1>3, <1>5, <1>8, StampFrame
<1> QED BY <1>3, <1>7, <1>8, <1>9, <1>10, EndsFrame DEF LifetimeInv

\* Storing the new provisional version, not yet the head, leaves what is
\* committed alone (mvcc.cpp, PutVersionValue).
LEMMA PutVersionValueLife ==
    ASSUME TypeOK, ProtocolInv, LifetimeInv, PutVersionValue
    PROVE  LifetimeInv'
<1> DEFINE rec == [start_ts |-> 0, end_ts |-> 0, prev_id |-> op.prev,
                   created_by |-> op.t, val |-> op.val]
<1>1. /\ op.pc = "putVersion" /\ op' = [op EXCEPT !.pc = "setHead"] /\ op \in OpType
      /\ ver' = [ver EXCEPT ![op.r][NewVid] = rec] /\ UNCHANGED <<head, meta, next>>
      /\ ver \in [Rows -> [VersionIds -> VersionRecord \cup {NoVersion}]]
  BY DEF PutVersionValue, TypeOK
<1>2. /\ HeadInv /\ ChainInv /\ ToStampInv /\ OpenEnded /\ LifetimesDisjoint /\ InstallInv
  BY DEF ProtocolInv, LifetimeInv
<1>3. /\ op.t \in TxnIds /\ op.r \in Rows /\ NewVid \in VersionIds /\ meta[op.t].state = "Open"
      /\ \A r \in Rows : ~Exists(r, NewVid)
  BY <1>1 DEF ProtocolInv, WriteInv, At
<1>4. rec # NoVersion
  BY <1>1, <1>3, ValuesAssumption, SMT DEF OpType, VersionRecord
<1>5. /\ ver'[op.r][NewVid] = rec
      /\ \A r \in Rows, v \in VersionIds : r # op.r \/ v # NewVid => ver'[r][v] = ver[r][v]
  BY <1>1, <1>3
<1>6. /\ rec.start_ts = 0 /\ rec.end_ts = 0 /\ rec.prev_id = op.prev /\ rec.created_by = op.t
  OBVIOUS
<1> HIDE DEF rec
<1>7. \A r \in Rows, v \in VersionIds :
         /\ Exists(r, v) => ver'[r][v] = ver[r][v] /\ Exists(r, v)'
         /\ Stamped(r, v)' <=> Stamped(r, v)
         /\ Provisional(r, v)' <=> Provisional(r, v) \/ (r = op.r /\ v = NewVid)
  BY <1>3, <1>4, <1>5, <1>6 DEF Exists, Stamped, Provisional
<1>8. \A r \in Rows : \A p \in 0 .. MaxVersion : NewestIs(r, p)' <=> NewestIs(r, p)
  BY <1>7, Vid DEF NewestIs
<1>9. ChainInv'
  <2> SUFFICES ASSUME NEW r \in Rows
               PROVE  RowChain(r)'
    BY ChainNext
  <2> DEFINE h == head[r]
             p == ver[r][h].prev_id
  <2>1. h \in 0 .. MaxVersion /\ (h # 0 => h \in VersionIds /\ Exists(r, h)) /\ head'[r] = h
    BY <1>1, <1>2, ChainTypes DEF HeadInv
  <2>2. h # 0 => ver'[r][h] = ver[r][h]
    BY <1>7, <2>1
  <2>3. CASE h = 0 \/ Stamped(r, h)
    <3>1. NewestIs(r, h) /\ (h # 0 => ver[r][h].end_ts = 0)
      BY <1>2, <2>3, Chain DEF RowChain
    <3>2. NewestIs(r, h)' /\ (h = 0 \/ Stamped(r, head[r])')
      BY <1>1, <1>7, <1>8, <2>1, <2>3, <3>1 DEF NewestIs, Stamped, Exists
    <3>3. NewestIs(r, head[r])'
      BY <2>1, <3>2, SMTT(30) DEF NewestIs, Stamped, Exists
    <3> QED BY <2>1, <2>2, <3>1, <3>2, <3>3 DEF RowChain
  <2>4. CASE h # 0 /\ ~Stamped(r, h)
    <3>1. /\ p < h /\ NewestIs(r, p)
          /\ p # 0 => \/ ver[r][p].end_ts = 0
                      \/ /\ meta[ver[r][h].created_by].state = "Committing"
                         /\ ver[r][p].end_ts = meta[ver[r][h].created_by].commit_ts
      BY <1>2, <2>4, Chain, SMTT(30) DEF RowChain
    <3>2. p \in 0 .. MaxVersion /\ (p # 0 => p \in VersionIds /\ ver'[r][p] = ver[r][p])
      BY <1>7, <2>1, <2>4, <3>1, ChainTypes DEF NewestIs, Stamped
    <3>3. ~Stamped(r, head[r])' /\ Provisional(r, head[r])'
      BY <2>1, <2>2, <2>4 DEF Stamped, Provisional, Exists
    <3>4. NewestIs(r, ver[r][head[r]].prev_id)'
      <4>1. PICK q \in 0 .. MaxVersion : q = p
        BY <3>2
      <4>2. NewestIs(r, q)'
        BY <1>8, <3>1, <4>1
      <4>3. q = ver'[r][head'[r]].prev_id
        BY <2>1, <2>2, <2>4, <4>1
      <4> QED BY <4>2, <4>3 DEF NewestIs, Stamped, Exists
    <3> QED BY <1>1, <2>1, <2>2, <2>4, <3>1, <3>2, <3>3, <3>4, ZenonT(30) DEF RowChain
  <2> QED BY <2>3, <2>4
<1>10. op'.prev = op.prev /\ op'.r = op.r /\ op'.pc = "setHead" /\ NewVid' = NewVid
  BY <1>1 DEF OpType, NewVid
<1>11. InstallInv'
  <2>1. /\ op.prev < NewVid /\ NewestIs(op.r, op.prev) /\ op.prev \in 0 .. MaxVersion
        /\ op.prev # 0 => ver[op.r][op.prev].end_ts = 0 /\ op.prev \in VersionIds
    BY <1>1, <1>2, Vid DEF InstallInv, At, OpType
  <2>2. op.prev # 0 => ver'[op.r][op.prev] = ver[op.r][op.prev]
    BY <1>3, <1>7, <2>1 DEF NewestIs, Stamped
  <2>3. NewestIs(op.r, op.prev)'
    BY <1>3, <1>7, <1>10, <2>1, <2>2, SMT DEF NewestIs, Stamped, Exists
  <2> QED BY <1>10, <2>1, <2>2, <2>3 DEF InstallInv
<1>12. ToStampInv'
  <2> SUFFICES ASSUME NEW t \in TxnIds, meta'[t].state = "Committing",
                      NEW r \in Rows, NEW v \in VersionIds,
                      Provisional(r, v)', ver'[r][v].created_by = t
               PROVE  /\ head'[r] = v
                      /\ ver'[r][v].prev_id # 0 =>
                            ver'[r][ver'[r][v].prev_id].start_ts < meta'[t].commit_ts
    BY <1>10 DEF ToStampInv
  <2>1. Provisional(r, v) /\ Exists(r, v)
    BY <1>1, <1>3, <1>5, <1>6, <1>7, SMT DEF Provisional
  <2>2. ver'[r][v] = ver[r][v]
    BY <1>7, <2>1
  <2>3. ver[r][v].prev_id # 0 => ver'[r][ver[r][v].prev_id] = ver[r][ver[r][v].prev_id]
    BY <1>2, <1>7, <2>1, ChainTypes DEF HeadInv
  <2> QED BY <1>1, <1>2, <2>1, <2>2, <2>3, SMT DEF ToStampInv
<1>13. OpenEnded'
  BY <1>2, <1>5, <1>6, <1>7, SMT DEF OpenEnded, Provisional
<1>14. LifetimesDisjoint'
  <2>1. \A r \in Rows, v \in VersionIds :
           ver'[r][v] # NoVersion /\ ver'[r][v].start_ts # 0 =>
               ver[r][v] # NoVersion /\ ver[r][v].start_ts # 0 /\ ver'[r][v] = ver[r][v]
    BY <1>7 DEF Stamped, Exists
  <2> QED BY <1>2, <2>1, SMT DEF LifetimesDisjoint, is_provisional
<1> QED BY <1>9, <1>11, <1>12, <1>13, <1>14 DEF LifetimeInv

\* Making the new version the head puts it right above the newest committed one
\* (mvcc.cpp, SetHead).
LEMMA SetHeadLife ==
    ASSUME TypeOK, ProtocolInv, LifetimeInv, SetHead
    PROVE  LifetimeInv'
<1>1. /\ op.pc = "setHead" /\ op' = [op EXCEPT !.pc = "writeMeta"] /\ op \in OpType
      /\ head' = [head EXCEPT ![op.r] = NewVid] /\ UNCHANGED <<ver, meta>>
      /\ head \in [Rows -> 0 .. MaxVersion]
  BY DEF SetHead, TypeOK
<1>2. /\ HeadInv /\ ChainInv /\ OpenEnded /\ LifetimesDisjoint /\ InstallInv
  BY DEF ProtocolInv, LifetimeInv
<1>3. /\ op.by = "client" /\ op.r \in Rows /\ NewVid \in VersionIds
      /\ Provisional(op.r, NewVid) /\ ver[op.r][NewVid].prev_id = op.prev
  BY <1>1 DEF ProtocolInv, WriteInv, At
<1>4. /\ op.prev < NewVid /\ NewestIs(op.r, op.prev)
      /\ op.prev # 0 => ver[op.r][op.prev].end_ts = 0
  BY <1>1, <1>2 DEF InstallInv, At
<1>5. head'[op.r] = NewVid /\ NewVid # 0 /\ \A r \in Rows : r # op.r => head'[r] = head[r]
  BY <1>1, <1>3, Ids, SMT
<1>6. op'.pc = "writeMeta" /\ ~At({"putVersion", "setHead"})'
  BY <1>1 DEF At, OpType
<1>7. ChainInv'
  <2> SUFFICES ASSUME NEW r \in Rows
               PROVE  RowChain(r)'
    BY ChainNext
  <2>1. CASE r = op.r
    BY <1>1, <1>3, <1>4, <1>5, <2>1 DEF Provisional, Stamped, Exists, NewestIs, RowChain
  <2>2. CASE r # op.r
    BY <1>1, <1>2, <1>5, <2>2, RowFrame
  <2> QED BY <2>1, <2>2, SMTT(30)
<1>8. InstallInv'
  BY <1>6 DEF InstallInv
<1>9. ToStampInv'
  <2>1. \A t \in TxnIds : meta'[t].state # "Committing"
    BY <1>1, <1>3 DEF ProtocolInv, StateInv
  <2> QED BY <1>6, <2>1 DEF ToStampInv
<1>10. OpenEnded' /\ LifetimesDisjoint'
  BY <1>1, <1>2 DEF OpenEnded, Provisional, Exists, LifetimesDisjoint
<1> QED BY <1>7, <1>8, <1>9, <1>10 DEF LifetimeInv

-----------------------------------------------------------------------------
\* Database::CommitTransaction.

\* The check that opens a commit: afterwards every version of the transaction is
\* a head above something older than the new timestamp (CommitTransaction).
LEMMA CommitLife ==
    ASSUME TypeOK, ProtocolInv, LifetimeInv, NEW t \in TxnIds, Commit(t)
    PROVE  LifetimeInv'
<1>1. op = Idle /\ op.pc = "idle" /\ txn[t].st = "open" /\ UNCHANGED <<ver, head, meta>>
  BY IdleFields DEF Commit
<1>2. CASE ~CommitCheck(t)
  <2>1. op'.pc = "restore"
    BY <1>2, IdleType, ZenonT(30) DEF Commit, Restoring, OpType
  <2> QED BY <1>1, <2>1, Starts, DurableFrame
<1>3. CASE CommitCheck(t)
  <2>1. op' = [Idle EXCEPT !.pc = "intent", !.t = t, !.cts = next.ts]
    BY <1>3 DEF Commit
  <2>2. op'.pc = "intent" /\ op'.t = t /\ op'.cts = next.ts
    BY <2>1, IdleType DEF OpType
  <2>3. /\ HeadInv /\ ListInv /\ ChainInv /\ ToStampInv /\ OpenEnded /\ LifetimesDisjoint
    BY DEF ProtocolInv, LifetimeInv
  <2>4. SameVersions
    BY <1>1 DEF SameVersions
  <2>5. next.ts \in Nat /\ next.ts >= 1 /\ txn[t].start_ts \in Nat /\ txn[t].start_ts < next.ts
    BY <1>1 DEF TypeOK, Oracle, TxnObject, ProtocolInv, OracleInv, StateInv
  <2>6. ASSUME NEW r \in Rows, NEW v \in VersionIds, Exists(r, v), ver[r][v].created_by = t
        PROVE  head[r] = v /\ (ver[r][v].prev_id # 0 =>
                                  ver[r][ver[r][v].prev_id].start_ts < next.ts)
    <3>1. Lists(txn[t].written, r, v)
      BY <1>1, <2>3, <2>6 DEF ListInv
    <3>2. PICK i \in 1 .. Len(txn[t].written) :
             txn[t].written[i].row = r /\ txn[t].written[i].vid = v
      BY <3>1 DEF Lists
    <3>3. StillOurs(t, i)
      BY <1>3, <3>2 DEF CommitCheck
    <3>4. head[r] = v
      BY <3>2, <3>3 DEF StillOurs
    <3>5. ASSUME ver[r][v].prev_id # 0 PROVE ver[r][ver[r][v].prev_id].start_ts < next.ts
      <4>1. Exists(r, ver[r][v].prev_id) /\ ver[r][ver[r][v].prev_id].start_ts \in Nat
        BY <2>3, <2>6, <3>5, ChainTypes DEF HeadInv
      <4>2. \/ ver[r][ver[r][v].prev_id].start_ts = 0
            \/ ver[r][ver[r][v].prev_id].start_ts <= txn[t].start_ts
        BY <3>2, <3>3, <3>5, <4>1 DEF StillOurs, is_provisional, Exists
      <4> QED BY <2>5, <4>1, <4>2, SMT
    <3> QED BY <3>4, <3>5
  <2>7. ToStampInv'
    <3>1. \A u \in TxnIds : meta'[u].state = "Committing" =>
             \A r \in Rows, v \in VersionIds :
                 Provisional(r, v)' /\ ver'[r][v].created_by = u =>
                     /\ head'[r] = v
                     /\ ver'[r][v].prev_id # 0 =>
                           ver'[r][ver'[r][v].prev_id].start_ts < meta'[u].commit_ts
      BY <1>1, <2>3, SMT DEF ToStampInv, Provisional, Exists
    <3>2. \A r \in Rows, v \in VersionIds :
             Exists(r, v)' /\ ver'[r][v].created_by = op'.t =>
                 /\ head'[r] = v
                 /\ ver'[r][v].prev_id # 0 => ver'[r][ver'[r][v].prev_id].start_ts < op'.cts
      BY <1>1, <2>2, <2>6 DEF Exists
    <3> QED BY <3>1, <3>2 DEF ToStampInv
  <2>8. InstallInv'
    BY <2>2 DEF InstallInv, At
  <2>9. ChainInv'
    BY <1>1, <2>3, <2>4, ChainFrame
  <2> QED BY <2>3, <2>4, <2>7, <2>8, <2>9, EndsFrame DEF LifetimeInv
<1> QED BY <1>2, <1>3

-----------------------------------------------------------------------------
\* The durable intent turns the provisional versions of a transaction into
\* versions to stamp (CommitTransaction).
LEMMA PutIntentLife ==
    ASSUME TypeOK, ProtocolInv, LifetimeInv, PutIntent
    PROVE  LifetimeInv'
<1> DEFINE m == [state |-> "Committing", commit_ts |-> op.cts, writes |-> txn[op.t].written]
<1>1. /\ op.pc = "intent" /\ UNCHANGED <<ver, head>> /\ meta' = [meta EXCEPT ![op.t] = m]
      /\ op' = Applying(op.t, txn[op.t].written, op.cts, "client")
  BY DEF PutIntent
<1>2. /\ HeadInv /\ ChainInv /\ ToStampInv /\ OpenEnded /\ LifetimesDisjoint
  BY DEF ProtocolInv, LifetimeInv
<1>3. op.t \in TxnIds /\ meta[op.t].state = "Open"
  BY <1>1 DEF ProtocolInv, CommitInv
<1>4. meta'[op.t] = m /\ \A t \in TxnIds : t # op.t => meta'[t] = meta[t]
  BY <1>1, <1>3 DEF TypeOK
<1>5. m.state = "Committing" /\ m.commit_ts = op.cts
  OBVIOUS
<1> HIDE DEF m
<1>6. op'.pc = "apply"
  BY <1>1, IdleType DEF Applying, OpType
<1>7. ~At({"putVersion", "setHead"})'
  BY <1>6, Starts
<1>8. SameVersions
  BY <1>1 DEF SameVersions
<1>9. ChainInv'
  <2>1. \A r \in Rows, v \in VersionIds :
           Provisional(r, v) /\ meta[ver[r][v].created_by].state = "Committing" =>
               /\ meta'[ver[r][v].created_by].state = "Committing"
               /\ meta'[ver[r][v].created_by].commit_ts = meta[ver[r][v].created_by].commit_ts
    BY <1>3, <1>4, ChainTypes DEF Provisional
  <2> QED BY <1>1, <1>2, <1>8, <2>1, ChainFrame
<1>10. ToStampInv'
  <2> SUFFICES ASSUME NEW t \in TxnIds, meta'[t].state = "Committing",
                      NEW r \in Rows, NEW v \in VersionIds,
                      Provisional(r, v)', ver'[r][v].created_by = t
               PROVE  /\ head'[r] = v
                      /\ ver'[r][v].prev_id # 0 =>
                            ver'[r][ver'[r][v].prev_id].start_ts < meta'[t].commit_ts
    BY <1>6 DEF ToStampInv
  <2>1. Provisional(r, v) /\ Exists(r, v)
    BY <1>1 DEF Provisional, Exists
  <2>2. CASE t = op.t
    BY <1>1, <1>2, <1>4, <1>5, <2>1, <2>2, SMT DEF ToStampInv
  <2>3. CASE t # op.t
    BY <1>1, <1>2, <1>4, <2>1, <2>3, SMT DEF ToStampInv
  <2> QED BY <2>2, <2>3
<1>11. InstallInv'
  BY <1>7 DEF InstallInv
<1> QED BY <1>2, <1>8, <1>9, <1>10, <1>11, EndsFrame DEF LifetimeInv

\* The Committed record: every version of the transaction is stamped by then, so no
\* provisional head loses its intent.
LEMMA PutCommittedLife ==
    ASSUME TypeOK, ProtocolInv, ProtocolInv', LifetimeInv, PutCommitted
    PROVE  LifetimeInv'
<1> DEFINE m == [state |-> "Committed", commit_ts |-> op.cts, writes |-> <<>>]
<1>1. /\ op.pc = "apply" /\ UNCHANGED <<ver, head>> /\ meta' = [meta EXCEPT ![op.t] = m]
  BY DEF PutCommitted
<1>2. op.t \in TxnIds /\ op \in OpType
  BY <1>1 DEF ProtocolInv, CommitInv, TypeOK
<1>3. meta'[op.t] = m /\ \A t \in TxnIds : t # op.t => meta'[t] = meta[t]
  BY <1>1, <1>2 DEF TypeOK
<1>4. m.state = "Committed"
  OBVIOUS
<1> HIDE DEF m
<1>5. SameVersions
  BY <1>1 DEF SameVersions
<1>6. ~At({"putVersion", "setHead"})' /\ op'.pc # "intent"
  <2>1. [Idle EXCEPT !.t = op.t] \in OpType /\ [Idle EXCEPT !.t = op.t + 1, !.by = "Open"] \in OpType
    <3>1. op.t \in Nat /\ op.t + 1 \in Nat
      BY <1>2, Ids, SMT
    <3> QED BY <3>1, IdleType, ZenonT(30) DEF OpType
  <2>2. [Idle EXCEPT !.pc = "recover", !.t = op.t + 1, !.by = "Open"].pc = "recover"
    BY IdleType DEF OpType
  <2>3. \/ op' = Persist([Idle EXCEPT !.t = op.t], "committed")
        \/ op' = Persist([Idle EXCEPT !.t = op.t + 1, !.by = "Open"], "recover")
        \/ op' = [Idle EXCEPT !.pc = "recover", !.t = op.t + 1, !.by = "Open"]
    BY DEF PutCommitted
  <2> QED BY <2>1, <2>2, <2>3, Starts
<1>7. \A r \in Rows, v \in VersionIds : Provisional(r, v) =>
         ver[r][v].created_by \in TxnIds /\ ver[r][v].created_by # op.t
  <2> SUFFICES ASSUME NEW r \in Rows, NEW v \in VersionIds, Provisional(r, v)
               PROVE  ver[r][v].created_by \in TxnIds /\ ver[r][v].created_by # op.t
    OBVIOUS
  <2>1. Exists(r, v)' /\ ver'[r][v].start_ts = 0 /\ ver' = ver
    BY <1>1 DEF Provisional, Exists
  <2>2. meta'[ver'[r][v].created_by].state # "Committed"
    BY <2>1 DEF ProtocolInv, VersionInv
  <2>3. ver[r][v].created_by \in TxnIds
    BY ChainTypes DEF Provisional
  <2> QED BY <1>3, <1>4, <2>1, <2>2, <2>3
<1>8. \A t \in TxnIds : meta'[t].state = "Committing" => meta'[t] = meta[t]
  BY <1>3, <1>4
<1> QED BY <1>1, <1>3, <1>5, <1>6, <1>7, <1>8, QuietFrame

-----------------------------------------------------------------------------
\* ApplyCommitWrites.

\* A version that still has to be stamped: it is the head, and the version below it
\* is the newest committed one, older than the commit.
LEMMA AboutToStamp ==
    ASSUME TypeOK, ProtocolInv, LifetimeInv, NEW r \in Rows, NEW v \in VersionIds,
           Provisional(r, v), NEW p, p = ver[r][v].prev_id,
           NEW c, c = meta[ver[r][v].created_by].commit_ts,
           meta[ver[r][v].created_by].state = "Committing"
    PROVE  /\ head[r] = v /\ p < v /\ NewestIs(r, p) /\ p \in 0 .. MaxVersion /\ c \in Nat
           /\ p # 0 => /\ p \in VersionIds /\ Stamped(r, p) /\ ver[r][p].start_ts < c
                       /\ ver[r][p].end_ts \in {0, c}
           /\ \A w \in VersionIds : Provisional(r, w) /\ w # v =>
                 meta[ver[r][w].created_by].state # "Committing"
<1>1. ChainInv /\ ToStampInv
  BY DEF LifetimeInv
<1>2. Exists(r, v) /\ ver[r][v].created_by \in TxnIds /\ v # 0 /\ ~Stamped(r, v)
  BY ChainTypes, Ids, SMT DEF Provisional, Stamped
<1>3. head[r] = v /\ (p # 0 => ver[r][p].start_ts < c)
  BY <1>1, <1>2 DEF ToStampInv
<1>4. /\ p < v /\ NewestIs(r, p) /\ (p # 0 => ver[r][p].end_ts \in {0, c})
  BY <1>1, <1>2, <1>3, Chain DEF RowChain
<1>5. p \in 0 .. MaxVersion /\ c \in Nat /\ (p # 0 => p \in VersionIds /\ Stamped(r, p))
  BY <1>2, <1>4, ChainTypes DEF NewestIs
<1>6. \A w \in VersionIds : Provisional(r, w) /\ w # v =>
         meta[ver[r][w].created_by].state # "Committing"
  BY <1>1, <1>3, ChainTypes, SMT DEF ToStampInv, Provisional
<1> QED BY <1>3, <1>4, <1>5, <1>6

\* An update of one version leaves the others, and its owner, link and payload, alone.
OnlyVersion(r, v) ==
    \A s \in Rows, w \in VersionIds :
        /\ s # r \/ w # v => ver'[s][w] = ver[s][w]
        /\ Exists(s, w)' <=> Exists(s, w)
        /\ Exists(s, w) => /\ ver'[s][w].prev_id = ver[s][w].prev_id
                           /\ ver'[s][w].created_by = ver[s][w].created_by
                           /\ ver'[s][w].val = ver[s][w].val

\* Writing the end of one version leaves its start and every other version alone.
LEMMA EndField ==
    ASSUME TypeOK, NEW r \in Rows, NEW v \in VersionIds, Exists(r, v), NEW c \in Nat,
           ver' = [ver EXCEPT ![r][v].end_ts = c]
    PROVE  /\ OnlyVersion(r, v)
           /\ ver'[r][v].start_ts = ver[r][v].start_ts /\ ver'[r][v].end_ts = c
<1>1. ver \in [Rows -> [VersionIds -> VersionRecord \cup {NoVersion}]] /\ ver[r][v] \in VersionRecord
  BY DEF TypeOK, Exists
<1>2. \A s \in Rows, w \in VersionIds : s # r \/ w # v => ver'[s][w] = ver[s][w]
  BY <1>1
<1>3. ver'[r][v] = [ver[r][v] EXCEPT !.end_ts = c]
  BY <1>1
<1>4. [ver[r][v] EXCEPT !.end_ts = c] \in VersionRecord
  BY <1>1 DEF VersionRecord
<1>5. /\ ver'[r][v] # NoVersion /\ ver'[r][v].prev_id = ver[r][v].prev_id
      /\ ver'[r][v].created_by = ver[r][v].created_by /\ ver'[r][v].val = ver[r][v].val
      /\ ver'[r][v].start_ts = ver[r][v].start_ts /\ ver'[r][v].end_ts = c
  BY <1>1, <1>3, <1>4, ValuesAssumption DEF VersionRecord
<1> QED BY <1>2, <1>5 DEF Exists, OnlyVersion

\* Writing the start of one version leaves its end and every other version alone.
LEMMA StartField ==
    ASSUME TypeOK, NEW r \in Rows, NEW v \in VersionIds, Exists(r, v), NEW c \in Nat,
           ver' = [ver EXCEPT ![r][v].start_ts = c]
    PROVE  /\ OnlyVersion(r, v)
           /\ ver'[r][v].start_ts = c /\ ver'[r][v].end_ts = ver[r][v].end_ts
<1>1. ver \in [Rows -> [VersionIds -> VersionRecord \cup {NoVersion}]] /\ ver[r][v] \in VersionRecord
  BY DEF TypeOK, Exists
<1>2. \A s \in Rows, w \in VersionIds : s # r \/ w # v => ver'[s][w] = ver[s][w]
  BY <1>1
<1>3. ver'[r][v] = [ver[r][v] EXCEPT !.start_ts = c]
  BY <1>1
<1>4. [ver[r][v] EXCEPT !.start_ts = c] \in VersionRecord
  BY <1>1 DEF VersionRecord
<1>5. /\ ver'[r][v] # NoVersion /\ ver'[r][v].prev_id = ver[r][v].prev_id
      /\ ver'[r][v].created_by = ver[r][v].created_by /\ ver'[r][v].val = ver[r][v].val
      /\ ver'[r][v].start_ts = c /\ ver'[r][v].end_ts = ver[r][v].end_ts
  BY <1>1, <1>3, <1>4, ValuesAssumption DEF VersionRecord
<1> QED BY <1>2, <1>5 DEF Exists, OnlyVersion

\* The first Put of a commit on a row: the version below the head gets its end.
LEMMA CloseLife ==
    ASSUME TypeOK, ProtocolInv, LifetimeInv, NEW r \in Rows, NEW v \in VersionIds,
           Provisional(r, v), NEW p \in VersionIds, p = ver[r][v].prev_id,
           NEW c, c = meta[ver[r][v].created_by].commit_ts,
           meta[ver[r][v].created_by].state = "Committing",
           OnlyVersion(r, p), ver'[r][p].start_ts = ver[r][p].start_ts, ver'[r][p].end_ts = c,
           UNCHANGED <<head, meta>>,
           ~At({"putVersion", "setHead"})', op'.pc # "intent"
    PROVE  LifetimeInv'
<1>1. p # 0
  BY Ids, SMT
<1>2. /\ head[r] = v /\ p < v /\ NewestIs(r, p) /\ c \in Nat /\ Stamped(r, p) /\ v # 0
  <2>1. /\ head[r] = v /\ p < v /\ NewestIs(r, p) /\ c \in Nat /\ Stamped(r, p)
    BY <1>1, AboutToStamp
  <2> QED BY <2>1, Ids, SMT
<1>3. Exists(r, p)
  BY <1>2 DEF Stamped
<1>4. /\ \A s \in Rows, w \in VersionIds :
            /\ s # r \/ w # p => ver'[s][w] = ver[s][w]
            /\ Exists(s, w)' <=> Exists(s, w)
            /\ Exists(s, w) => /\ ver'[s][w].prev_id = ver[s][w].prev_id
                               /\ ver'[s][w].created_by = ver[s][w].created_by
      /\ ver'[r][p].start_ts = ver[r][p].start_ts /\ ver'[r][p].end_ts = c
  BY DEF OnlyVersion
<1>5. \A s \in Rows, w \in VersionIds : /\ Exists(s, w) => ver'[s][w].start_ts = ver[s][w].start_ts
                                        /\ Stamped(s, w)' <=> Stamped(s, w)
                                        /\ Provisional(s, w)' <=> Provisional(s, w)
  <2>1. \A s \in Rows, w \in VersionIds : Exists(s, w) => ver'[s][w].start_ts = ver[s][w].start_ts
    BY <1>4
  <2> QED BY <1>4, <2>1, ZenonT(30) DEF Stamped, Provisional
<1>6. HeadInv /\ ChainInv /\ ToStampInv /\ OpenEnded /\ LifetimesDisjoint
  BY DEF ProtocolInv, LifetimeInv
<1>7. ChainInv'
  <2> SUFFICES ASSUME NEW s \in Rows PROVE RowChain(s)'
    BY ChainNext, ZenonT(30)
  <2>1. CASE s # r
    BY <1>4, <1>6, <2>1, RowFrame, ZenonT(30)
  <2>2. CASE s = r
    <3>1. Provisional(r, v)' /\ ~Stamped(r, v)' /\ ver'[r][v] = ver[r][v] /\ head'[r] = v
      BY <1>2, <1>4, <1>5 DEF Stamped, Provisional
    <3>2. NewestIs(r, p)'
      BY <1>2, <1>5, ZenonT(30) DEF NewestIs
    <3>3. ~Stamped(r, head[r])' /\ Provisional(r, head[r])' /\ NewestIs(r, ver[r][head[r]].prev_id)'
      BY <3>1, <3>2, ZenonT(30) DEF Stamped, Provisional, Exists, NewestIs
    <3>4. /\ meta' = meta /\ head'[r] # 0 /\ ver'[r][head'[r]] = ver[r][v]
          /\ ver[r][v].prev_id = p /\ ver'[r][p].end_ts = meta[ver[r][v].created_by].commit_ts
          /\ meta[ver[r][v].created_by].state = "Committing"
      BY <1>2, <1>4, <3>1
    <3>5. p < head'[r]
      BY <1>2, <3>1
    <3> QED BY <2>2, <3>3, <3>4, <3>5 DEF RowChain
  <2> QED BY <2>1, <2>2
<1>8. ToStampInv'
  <2> SUFFICES ASSUME NEW t \in TxnIds, meta'[t].state = "Committing",
                      NEW s \in Rows, NEW w \in VersionIds,
                      Provisional(s, w)', ver'[s][w].created_by = t
               PROVE  /\ head'[s] = w
                      /\ ver'[s][w].prev_id # 0 =>
                            ver'[s][ver'[s][w].prev_id].start_ts < meta'[t].commit_ts
    BY ZenonT(30) DEF ToStampInv
  <2>1. Provisional(s, w) /\ Exists(s, w) /\ ver[s][w].created_by = t
    BY <1>4, <1>5, ZenonT(30) DEF Provisional
  <2>2. ver'[s][w].prev_id = ver[s][w].prev_id
    BY <1>4, <2>1, SMTT(30)
  <2>3. ver[s][w].prev_id # 0 =>
           ver'[s][ver[s][w].prev_id].start_ts = ver[s][ver[s][w].prev_id].start_ts
    BY <1>5, <1>6, <2>1, ChainTypes DEF HeadInv
  <2>4. head' = head /\ meta' = meta
    OBVIOUS
  <2>5. /\ head[s] = w
        /\ ver[s][w].prev_id # 0 => ver[s][ver[s][w].prev_id].start_ts < meta[t].commit_ts
    BY <1>6, <2>1, <2>4 DEF ToStampInv
  <2> QED BY <2>2, <2>3, <2>4, <2>5
<1>9. OpenEnded'
  <2> SUFFICES ASSUME NEW s \in Rows, NEW w \in VersionIds, Provisional(s, w)'
               PROVE  ver'[s][w].end_ts = 0
    BY DEF OpenEnded
  <2>1. Provisional(s, w) /\ ~(s = r /\ w = p)
    BY <1>2, <1>5 DEF Provisional, Stamped
  <2>2. ver'[s][w] = ver[s][w]
    BY <1>4, <2>1, ZenonT(30)
  <2> QED BY <1>6, <2>1, <2>2 DEF OpenEnded
<1>10. LifetimesDisjoint'
  <2> SUFFICES ASSUME NEW s \in Rows, NEW v1 \in VersionIds, NEW v2 \in VersionIds, v1 < v2,
                      Stamped(s, v1)', Stamped(s, v2)'
               PROVE  /\ ver'[s][v1].start_ts < ver'[s][v2].start_ts
                      /\ ver'[s][v1].end_ts # 0
                      /\ ver'[s][v1].end_ts <= ver'[s][v2].start_ts
    BY DEF LifetimesDisjoint, is_provisional, Stamped, Exists
  <2>1. Stamped(s, v1) /\ Stamped(s, v2) /\ Exists(s, v1) /\ Exists(s, v2)
    BY <1>5 DEF Stamped
  <2>2. ~(s = r /\ v1 = p)
    BY <1>2, <2>1, Ids, SMTT(30) DEF NewestIs
  <2>3. ver'[s][v1] = ver[s][v1] /\ ver'[s][v2].start_ts = ver[s][v2].start_ts
    BY <1>4, <1>5, <2>1, <2>2
  <2> QED BY <1>6, <2>1, <2>3, SMTT(30) DEF LifetimesDisjoint, is_provisional, Stamped, Exists
<1>11. InstallInv'
  BY SMT DEF InstallInv
<1> QED BY <1>7, <1>8, <1>9, <1>10, <1>11 DEF LifetimeInv

\* The second: the head is stamped, at the moment its predecessor ends.
LEMMA StampLife ==
    ASSUME TypeOK, ProtocolInv, LifetimeInv, NEW r \in Rows, NEW v \in VersionIds,
           Provisional(r, v), NEW p, p = ver[r][v].prev_id,
           NEW c, c = meta[ver[r][v].created_by].commit_ts, c >= 1,
           meta[ver[r][v].created_by].state = "Committing",
           p # 0 => ver[r][p].end_ts # 0,
           OnlyVersion(r, v), ver'[r][v].start_ts = c, ver'[r][v].end_ts = ver[r][v].end_ts,
           UNCHANGED <<head, meta>>,
           ~At({"putVersion", "setHead"})', op'.pc # "intent"
    PROVE  LifetimeInv'
<1>1. /\ head[r] = v /\ p < v /\ NewestIs(r, p) /\ p \in 0 .. MaxVersion /\ c \in Nat /\ v # 0
      /\ p # 0 => /\ p \in VersionIds /\ Stamped(r, p) /\ ver[r][p].start_ts < c
                  /\ ver[r][p].end_ts = c
      /\ \A w \in VersionIds : Provisional(r, w) /\ w # v =>
            meta[ver[r][w].created_by].state # "Committing"
  <2>1. /\ head[r] = v /\ p < v /\ NewestIs(r, p) /\ p \in 0 .. MaxVersion /\ c \in Nat
        /\ p # 0 => /\ p \in VersionIds /\ Stamped(r, p) /\ ver[r][p].start_ts < c
                    /\ ver[r][p].end_ts \in {0, c}
        /\ \A w \in VersionIds : Provisional(r, w) /\ w # v =>
              meta[ver[r][w].created_by].state # "Committing"
    BY AboutToStamp, ZenonT(30)
  <2> QED BY <2>1, Ids, SMT
<1>2. Exists(r, v) /\ ver[r][v].start_ts = 0
  BY DEF Provisional
<1>3. /\ \A s \in Rows, w \in VersionIds :
            /\ s # r \/ w # v => ver'[s][w] = ver[s][w]
            /\ Exists(s, w)' <=> Exists(s, w)
            /\ Exists(s, w) => /\ ver'[s][w].prev_id = ver[s][w].prev_id
                               /\ ver'[s][w].created_by = ver[s][w].created_by
      /\ ver'[r][v].start_ts = c /\ ver'[r][v].end_ts = ver[r][v].end_ts
  BY DEF OnlyVersion
<1>4. c # 0
  BY <1>1, SMT
<1>5. \A s \in Rows, w \in VersionIds :
         /\ Stamped(s, w)' <=> Stamped(s, w) \/ (s = r /\ w = v)
         /\ Provisional(s, w)' <=> Provisional(s, w) /\ ~(s = r /\ w = v)
  BY <1>2, <1>3, <1>4 DEF Stamped, Provisional
<1>6. HeadInv /\ ChainInv /\ ToStampInv /\ OpenEnded /\ LifetimesDisjoint
  BY DEF ProtocolInv, LifetimeInv
<1>7. ver[r][v].end_ts = 0
  BY <1>6 DEF OpenEnded
<1>8. ChainInv'
  <2> SUFFICES ASSUME NEW s \in Rows PROVE RowChain(s)'
    BY ChainNext
  <2>1. CASE s # r
    BY <1>3, <1>6, <2>1, RowFrame
  <2>2. CASE s = r
    <3>1. Stamped(r, v)' /\ head'[r] = v
      BY <1>1, <1>5
    <3>2. \A u \in VersionIds : Stamped(r, u)' => u <= v
      <4> SUFFICES ASSUME NEW u \in VersionIds, Stamped(r, u)' PROVE u <= v
        OBVIOUS
      <4>1. u = v \/ u <= p
        BY <1>1, <1>5 DEF NewestIs
      <4> QED BY <1>1, <4>1, Below
    <3>3. Stamped(r, head[r])' /\ NewestIs(r, head[r])'
      BY <3>1, <3>2 DEF NewestIs, Stamped, Exists
    <3> QED BY <1>3, <1>7, <2>2, <3>1, <3>3, ZenonT(30) DEF RowChain
  <2> QED BY <2>1, <2>2
<1>9. ToStampInv'
  <2> SUFFICES ASSUME NEW t \in TxnIds, meta'[t].state = "Committing",
                      NEW s \in Rows, NEW w \in VersionIds,
                      Provisional(s, w)', ver'[s][w].created_by = t
               PROVE  /\ head'[s] = w
                      /\ ver'[s][w].prev_id # 0 =>
                            ver'[s][ver'[s][w].prev_id].start_ts < meta'[t].commit_ts
    BY ZenonT(30) DEF ToStampInv
  <2>4. head' = head /\ meta' = meta
    OBVIOUS
  <2>1. Provisional(s, w) /\ Exists(s, w) /\ ver[s][w].created_by = t /\ s # r
    <3>1. Provisional(s, w) /\ ~(s = r /\ w = v)
      BY <1>5
    <3>2. Exists(s, w) /\ ver[s][w].created_by = t
      BY <1>3, <3>1 DEF Provisional
    <3> QED BY <1>1, <2>4, <3>1, <3>2
  <2>2. ver'[s][w] = ver[s][w]
    BY <1>3, <2>1
  <2>3. ver[s][w].prev_id # 0 => ver'[s][ver[s][w].prev_id] = ver[s][ver[s][w].prev_id]
    BY <1>3, <2>1, ChainTypes
  <2>5. /\ head[s] = w
        /\ ver[s][w].prev_id # 0 => ver[s][ver[s][w].prev_id].start_ts < meta[t].commit_ts
    BY <1>6, <2>1, <2>4 DEF ToStampInv
  <2> QED BY <2>2, <2>3, <2>4, <2>5
<1>10. OpenEnded'
  <2> SUFFICES ASSUME NEW s \in Rows, NEW w \in VersionIds, Provisional(s, w)'
               PROVE  ver'[s][w].end_ts = 0
    BY DEF OpenEnded
  <2>1. Provisional(s, w) /\ ver'[s][w] = ver[s][w]
    BY <1>3, <1>5
  <2> QED BY <1>6, <2>1 DEF OpenEnded
<1>11. LifetimesDisjoint'
  <2> SUFFICES ASSUME NEW s \in Rows, NEW v1 \in VersionIds, NEW v2 \in VersionIds, v1 < v2,
                      Stamped(s, v1)', Stamped(s, v2)'
               PROVE  /\ ver'[s][v1].start_ts < ver'[s][v2].start_ts
                      /\ ver'[s][v1].end_ts # 0
                      /\ ver'[s][v1].end_ts <= ver'[s][v2].start_ts
    BY DEF LifetimesDisjoint, is_provisional, Stamped, Exists
  <2>1. \A x, y \in VersionIds : x < y /\ Stamped(s, x) /\ Stamped(s, y) =>
           /\ ver[s][x].start_ts < ver[s][y].start_ts /\ ver[s][x].end_ts # 0
           /\ ver[s][x].end_ts <= ver[s][y].start_ts
    BY <1>6 DEF LifetimesDisjoint, is_provisional, Stamped, Exists
  <2>2. CASE s # r \/ (v1 # v /\ v2 # v)
    <3>1. /\ Stamped(s, v1) /\ Stamped(s, v2)
          /\ ver'[s][v1] = ver[s][v1] /\ ver'[s][v2] = ver[s][v2]
      BY <1>3, <1>5, <2>2
    <3> QED BY <2>1, <3>1
  <2>3. CASE s = r /\ v2 = v
    <3>1. v1 # v /\ Stamped(r, v1) /\ ver'[r][v1] = ver[r][v1] /\ v1 <= p /\ p # 0
      <4>1. v1 # v
        BY <2>3, Irreflexive
      <4>2. Stamped(r, v1) /\ ver'[r][v1] = ver[r][v1]
        BY <1>3, <1>5, <2>3, <4>1
      <4>3. v1 <= p
        BY <1>1, <4>2 DEF NewestIs
      <4> QED BY <4>1, <4>2, <4>3, AtMost, <1>1
    <3>2. /\ ver[r][v1].start_ts \in Nat /\ ver[r][v1].end_ts \in Nat
          /\ ver[r][p].start_ts \in Nat
      BY <1>1, <3>1, ChainTypes, ZenonT(30) DEF Stamped
    <3>3. CASE v1 = p
      <4>1. /\ ver'[s][v1].start_ts < c /\ ver'[s][v1].end_ts = c /\ ver'[s][v2].start_ts = c
        BY <1>1, <1>3, <2>3, <3>1, <3>3, ZenonT(30)
      <4>2. c <= c
        BY <1>1, Reflexive
      <4> QED BY <1>4, <4>1, <4>2
    <3>4. CASE v1 # p
      <4>1. v1 < p
        BY <1>1, <3>1, <3>4, AtMost
      <4>2. /\ ver[r][v1].start_ts < ver[r][p].start_ts /\ ver[r][v1].end_ts # 0
            /\ ver[r][v1].end_ts <= ver[r][p].start_ts
        BY <1>1, <2>1, <2>3, <3>1, <4>1
      <4>3. /\ ver'[s][v1].start_ts = ver[r][v1].start_ts /\ ver'[s][v2].start_ts = c
            /\ ver'[s][v1].end_ts = ver[r][v1].end_ts
        BY <1>3, <2>3, <3>1
      <4>4. ver[r][p].start_ts < c
        BY <1>1, <3>1
      <4>5. ver[r][v1].start_ts < c /\ ver[r][v1].end_ts <= c
        <5>1. c \in Nat
          BY <1>1
        <5> QED BY <3>2, <4>2, <4>4, <5>1, Chained
      <4> QED BY <4>2, <4>3, <4>5
    <3> QED BY <3>3, <3>4
  <2>4. CASE s = r /\ v1 = v
    <3>1. v2 # v
      BY <2>4, Irreflexive
    <3>2. Stamped(r, v2)
      BY <1>5, <2>4, <3>1
    <3>3. v2 <= p
      BY <1>1, <3>2 DEF NewestIs
    <3> QED BY <1>1, <2>4, <3>3, NotAbove
  <2> QED BY <2>2, <2>3, <2>4
<1>12. InstallInv'
  BY DEF InstallInv
<1> QED BY <1>8, <1>9, <1>10, <1>11, <1>12 DEF LifetimeInv

\* One Put of ApplyCommitWrites for version v of row r, above p: it closes p, or
\* stamps v.
Closes(r, v, p) ==
    /\ p \in VersionIds /\ Stamped(r, p) /\ ver[r][p].end_ts = 0 /\ OnlyVersion(r, p)
    /\ ver'[r][p].start_ts = ver[r][p].start_ts /\ ver'[r][p].end_ts = op.cts

Stamps(r, v, p) ==
    /\ p # 0 => Stamped(r, p) /\ ver[r][p].end_ts # 0
    /\ OnlyVersion(r, v)
    /\ ver'[r][v].start_ts = op.cts /\ ver'[r][v].end_ts = ver[r][v].end_ts

Applies(r, v, p) ==
    /\ r \in Rows /\ v \in VersionIds /\ p = ver[r][v].prev_id
    /\ Provisional(r, v) /\ ver[r][v].created_by = op.t
    /\ op.cts = meta[ver[r][v].created_by].commit_ts /\ op.cts >= 1
    /\ meta[ver[r][v].created_by].state = "Committing"
    /\ Closes(r, v, p) \/ Stamps(r, v, p)

\* What one step of ApplyCommitWrites does: it passes over a stamped version, or
\* puts one.
LEMMA ApplyShape ==
    ASSUME TypeOK, ProtocolInv, LifetimeInv, ApplyCommitWrites
    PROVE  /\ op'.pc = "apply" /\ op'.by = op.by /\ op'.cts = op.cts /\ op'.t = op.t
           /\ ver' = ver \/ \E r, v, p : Applies(r, v, p)
<1>1. op.pc = "apply" /\ op.i <= Len(op.w)
  BY DEF ApplyCommitWrites
<1>2. PICK r \in Rows, v \in VersionIds :
         /\ r = op.w[op.i].row /\ v = op.w[op.i].vid /\ Exists(r, v)
         /\ ver[r][v].created_by = op.t /\ ver[r][v].start_ts \in {0, op.cts}
         /\ op \in OpType /\ op.cts >= 1
  BY <1>1, ApplyFacts
<1>3. meta[op.t].state = "Committing" /\ op.cts = meta[op.t].commit_ts
  BY <1>1 DEF ProtocolInv, CommitInv
<1> DEFINE p == ver[r][v].prev_id
<1>4. \/ op' = [op EXCEPT !.i = @ + 1] /\ UNCHANGED ver
      \/ /\ ver[r][v].start_ts # op.cts
         /\ p # 0 /\ ver[r][p].end_ts = 0
         /\ ver' = [ver EXCEPT ![r][p].end_ts = op.cts] /\ UNCHANGED op
      \/ /\ ver[r][v].start_ts # op.cts
         /\ \/ p = 0 \/ ver[r][p] = NoVersion
            \/ is_provisional(ver[r][p]) \/ ver[r][p].end_ts # 0
         /\ ver' = [ver EXCEPT ![r][v].start_ts = op.cts]
         /\ op' = [op EXCEPT !.i = @ + 1]
  BY <1>2, ZenonT(30) DEF ApplyCommitWrites, Exists
<1> HIDE DEF p
<1>5. op'.pc = "apply" /\ op'.by = op.by /\ op'.cts = op.cts /\ op'.t = op.t
  <2>1. op' = op \/ op' = [op EXCEPT !.i = @ + 1]
    BY <1>4
  <2> QED BY <1>1, <1>2, <2>1 DEF OpType
<1>6. p = ver[r][v].prev_id
  BY DEF p
<1>7. op.cts = meta[ver[r][v].created_by].commit_ts /\ meta[ver[r][v].created_by].state = "Committing"
  BY <1>2, <1>3
<1>8. ASSUME ver[r][v].start_ts # op.cts
      PROVE  /\ Provisional(r, v) /\ op.cts \in Nat
             /\ p # 0 => p \in VersionIds /\ Stamped(r, p) /\ Exists(r, p)
  <2>1. Provisional(r, v)
    BY <1>2, <1>8, ZenonT(30) DEF Provisional
  <2>2. /\ op.cts \in Nat
        /\ p # 0 => p \in VersionIds /\ Stamped(r, p)
    BY <1>6, <1>7, <2>1, AboutToStamp, SMT
  <2> QED BY <2>1, <2>2 DEF Stamped
<1>9. CASE /\ ver[r][v].start_ts # op.cts /\ p # 0 /\ ver[r][p].end_ts = 0
           /\ ver' = [ver EXCEPT ![r][p].end_ts = op.cts]
  <2>1. OnlyVersion(r, p) /\ ver'[r][p].start_ts = ver[r][p].start_ts /\ ver'[r][p].end_ts = op.cts
    BY <1>8, <1>9, EndField, ZenonT(30)
  <2>2. Closes(r, v, p)
    BY <1>8, <1>9, <2>1 DEF Closes
  <2>3. Applies(r, v, p)
    BY <1>2, <1>6, <1>7, <1>8, <1>9, <2>2 DEF Applies
  <2> QED BY <1>5, <2>3
<1>10. CASE /\ ver[r][v].start_ts # op.cts
            /\ \/ p = 0 \/ ver[r][p] = NoVersion
               \/ is_provisional(ver[r][p]) \/ ver[r][p].end_ts # 0
            /\ ver' = [ver EXCEPT ![r][v].start_ts = op.cts]
  <2>1. OnlyVersion(r, v) /\ ver'[r][v].start_ts = op.cts /\ ver'[r][v].end_ts = ver[r][v].end_ts
    BY <1>2, <1>8, <1>10, StartField
  <2>2. p # 0 => ver[r][p].end_ts # 0
    BY <1>8, <1>10 DEF Stamped, Exists, is_provisional
  <2>3. Stamps(r, v, p)
    BY <1>8, <1>10, <2>1, <2>2 DEF Stamps
  <2>4. Applies(r, v, p)
    BY <1>2, <1>6, <1>7, <1>8, <1>10, <2>3 DEF Applies
  <2> QED BY <1>5, <2>4
<1> QED BY <1>4, <1>5, <1>9, <1>10

\* Stamping the versions of a commit, one Put at a time (ApplyCommitWrites).
LEMMA ApplyCommitWritesLife ==
    ASSUME TypeOK, ProtocolInv, LifetimeInv, ApplyCommitWrites
    PROVE  LifetimeInv'
<1>1. UNCHANGED <<head, meta>>
  BY DEF ApplyCommitWrites
<1>2. /\ op'.pc = "apply"
      /\ ver' = ver \/ \E r, v, p : Applies(r, v, p)
  BY ApplyShape
<1>3. ~At({"putVersion", "setHead"})' /\ op'.pc # "intent"
  BY <1>2, Starts
<1>4. CASE ver' = ver
  BY <1>1, <1>3, <1>4, DurableFrame
<1>5. CASE \E r, v, p : Applies(r, v, p)
  <2>1. PICK r, v, p : Applies(r, v, p)
    BY <1>5
  <2>2. CASE Closes(r, v, p)
    BY <1>1, <1>3, <2>1, <2>2, CloseLife DEF Applies, Closes
  <2>3. CASE Stamps(r, v, p)
    BY <1>1, <1>3, <2>1, <2>3, StampLife DEF Applies, Stamps
  <2> QED BY <2>1, <2>2, <2>3 DEF Applies
<1> QED BY <1>2, <1>4, <1>5

-----------------------------------------------------------------------------
\* AbortTransaction and RecoverTxns put the head back.

\* Putting a head back to its predecessor makes the newest committed version the
\* head again.
LEMMA RestoreHeadsLife ==
    ASSUME TypeOK, ProtocolInv, LifetimeInv, RestoreHeads
    PROVE  LifetimeInv'
<1>1. /\ op.pc = "restore" /\ op.i > 0 /\ op \in OpType
      /\ op' = [op EXCEPT !.i = @ - 1] /\ UNCHANGED <<ver, meta>>
      /\ head' = IF head[op.w[op.i].row] # op.w[op.i].vid THEN head
                 ELSE [head EXCEPT ![op.w[op.i].row] =
                          ver[op.w[op.i].row][op.w[op.i].vid].prev_id]
  BY DEF RestoreHeads, TypeOK
<1>2. op.w \in Seq(TxnWrite) /\ op.i \in 1 .. Len(op.w)
  BY <1>1, SMT DEF OpType, ProtocolInv, RestoreInv
<1>3. PICK r \in Rows, v \in VersionIds :
         /\ r = op.w[op.i].row /\ v = op.w[op.i].vid /\ Exists(r, v)
         /\ ver[r][v].created_by = op.t /\ meta[op.t].state = "Open"
  BY <1>1, <1>2, Entry DEF ProtocolInv, RestoreInv
<1>4. head' = head \/ (head[r] = v /\ head' = [head EXCEPT ![r] = ver[r][v].prev_id])
  BY <1>1, <1>3
<1>5. ~At({"putVersion", "setHead"})' /\ op'.pc # "intent"
  <2>1. op'.pc = "restore"
    BY <1>1, SMTT(30) DEF OpType
  <2> QED BY <2>1, Starts
<1>6. CASE head' = head
  BY <1>1, <1>5, <1>6, DurableFrame
<1>7. CASE head[r] = v /\ head' = [head EXCEPT ![r] = ver[r][v].prev_id]
  <2>1. ChainInv /\ ToStampInv /\ OpenEnded /\ LifetimesDisjoint /\ VersionInv
    BY SMTT(30) DEF ProtocolInv, LifetimeInv
  <2>2. ver[r][v].start_ts = 0
    BY <1>3, <2>1, ZenonT(30) DEF VersionInv
  <2>3. Provisional(r, v) /\ ~Stamped(r, v) /\ v # 0
    BY <1>3, <2>2, Ids, SMTT(30) DEF Provisional, Stamped
  <2>4. PICK p \in 0 .. MaxVersion : p = ver[r][v].prev_id
    BY <1>3, ChainTypes, ZenonT(30)
  <2>5. NewestIs(r, p) /\ (p # 0 => ver[r][p].end_ts = 0)
    BY <1>3, <1>7, <2>1, <2>3, <2>4, Chain, ZenonT(30) DEF RowChain
  <2>6. head'[r] = p /\ \A s \in Rows : s # r => head'[s] = head[s]
    BY <1>7, <2>4 DEF TypeOK
  <2>7. ChainInv'
    <3> SUFFICES ASSUME NEW s \in Rows PROVE RowChain(s)'
      BY ChainNext, SMTT(30)
    <3>1. CASE s # r
      BY <1>1, <2>1, <2>6, <3>1, RowFrame, ZenonT(30)
    <3>2. CASE s = r
      <4>1. NewestIs(r, p)' /\ (p # 0 => ver'[r][p].end_ts = 0 /\ Stamped(r, p)')
        BY <1>1, <2>5 DEF NewestIs, Stamped, Exists
      <4>2. NewestIs(r, head[r])' /\ (p # 0 => Stamped(r, head[r])')
        BY <2>6, <4>1 DEF NewestIs, Stamped, Exists
      <4> QED BY <2>6, <3>2, <4>1, <4>2 DEF RowChain
    <3> QED BY <3>1, <3>2
  <2>8. ToStampInv'
    <3> SUFFICES ASSUME NEW t \in TxnIds, meta[t].state = "Committing",
                        NEW s \in Rows, NEW w \in VersionIds,
                        Provisional(s, w), ver[s][w].created_by = t
                 PROVE  /\ head'[s] = w
                        /\ ver[s][w].prev_id # 0 =>
                              ver[s][ver[s][w].prev_id].start_ts < meta[t].commit_ts
      <4>1. ver' = ver /\ meta' = meta
        BY <1>1
      <4> QED BY <1>5, <4>1, ZenonT(30) DEF ToStampInv, Provisional, Exists
    <3>1. /\ head[s] = w
          /\ ver[s][w].prev_id # 0 =>
                ver[s][ver[s][w].prev_id].start_ts < meta[t].commit_ts
      BY <2>1, ZenonT(30) DEF ToStampInv
    <3>2. s # r
      BY <1>3, <1>7, <3>1, ZenonT(30)
    <3> QED BY <2>6, <3>1, <3>2
  <2>9. SameVersions
    BY <1>1 DEF SameVersions
  <2> QED BY <1>5, <2>1, <2>7, <2>8, <2>9, EndsFrame DEF LifetimeInv, InstallInv
<1> QED BY <1>4, <1>6, <1>7, SMTT(30)

-----------------------------------------------------------------------------
\* An empty database has no chains.
LEMMA InitLife == Init => LifetimeInv
<1> SUFFICES ASSUME Init PROVE LifetimeInv
  OBVIOUS
<1>1. \A r \in Rows, v \in VersionIds : ~Exists(r, v)
  BY DEF Init, Exists
<1>2. op.pc = "idle"
  BY IdleFields DEF Init
<1>3. ChainInv
  BY <1>1, ZenonT(30) DEF Init, ChainInv, NewestIs, Stamped
<1>4. InstallInv /\ ToStampInv
  BY <1>1, <1>2 DEF InstallInv, ToStampInv, At, Provisional
<1>5. OpenEnded /\ LifetimesDisjoint
  BY <1>1 DEF OpenEnded, LifetimesDisjoint, Provisional, Exists
<1> QED BY <1>3, <1>4, <1>5 DEF LifetimeInv

\* A step that changes nothing.
LEMMA StutterLife ==
    ASSUME TypeOK, ProtocolInv, LifetimeInv, UNCHANGED vars
    PROVE  LifetimeInv'
<1>1. UNCHANGED <<ver, head, meta, op>> /\ NewVid' = NewVid
  BY DEF vars, NewVid
<1>2. InstallInv' /\ ChainInv'
  BY <1>1 DEF LifetimeInv, InstallInv, ChainInv, NewestIs, Stamped, Provisional, Exists, At
<1>3. ToStampInv' /\ OpenEnded' /\ LifetimesDisjoint'
  <2>1. SameVersions
    BY <1>1 DEF SameVersions
  <2>2. ver' = ver /\ head' = head /\ meta' = meta /\ op' = op
    BY <1>1
  <2>3. ToStampInv'
    BY <2>2 DEF LifetimeInv, ToStampInv, Provisional, Exists
  <2> QED BY <2>1, <2>3, EndsFrame DEF LifetimeInv
<1> QED BY <1>2, <1>3 DEF LifetimeInv

\* Every step keeps the version chains in order.
LEMMA StepLife ==
    ASSUME MaxFaults = 0, TypeOK, ProtocolInv, LifetimeInv, [Next]_vars
    PROVE  LifetimeInv'
<1>1. ASSUME NEW t \in TxnIds, NEW r \in Rows, NEW kind, NEW val \in Vals, Write(t, r, kind, val)
      PROVE  LifetimeInv'
  <2>1. op = Idle /\ txn[t].st = "open"
    BY <1>1 DEF Write
  <2>2. CASE RewriteOwn(t, r, kind, val)
    BY <2>1, <2>2, RewriteOwnLife
  <2>3. CASE WriteNew(t, r, kind, val)
    BY <2>1, <2>3, WriteNewLife
  <2> QED BY <1>1, <2>2, <2>3 DEF Write
<1>2. CASE Call
  <2>1. NoRow \in Vals /\ Payloads \subseteq Vals
    BY DEF Vals
  <2>2. CASE Begin \/ \E t \in TxnIds : Abort(t)
    BY <2>2, ControlLife
  <2>3. CASE \E t \in TxnIds : Commit(t)
    BY <2>3, CommitLife
  <2>4. CASE \E t \in TxnIds, r \in Rows : Delete(t, r)
    BY <1>1, <2>1, <2>4 DEF Delete
  <2>5. CASE \E t \in TxnIds, r \in Rows, p \in Payloads : Insert(t, r, p) \/ Update(t, r, p)
    BY <1>1, <2>1, <2>5 DEF Insert, Update
  <2> QED BY <1>2, <2>2, <2>3, <2>4, <2>5 DEF Call
<1>3. CASE HandlerStep
  <2>1. ProtocolInv'
    BY StepInv
  <2> QED BY <1>3, <2>1, PersistOraclesLife, BeginMetaLife, PutVersionValueLife, SetHeadLife,
             WriteMetaLife, PutIntentLife, ApplyCommitWritesLife, PutCommittedLife, ControlLife,
             RestoreHeadsLife, PutAbortedLife DEF HandlerStep
<1>4. CASE Open \/ Crash
  BY <1>4, ControlLife
<1>5. ~KvError
  BY SMT DEF KvError, TypeOK
<1>6. CASE UNCHANGED vars
  BY <1>6, StutterLife
<1> QED BY <1>2, <1>3, <1>4, <1>5, <1>6 DEF Next

\* Version chains (PutVersion, SetHead, ApplyCommitWrites, RestoreHeads,
\* RecoverTxns): the newest committed version of a row is its head or right below
\* a provisional head, and a version waiting for its stamp is above everything
\* committed before it, across any crashes.
THEOREM LifetimeInvariant ==
    ASSUME MaxFaults = 0
    PROVE  Spec => []LifetimeInv
<1> DEFINE I == TypeOK /\ ProtocolInv /\ LifetimeInv
<1>1. Init => I
  BY InitInv, InitLife
<1>2. I /\ [Next]_vars => I'
  BY StepInv, StepLife
<1>3. I => LifetimeInv
  OBVIOUS
<1> HIDE DEF I
<1> QED BY <1>1, <1>2, <1>3, PTL DEF Spec

\* Lifetimes of committed versions of a row (ApplyCommitWrites): a later version
\* starts later, and not before the earlier one has ended, also in the middle of
\* a commit and after a crash there.
THEOREM LifetimesNeverOverlap ==
    ASSUME MaxFaults = 0
    PROVE  Spec => []LifetimesDisjoint
<1>1. LifetimeInv => LifetimesDisjoint
  BY DEF LifetimeInv
<1> QED BY <1>1, LifetimeInvariant, PTL

-----------------------------------------------------------------------------
\* Begin and the last commit, whatever engine errors do, until the process crashes.

IsOp(o) == DOMAIN o = DOMAIN Idle

\* A handler that a client called; a commit has taken its timestamp.
ClientOp(o, ts) ==
    /\ IsOp(o) /\ o.by = "client" /\ o.pc \notin {"down", "recover"}
    /\ o.ret \in {"none", "beginMeta", "putVersion", "committed"}
    /\ o.pc \in {"intent", "apply"} => o.cts \in Nat /\ o.cts < ts

\* Every commit timestamp is behind next_ts_.
MetaBehind(ts) ==
    /\ meta = [u \in TxnIds |-> meta[u]]
    /\ \A u \in TxnIds : meta[u].state = "Committed" =>
           meta[u].commit_ts \in Nat /\ meta[u].commit_ts < ts

TxnShapes ==
    /\ txn = [u \in TxnIds |-> txn[u]]
    /\ \A u \in TxnIds :
          txn[u] = [st |-> txn[u].st, start_ts |-> txn[u].start_ts, written |-> txn[u].written]

NextShape == next = [ts |-> next.ts, txn |-> next.txn, vid |-> next.vid] /\ next.ts \in Nat

NeverCrashed ==
    crashes = 0 /\ NextShape /\ ClientOp(op, next.ts) /\ MetaBehind(next.ts) /\ TxnShapes

\* A transaction opens at the last commit, or was open.
OpensAtLastCommit ==
    \A u \in TxnIds : txn'[u].st = "open" /\ txn[u].st # "open" => txn'[u].start_ts = next.ts - 1

\* The handlers that start, and the one at rest.
LEMMA StartedOps ==
    ASSUME NEW ts
    PROVE  /\ ClientOp(Idle, ts)
           /\ \A t : ClientOp(Persist([Idle EXCEPT !.t = t], "beginMeta"), ts)
           /\ \A t : ClientOp(Persist([Idle EXCEPT !.t = t], "committed"), ts)
           /\ \A t, r, val, prev :
                 ClientOp(Persist([Idle EXCEPT !.t = t, !.r = r, !.val = val, !.prev = prev],
                                  "putVersion"), ts)
           /\ \A t, w : ClientOp(Restoring(t, w, "client"), ts)
<1>1. ClientOp(Idle, ts)
  BY DEF ClientOp, IsOp, Idle, Op
<1>2. \A t : ClientOp(Persist([Idle EXCEPT !.t = t], "beginMeta"), ts)
  <2> SUFFICES ASSUME NEW t
               PROVE  ClientOp(Persist([Idle EXCEPT !.t = t], "beginMeta"), ts)
    OBVIOUS
  <2>1. LET o == Persist([Idle EXCEPT !.t = t], "beginMeta") IN o.by = "client" /\ o.pc = "persist" /\ o.ret = "beginMeta"
    BY DEF Idle, Op, Persist
  <2>2. IsOp(Persist([Idle EXCEPT !.t = t], "beginMeta"))
    BY DEF IsOp, Persist
  <2> QED BY <2>1, <2>2 DEF ClientOp
<1>3. \A t : ClientOp(Persist([Idle EXCEPT !.t = t], "committed"), ts)
  <2> SUFFICES ASSUME NEW t
               PROVE  ClientOp(Persist([Idle EXCEPT !.t = t], "committed"), ts)
    OBVIOUS
  <2>1. LET o == Persist([Idle EXCEPT !.t = t], "committed") IN o.by = "client" /\ o.pc = "persist" /\ o.ret = "committed"
    BY DEF Idle, Op, Persist
  <2>2. IsOp(Persist([Idle EXCEPT !.t = t], "committed"))
    BY DEF IsOp, Persist
  <2> QED BY <2>1, <2>2 DEF ClientOp
<1>4. \A t, r, val, prev : ClientOp(Persist([Idle EXCEPT !.t = t, !.r = r, !.val = val, !.prev = prev], "putVersion"), ts)
  <2> SUFFICES ASSUME NEW t, NEW r, NEW val, NEW prev
               PROVE  ClientOp(Persist([Idle EXCEPT !.t = t, !.r = r, !.val = val, !.prev = prev], "putVersion"), ts)
    OBVIOUS
  <2>1. LET o == Persist([Idle EXCEPT !.t = t, !.r = r, !.val = val, !.prev = prev], "putVersion") IN o.by = "client" /\ o.pc = "persist" /\ o.ret = "putVersion"
    BY DEF Idle, Op, Persist
  <2>2. IsOp(Persist([Idle EXCEPT !.t = t, !.r = r, !.val = val, !.prev = prev], "putVersion"))
    BY DEF IsOp, Persist
  <2> QED BY <2>1, <2>2 DEF ClientOp
<1>5. \A t, w : ClientOp(Restoring(t, w, "client"), ts)
  <2> SUFFICES ASSUME NEW t, NEW w
               PROVE  ClientOp(Restoring(t, w, "client"), ts)
    OBVIOUS
  <2>1. LET o == Restoring(t, w, "client") IN o.by = "client" /\ o.pc = "restore" /\ o.ret = "none"
    BY DEF Idle, Op, Restoring
  <2>2. IsOp(Restoring(t, w, "client"))
    BY DEF IsOp, Restoring
  <2> QED BY <2>1, <2>2 DEF ClientOp
<1> QED BY <1>1, <1>2, <1>3, <1>4, <1>5

\* A handler with its timestamp.
LEMMA CommitOps ==
    ASSUME NEW ts, NEW c \in Nat, c < ts
    PROVE  /\ \A t : ClientOp([Idle EXCEPT !.pc = "intent", !.t = t, !.cts = c], ts)
           /\ \A t, w : ClientOp(Applying(t, w, c, "client"), ts)
<1>1. \A t : ClientOp([Idle EXCEPT !.pc = "intent", !.t = t, !.cts = c], ts)
  <2> SUFFICES ASSUME NEW t
               PROVE  ClientOp([Idle EXCEPT !.pc = "intent", !.t = t, !.cts = c], ts)
    OBVIOUS
  <2>1. LET o == [Idle EXCEPT !.pc = "intent", !.t = t, !.cts = c] IN o.by = "client" /\ o.pc = "intent" /\ o.ret = "none" /\ o.cts = c
    BY DEF Idle, Op
  <2>2. IsOp([Idle EXCEPT !.pc = "intent", !.t = t, !.cts = c])
    BY DEF IsOp
  <2> QED BY <2>1, <2>2 DEF ClientOp
<1>2. \A t, w : ClientOp(Applying(t, w, c, "client"), ts)
  <2> SUFFICES ASSUME NEW t, NEW w
               PROVE  ClientOp(Applying(t, w, c, "client"), ts)
    OBVIOUS
  <2>1. LET o == Applying(t, w, c, "client") IN o.by = "client" /\ o.pc = "apply" /\ o.ret = "none" /\ o.cts = c
    BY DEF Idle, Op, Applying
  <2>2. IsOp(Applying(t, w, c, "client"))
    BY DEF IsOp, Applying
  <2> QED BY <2>1, <2>2 DEF ClientOp
<1> QED BY <1>1, <1>2

\* A handler that goes on.
LEMMA OpGoesOn ==
    ASSUME NEW ts, NEW o, ClientOp(o, ts)
    PROVE  /\ \A k : ClientOp([o EXCEPT !.k = k], ts)
           /\ \A i : ClientOp([o EXCEPT !.i = i], ts)
           /\ ClientOp([o EXCEPT !.pc = o.ret, !.k = 0, !.ret = "none"], ts)
           /\ ClientOp([o EXCEPT !.pc = "setHead"], ts)
           /\ ClientOp([o EXCEPT !.pc = "writeMeta"], ts)
<1>1. \A k : ClientOp([o EXCEPT !.k = k], ts)
  <2> SUFFICES ASSUME NEW k PROVE ClientOp([o EXCEPT !.k = k], ts)
    OBVIOUS
  <2>1. LET x == [o EXCEPT !.k = k] IN x.by = o.by /\ x.pc = o.pc /\ x.ret = o.ret /\ x.cts = o.cts
    BY DEF ClientOp, IsOp, Idle, Op
  <2>2. IsOp([o EXCEPT !.k = k])
    BY DEF ClientOp, IsOp
  <2> QED BY <2>1, <2>2 DEF ClientOp
<1>2. \A i : ClientOp([o EXCEPT !.i = i], ts)
  <2> SUFFICES ASSUME NEW i PROVE ClientOp([o EXCEPT !.i = i], ts)
    OBVIOUS
  <2>1. LET x == [o EXCEPT !.i = i] IN x.by = o.by /\ x.pc = o.pc /\ x.ret = o.ret /\ x.cts = o.cts
    BY DEF ClientOp, IsOp, Idle, Op
  <2>2. IsOp([o EXCEPT !.i = i])
    BY DEF ClientOp, IsOp
  <2> QED BY <2>1, <2>2 DEF ClientOp
<1>3. ClientOp([o EXCEPT !.pc = o.ret, !.k = 0, !.ret = "none"], ts)
  <2>1. LET x == [o EXCEPT !.pc = o.ret, !.k = 0, !.ret = "none"] IN x.by = o.by /\ x.pc = o.ret /\ x.ret = "none"
    BY DEF ClientOp, IsOp, Idle, Op
  <2>2. IsOp([o EXCEPT !.pc = o.ret, !.k = 0, !.ret = "none"])
    BY DEF ClientOp, IsOp
  <2> QED BY <2>1, <2>2 DEF ClientOp
<1>4. ClientOp([o EXCEPT !.pc = "setHead"], ts)
  <2>1. LET x == [o EXCEPT !.pc = "setHead"] IN x.by = o.by /\ x.pc = "setHead" /\ x.ret = o.ret
    BY DEF ClientOp, IsOp, Idle, Op
  <2>2. IsOp([o EXCEPT !.pc = "setHead"])
    BY DEF ClientOp, IsOp
  <2> QED BY <2>1, <2>2 DEF ClientOp
<1>5. ClientOp([o EXCEPT !.pc = "writeMeta"], ts)
  <2>1. LET x == [o EXCEPT !.pc = "writeMeta"] IN x.by = o.by /\ x.pc = "writeMeta" /\ x.ret = o.ret
    BY DEF ClientOp, IsOp, Idle, Op
  <2>2. IsOp([o EXCEPT !.pc = "writeMeta"])
    BY DEF ClientOp, IsOp
  <2> QED BY <2>1, <2>2 DEF ClientOp
<1> QED BY <1>1, <1>2, <1>3, <1>4, <1>5

\* A handler step that leaves the counters, the transactions and their records alone.
LEMMA QuietStep ==
    ASSUME NeverCrashed, UNCHANGED <<next, txn, meta, crashes>>, ClientOp(op', next.ts)
    PROVE  NeverCrashed' /\ OpensAtLastCommit
BY DEF NeverCrashed, NextShape, MetaBehind, TxnShapes, OpensAtLastCommit

\* A step that counts on, and changes nothing else but the handler.
LEMMA CountStep ==
    ASSUME NeverCrashed, UNCHANGED <<txn, meta, crashes>>, NextShape', next.ts <= next'.ts,
           ClientOp(op', next'.ts)
    PROVE  NeverCrashed' /\ OpensAtLastCommit
<1>1. next.ts \in Nat /\ next'.ts \in Nat
  BY DEF NeverCrashed, NextShape
<1>2. \A m \in Nat : m < next.ts => m < next'.ts
  BY <1>1, SMT
<1>3. MetaBehind(next.ts)'
  BY <1>2 DEF NeverCrashed, MetaBehind
<1> QED BY <1>3 DEF NeverCrashed, TxnShapes, OpensAtLastCommit

\* A Put of a transaction record that is not marked Committed, or is with a
\* timestamp already taken.
LEMMA MetaStep ==
    ASSUME NeverCrashed, UNCHANGED <<next, txn, crashes>>, ClientOp(op', next.ts), NEW x,
           meta' = [meta EXCEPT ![op.t] = x],
           x.state = "Committed" => x.commit_ts \in Nat /\ x.commit_ts < next.ts
    PROVE  NeverCrashed' /\ OpensAtLastCommit
<1>1. MetaBehind(next.ts)'
  BY DEF NeverCrashed, MetaBehind
<1> QED BY <1>1 DEF NeverCrashed, NextShape, TxnShapes, OpensAtLastCommit

\* A change to a Transaction object that does not open one.
LEMMA TxnStep ==
    ASSUME NeverCrashed, UNCHANGED <<next, crashes>>, MetaBehind(next.ts)', ClientOp(op', next.ts),
           NEW x, txn' = [txn EXCEPT ![op.t] = x],
           x = [st |-> x.st, start_ts |-> x.start_ts, written |-> x.written],
           op.t \in TxnIds /\ x.st = "open" => txn[op.t].st = "open" \/ x.start_ts = next.ts - 1
    PROVE  NeverCrashed' /\ OpensAtLastCommit
<1>1. TxnShapes'
  BY DEF NeverCrashed, TxnShapes
<1>2. OpensAtLastCommit
  BY DEF NeverCrashed, TxnShapes, OpensAtLastCommit
<1> QED BY <1>1, <1>2 DEF NeverCrashed, NextShape

\* Client calls.
LEMMA CallForward ==
    ASSUME NeverCrashed, Call
    PROVE  NeverCrashed' /\ OpensAtLastCommit
<1>1. NextShape /\ next.ts \in Nat
  BY DEF NeverCrashed, NextShape
<1>2. CASE Begin
  <2>1. NextShape' /\ next'.ts = next.ts
    BY <1>1, <1>2, SMT DEF Begin, NextShape
  <2>2. next.ts <= next'.ts
    BY <1>1, <2>1, SMT
  <2> QED BY <1>2, <2>1, <2>2, StartedOps, CountStep DEF Begin
<1>3. ASSUME NEW t \in TxnIds, NEW r \in Rows, NEW kind, NEW val, Write(t, r, kind, val)
      PROVE  NeverCrashed' /\ OpensAtLastCommit
  <2>1. CASE RewriteOwn(t, r, kind, val)
    <3>1. UNCHANGED <<next, txn, meta, crashes, op>>
      BY <2>1 DEF RewriteOwn
    <3>2. ClientOp(op', next.ts)
      BY <3>1 DEF NeverCrashed
    <3> QED BY <3>1, <3>2, QuietStep
  <2>2. CASE WriteNew(t, r, kind, val)
    <3>1. NextShape' /\ next'.ts = next.ts
      BY <1>1, <2>2, SMT DEF WriteNew, NextShape
    <3>2. next.ts <= next'.ts
      BY <1>1, <3>1, SMT
    <3>3. UNCHANGED <<txn, meta, crashes>> /\ ClientOp(op', next'.ts)
      BY <2>2, StartedOps DEF WriteNew
    <3> QED BY <3>1, <3>2, <3>3, CountStep
  <2> QED BY <1>3, <2>1, <2>2 DEF Write
<1>4. ASSUME NEW t \in TxnIds, Commit(t) \/ Abort(t) PROVE NeverCrashed' /\ OpensAtLastCommit
  <2>1. CASE Commit(t) /\ CommitCheck(t)
    <3>1. /\ next' = [next EXCEPT !.ts = @ + 1] /\ UNCHANGED <<txn, meta, crashes>>
          /\ op' = [Idle EXCEPT !.pc = "intent", !.t = t, !.cts = next.ts]
      BY <2>1 DEF Commit
    <3>2. NextShape' /\ next.ts <= next'.ts /\ next.ts < next'.ts
      BY <1>1, <3>1, SMT DEF NextShape
    <3>3. ClientOp(op', next'.ts)
      BY <1>1, <3>1, <3>2, CommitOps
    <3> QED BY <3>1, <3>2, <3>3, CountStep
  <2>2. CASE (Commit(t) /\ ~CommitCheck(t)) \/ Abort(t)
    <3>1. UNCHANGED <<next, txn, meta, crashes>> /\ op' = Restoring(t, txn[t].written, "client")
      BY <2>2 DEF Commit, Abort
    <3> QED BY <3>1, StartedOps, QuietStep
  <2> QED BY <1>4, <2>1, <2>2
<1> QED BY <1>2, <1>3, <1>4 DEF Call, Insert, Update, Delete

\* Steps inside mu_, and the errors that end them.
LEMMA HandlerForward ==
    ASSUME NeverCrashed, HandlerStep \/ KvError
    PROVE  NeverCrashed' /\ OpensAtLastCommit
<1>1. /\ ClientOp(op, next.ts) /\ next.ts \in Nat /\ op.by = "client" /\ op.pc # "recover"
      /\ MetaBehind(next.ts) /\ TxnShapes
      /\ op.pc \in {"intent", "apply"} => op.cts \in Nat /\ op.cts < next.ts
  BY DEF NeverCrashed, NextShape, ClientOp
<1>2. ASSUME NEW st, NEW ts, NEW w
      PROVE  LET x == [state |-> st, commit_ts |-> ts, writes |-> w]
             IN  x.state = st /\ x.commit_ts = ts
  OBVIOUS
<1>3. CASE PersistOracles
  <2>1. /\ UNCHANGED <<next, txn, meta, crashes>>
        /\ \/ \E k : op' = [op EXCEPT !.k = k]
           \/ op' = [op EXCEPT !.pc = op.ret, !.k = 0, !.ret = "none"]
    BY <1>3 DEF PersistOracles
  <2>2. ClientOp(op', next.ts)
    <3>1. ASSUME NEW k, op' = [op EXCEPT !.k = k] PROVE ClientOp(op', next.ts)
      BY <1>1, <3>1, OpGoesOn
    <3>2. CASE op' = [op EXCEPT !.pc = op.ret, !.k = 0, !.ret = "none"]
      BY <1>1, <3>2, OpGoesOn
    <3> QED BY <2>1, <3>1, <3>2
  <2> QED BY <2>1, <2>2, QuietStep
<1>4. CASE BeginMeta
  <2>1. [NoMeta EXCEPT !.state = "Open"].state # "Committed"
    BY SMT DEF NoMeta
  <2>2. MetaBehind(next.ts)'
    BY <1>1, <1>4, <2>1 DEF BeginMeta, MetaBehind
  <2>3. PICK x : x = [st |-> "open", start_ts |-> next.ts - 1, written |-> <<>>]
    OBVIOUS
  <2>4. x.start_ts = next.ts - 1 /\ x = [st |-> x.st, start_ts |-> x.start_ts, written |-> x.written]
    BY <2>3, SMT
  <2>5. txn' = [txn EXCEPT ![op.t] = x] /\ ClientOp(op', next.ts) /\ UNCHANGED <<next, crashes>>
    BY <1>4, <2>3, StartedOps DEF BeginMeta, LastCommit
  <2> QED BY <2>2, <2>4, <2>5, TxnStep
<1>5. CASE PutVersionValue
  BY <1>1, <1>5, OpGoesOn, QuietStep DEF PutVersionValue
<1>6. CASE SetHead
  <2>1. PICK y : y = Append(txn[op.t].written, [row |-> op.r, vid |-> NewVid])
    OBVIOUS
  <2>2. PICK x : x = [txn[op.t] EXCEPT !.written = y]
    OBVIOUS
  <2>3. txn' = [txn EXCEPT ![op.t] = x] /\ ClientOp(op', next.ts) /\ UNCHANGED <<next, crashes, meta>>
    BY <1>1, <1>6, <2>1, <2>2, OpGoesOn DEF SetHead
  <2>4. CASE op.t \in TxnIds
    <3>1. txn[op.t] = [st |-> txn[op.t].st, start_ts |-> txn[op.t].start_ts,
                       written |-> txn[op.t].written]
      BY <1>1, <2>4 DEF TxnShapes
    <3>2. x.st = txn[op.t].st /\ x = [st |-> x.st, start_ts |-> x.start_ts, written |-> x.written]
      BY <2>2, <3>1, SMT
    <3>3. MetaBehind(next.ts)'
      BY <1>1, <2>3 DEF MetaBehind
    <3> QED BY <2>3, <3>2, <3>3, TxnStep
  <2>5. CASE op.t \notin TxnIds
    <3>1. txn' = txn
      BY <1>1, <2>3, <2>5 DEF TxnShapes
    <3> QED BY <2>3, <3>1, QuietStep
  <2> QED BY <2>4, <2>5
<1>7. CASE WriteMeta
  <2>1. PICK x : x = [state |-> "Open", commit_ts |-> 0, writes |-> txn[op.t].written]
    OBVIOUS
  <2>2. x.state # "Committed"
    BY <2>1, SMT
  <2> QED BY <1>7, <2>1, <2>2, StartedOps, MetaStep DEF WriteMeta
<1>8. CASE PutIntent
  <2>1. PICK x : x = [state |-> "Committing", commit_ts |-> op.cts, writes |-> txn[op.t].written]
    OBVIOUS
  <2>2. x.state # "Committed"
    BY <2>1, SMT
  <2>3. ClientOp(op', next.ts)
    BY <1>1, <1>8, CommitOps DEF PutIntent
  <2> QED BY <1>8, <2>1, <2>2, <2>3, MetaStep DEF PutIntent
<1>9. CASE ApplyCommitWrites
  <2>1. op' = Idle \/ op' = [op EXCEPT !.i = op.i + 1] \/ op' = op
    BY <1>1, <1>9 DEF ApplyCommitWrites
  <2>2. ClientOp(op', next.ts)
    <3>1. CASE op' = Idle
      BY <3>1, StartedOps
    <3>2. CASE op' = [op EXCEPT !.i = op.i + 1]
      BY <1>1, <3>2, OpGoesOn
    <3>3. CASE op' = op
      BY <1>1, <3>3
    <3> QED BY <2>1, <3>1, <3>2, <3>3
  <2>3. UNCHANGED <<next, txn, meta, crashes>>
    BY <1>9 DEF ApplyCommitWrites
  <2> QED BY <2>2, <2>3, QuietStep
<1>10. CASE PutCommitted
  <2>1. PICK x : x = [state |-> "Committed", commit_ts |-> op.cts, writes |-> <<>>]
    OBVIOUS
  <2>2. x.commit_ts \in Nat /\ x.commit_ts < next.ts
    <3>1. x.commit_ts = op.cts
      BY <2>1, SMT
    <3> QED BY <1>1, <1>10, <3>1 DEF PutCommitted
  <2>3. /\ meta' = [meta EXCEPT ![op.t] = x] /\ UNCHANGED <<next, txn, crashes>>
        /\ op' = Persist([Idle EXCEPT !.t = op.t], "committed")
    BY <1>1, <1>10, <2>1 DEF PutCommitted
  <2> QED BY <2>2, <2>3, StartedOps, MetaStep
<1>11. ASSUME txn' = [txn EXCEPT ![op.t].st = "finished"], UNCHANGED <<next, crashes>>, op' = Idle,
              MetaBehind(next.ts)'
       PROVE  NeverCrashed' /\ OpensAtLastCommit
  <2>1. PICK x : x = [txn[op.t] EXCEPT !.st = "finished"]
    OBVIOUS
  <2>2. txn' = [txn EXCEPT ![op.t] = x] /\ ClientOp(op', next.ts)
    BY <1>11, <2>1, StartedOps
  <2>3. CASE op.t \in TxnIds
    <3>1. txn[op.t] = [st |-> txn[op.t].st, start_ts |-> txn[op.t].start_ts,
                       written |-> txn[op.t].written]
      BY <1>1, <2>3 DEF TxnShapes
    <3>2. x.st # "open" /\ x = [st |-> x.st, start_ts |-> x.start_ts, written |-> x.written]
      BY <2>1, <3>1, SMT
    <3> QED BY <1>11, <2>2, <3>2, TxnStep
  <2>4. CASE op.t \notin TxnIds
    <3>1. txn' = txn
      BY <1>1, <2>2, <2>4 DEF TxnShapes
    <3> QED BY <1>11, <2>2, <3>1 DEF NeverCrashed, NextShape, TxnShapes, OpensAtLastCommit
  <2> QED BY <2>3, <2>4
<1>12. CASE CommitDone
  <2>1. MetaBehind(next.ts)'
    BY <1>1, <1>12 DEF CommitDone, MetaBehind
  <2> QED BY <1>11, <1>12, <2>1 DEF CommitDone
<1>13. CASE RestoreHeads
  BY <1>1, <1>13, OpGoesOn, QuietStep DEF RestoreHeads
<1>14. CASE PutAborted
  <2>1. [NoMeta EXCEPT !.state = "Aborted"].state # "Committed"
    BY SMT DEF NoMeta
  <2>2. MetaBehind(next.ts)'
    BY <1>1, <1>14, <2>1 DEF PutAborted, MetaBehind
  <2> QED BY <1>1, <1>11, <1>14, <2>2 DEF PutAborted
<1>15. CASE RecoverTxns
  BY <1>1, <1>15 DEF RecoverTxns
<1>16. CASE KvError
  <2>1. op' = Idle /\ UNCHANGED <<meta, next, crashes>>
    BY <1>1, <1>16 DEF KvError, durable
  <2>2. MetaBehind(next.ts)'
    BY <1>1, <2>1 DEF MetaBehind
  <2>3. CASE UNCHANGED txn
    BY <2>1, <2>3, StartedOps, QuietStep
  <2>4. CASE txn' = [txn EXCEPT ![op.t].st = "finished"]
    BY <1>11, <2>1, <2>2, <2>4
  <2> QED BY <1>16, <2>3, <2>4 DEF KvError
<1> QED BY <1>3, <1>4, <1>5, <1>6, <1>7, <1>8, <1>9, <1>10, <1>12, <1>13, <1>14, <1>15, <1>16
        DEF HandlerStep

\* Until the process crashes, and whatever errors the engine returns, a transaction
\* starts from the last commit: Begin takes next_ts_ - 1, and every transaction
\* marked Committed took its timestamp from next_ts_ (database.cpp, txn.cpp).
THEOREM BeginAtLastCommit ==
    ASSUME MaxCrashes = 0
    PROVE  Spec => StartsFromLastCommit
<1> DEFINE AtLast == \A t, u \in TxnIds :
          txn[t].st # "open" /\ txn'[t].st = "open" /\ meta[u].state = "Committed" =>
              meta[u].commit_ts <= txn'[t].start_ts
<1>1. Init => NeverCrashed
  <2> SUFFICES ASSUME Init PROVE NeverCrashed
    OBVIOUS
  <2>1. NextShape
    BY SMT DEF Init, FirstOracle, NextShape
  <2>2. MetaBehind(next.ts)
    <3>1. NoMeta.state # "Committed"
      BY SMT DEF NoMeta
    <3> QED BY <3>1 DEF Init, MetaBehind
  <2>3. TxnShapes
    <3>1. NoTxn = [st |-> NoTxn.st, start_ts |-> NoTxn.start_ts, written |-> NoTxn.written]
      BY SMT DEF NoTxn
    <3> QED BY <3>1 DEF Init, TxnShapes
  <2>4. ClientOp(op, next.ts) /\ crashes = 0
    BY StartedOps DEF Init
  <2> QED BY <2>1, <2>2, <2>3, <2>4 DEF NeverCrashed
<1>2. NeverCrashed /\ [Next]_vars => NeverCrashed' /\ (OpensAtLastCommit \/ UNCHANGED vars)
  <2> SUFFICES ASSUME NeverCrashed, [Next]_vars
               PROVE  NeverCrashed' /\ (OpensAtLastCommit \/ UNCHANGED vars)
    OBVIOUS
  <2>1. CASE UNCHANGED vars
    BY <2>1 DEF vars, NeverCrashed, NextShape, MetaBehind, TxnShapes
  <2>2. ~Crash
    BY SMT DEF Crash, NeverCrashed
  <2>3. ~Open
    BY IdleFields DEF Open, NeverCrashed, ClientOp
  <2> QED BY <2>1, <2>2, <2>3, CallForward, HandlerForward DEF Next
<1>3. NeverCrashed /\ [Next]_vars => [AtLast]_vars
  <2> SUFFICES ASSUME NeverCrashed, OpensAtLastCommit PROVE AtLast
    BY <1>2
  <2> SUFFICES ASSUME NEW t \in TxnIds, NEW u \in TxnIds, txn[t].st # "open",
                      txn'[t].st = "open", meta[u].state = "Committed"
               PROVE  meta[u].commit_ts <= txn'[t].start_ts
    OBVIOUS
  <2>1. txn'[t].start_ts = next.ts - 1
    BY DEF OpensAtLastCommit
  <2>2. meta[u].commit_ts \in Nat /\ meta[u].commit_ts < next.ts /\ next.ts \in Nat
    BY DEF NeverCrashed, MetaBehind, NextShape
  <2> QED BY <2>1, <2>2, SMT
<1> HIDE DEF AtLast
<1>4. Spec => [][AtLast]_vars
  BY <1>1, <1>2, <1>3, PTL DEF Spec
<1> QED BY <1>4 DEF StartsFromLastCommit, AtLast
=============================================================================
