--------------------------- MODULE ReldbDdlProofs ---------------------------
(***************************************************************************)
(* Schema changes, for any number of sessions, keys, columns, statements,  *)
(* crashes and engine errors: the gate, the catalog cache and what         *)
(* sessions know of the schema; then, as long as no DDL statement was cut  *)
(* short, that the steps which leave rows alone keep DataInv               *)
(* (ReldbDdlInv).                                                          *)
(*                                                                         *)
(* The counter of open transactions is exact because transaction ids are:  *)
(* a transaction whose Abort failed is told apart from every live one by   *)
(* its id, which Begin never hands out twice within a process.             *)
(***************************************************************************)
EXTENDS ReldbDdlInv, FiniteSetTheorems, TLAPS

\* A session's record and the handler's, with the fields the gate depends on.
IsSession(x) == /\ x = [schema |-> x.schema, seen |-> x.seen, tid |-> x.tid, start |-> x.start,
                        pk |-> x.pk, vid |-> x.vid, listed |-> x.listed]
                /\ x.tid \in Nat
IsOp(x) == x = [pc |-> x.pc, s |-> x.s, old |-> x.old, neu |-> x.neu, pks |-> x.pks,
                ts |-> x.ts, drop |-> x.drop]
IsCounters(x) == x = [ts |-> x.ts, vid |-> x.vid, txn |-> x.txn] /\ x.txn \in Nat \ {0}

GateType ==
    /\ sess = [s \in Sessions |-> sess[s]] /\ \A s \in Sessions : IsSession(sess[s])
    /\ IsCounters(next) /\ IsCounters(stored)
    /\ IsOp(op)
    /\ IsFiniteSet(lost)

\* Ids of live and of lost transactions are below the counter and all different.
IdsDiffer ==
    /\ \A s \in Sessions : sess[s].tid < next.txn
    /\ \A t \in lost : t.tid \in Nat \ {0} /\ t.tid < next.txn
    /\ \A s, r \in Live : sess[s].tid = sess[r].tid => s = r
    /\ \A s \in Live, t \in lost : sess[s].tid # t.tid

GateInv == GateType /\ IdsDiffer /\ GateExact

-----------------------------------------------------------------------------
\* There are finitely many live transactions, before and after a step.
LEMMA LiveFinite == IsFiniteSet(Live) /\ IsFiniteSet(Live') /\ Cardinality(Live) \in Nat
                    /\ Cardinality(Live') \in Nat
<1>1. Live \subseteq Sessions /\ Live' \subseteq Sessions
  BY DEF Live
<1> QED BY <1>1, DdlBounds, FS_Subset, FS_CardinalityType, Zenon

\* What a step that leaves the transactions alone has to show.
LEMMA Frame ==
    ASSUME GateInv, GateType', UNCHANGED <<lost, open_txn_count>>, next'.txn = next.txn,
           \A s \in Sessions : sess'[s].tid = sess[s].tid,
           op'.pc \in {"idle", "list"} \/ op.pc \notin {"idle", "list"} \/ open_txn_count = 0
    PROVE  GateInv'
<1>1. Live' = Live
  BY DEF Live
<1>2. IdsDiffer'
  BY <1>1 DEF GateInv, IdsDiffer, Live
<1>3. open_txn_count = 0 => Live = {}
  <2>1. Cardinality(lost) \in Nat
    BY FS_CardinalityType, Zenon DEF GateInv, GateType
  <2>2. open_txn_count = Cardinality(Live) + Cardinality(lost)
    BY DEF GateInv, GateExact
  <2>3. open_txn_count = 0 => Cardinality(Live) = 0
    BY <2>1, <2>2, LiveFinite
  <2> QED BY <2>3, LiveFinite, FS_EmptySet, Zenon
<1>4. GateExact'
  BY <1>1, <1>3 DEF GateInv, GateExact
<1> QED BY <1>2, <1>4 DEF GateInv

\* The gate counts nobody in the empty database.
LEMMA InitGate == Init => GateInv
<1> SUFFICES ASSUME Init PROVE GateInv
  OBVIOUS
<1>1. /\ sess = [s \in Sessions |-> NoSession] /\ lost = {} /\ open_txn_count = 0 /\ op = Idle
      /\ next = [ts |-> 1, vid |-> 1, txn |-> 1] /\ stored = [ts |-> 1, vid |-> 1, txn |-> 1]
  BY DEF Init
<1>2. \A s \in Sessions : sess[s] = NoSession
  BY <1>1
<1>3. Live = {}
  BY <1>2 DEF Live, NoSession
<1>4. GateType
  <2>1. sess = [s \in Sessions |-> sess[s]]
    BY <1>1
  <2>2. \A s \in Sessions : IsSession(sess[s])
    BY <1>2 DEF IsSession, NoSession
  <2>3. IsCounters(next) /\ IsCounters(stored)
    BY <1>1 DEF IsCounters
  <2>4. IsOp(op)
    BY <1>1 DEF Idle, IsOp
  <2> QED BY <1>1, <2>1, <2>2, <2>3, <2>4, FS_EmptySet, Zenon DEF GateType
<1>5. IdsDiffer
  BY <1>1, <1>2, <1>3 DEF IdsDiffer, NoSession
<1>6. GateExact
  BY <1>1, <1>3, FS_EmptySet DEF GateExact, Idle
<1> QED BY <1>4, <1>5, <1>6 DEF GateInv

-----------------------------------------------------------------------------
\* Transactions.

\* Begin counts its transaction.
LEMMA BeginGate == ASSUME GateInv, NEW s \in Sessions, Begin(s) PROVE GateInv'
<1>1. /\ op = Idle /\ sess[s].tid = 0 /\ next' = [next EXCEPT !.txn = @ + 1] /\ stored' = next'
      /\ sess' = [sess EXCEPT ![s].tid = next.txn, ![s].start = next.ts - 1]
      /\ open_txn_count' = open_txn_count + 1 /\ op' = op /\ lost' = lost
  BY DEF Begin, history
<1>2. GateType /\ IdsDiffer
  BY DEF GateInv
<1>3. IsSession(sess[s]) /\ sess = [r \in Sessions |-> sess[r]] /\ IsCounters(next)
  BY <1>2 DEF GateType
<1>4. next'.txn = next.txn + 1 /\ next.txn \in Nat \ {0} /\ IsCounters(next')
  BY <1>1, <1>3 DEF IsCounters
<1>5. /\ \A r \in Sessions : r # s => sess'[r] = sess[r]
      /\ sess'[s].tid = next.txn /\ IsSession(sess'[s]) /\ sess' = [r \in Sessions |-> sess'[r]]
  BY <1>1, <1>3, <1>4, ZenonT(30) DEF IsSession
<1>6. Live' = Live \cup {s} /\ s \notin Live
  BY <1>1, <1>4, <1>5, ZenonT(30) DEF Live
<1>7. GateType'
  <2>1. \A r \in Sessions : IsSession(sess'[r])
    BY <1>2, <1>5 DEF GateType
  <2> QED BY <1>1, <1>2, <1>4, <1>5, <2>1, Zenon DEF GateType, IsSession, IsCounters, IsOp
<1>8. \A r \in Sessions : sess[r].tid \in Nat /\ sess[r].tid < next.txn
  BY <1>2 DEF GateType, IsSession, IdsDiffer
<1>9. IdsDiffer'
  <2>1. \A r \in Sessions : sess'[r].tid < next'.txn
    BY <1>4, <1>5, <1>8
  <2>2. \A t \in lost' : t.tid \in Nat \ {0} /\ t.tid < next'.txn
    BY <1>1, <1>2, <1>4 DEF IdsDiffer
  <2>3. \A q, r \in Live' : sess'[q].tid = sess'[r].tid => q = r
    <3>1. \A q \in Live : sess'[q].tid = sess[q].tid /\ sess[q].tid # next.txn
      BY <1>4, <1>5, <1>6, <1>8 DEF Live
    <3> QED BY <1>2, <1>5, <1>6, <3>1 DEF IdsDiffer
  <2>4. \A q \in Live', t \in lost' : sess'[q].tid # t.tid
    <3>1. \A t \in lost : t.tid # next.txn
      BY <1>2, <1>4 DEF IdsDiffer
    <3>2. \A q \in Live : sess'[q] = sess[q]
      BY <1>5, <1>6 DEF Live
    <3>3. lost' = lost /\ \A q \in Live, t \in lost : sess[q].tid # t.tid
      BY <1>1, <1>2 DEF IdsDiffer
    <3> QED BY <1>5, <1>6, <3>1, <3>2, <3>3, Zenon
  <2> QED BY <2>1, <2>2, <2>3, <2>4 DEF IdsDiffer
<1>10. GateExact'
  <2>1. Cardinality(Live') = Cardinality(Live) + 1
    BY <1>6, LiveFinite, FS_AddElement
  <2>2. Cardinality(lost) \in Nat
    BY <1>2, FS_CardinalityType, Zenon DEF GateType
  <2>3. open_txn_count' = Cardinality(Live') + Cardinality(lost')
    BY <1>1, <2>1, <2>2, LiveFinite DEF GateInv, GateExact
  <2> QED BY <1>1, <2>3 DEF GateExact, Idle
<1> QED BY <1>7, <1>9, <1>10 DEF GateInv

\* A session gives its transaction up: either the counter or the lost ones have it.
LEMMA EndGate ==
    ASSUME GateInv, NEW s \in Sessions, op = Idle, op' = op, sess[s].tid # 0,
           sess' = [sess EXCEPT ![s] = NoSession], IsCounters(next'), next'.txn = next.txn,
           IsCounters(stored'),
           \/ open_txn_count' = open_txn_count - 1 /\ lost' = lost
           \/ open_txn_count' = open_txn_count /\ lost' = lost \cup {sess[s]}
    PROVE  GateInv'
<1>1. GateType /\ IdsDiffer
  BY DEF GateInv
<1>2. /\ \A r \in Sessions : r # s => sess'[r] = sess[r]
      /\ sess'[s] = NoSession /\ sess' = [r \in Sessions |-> sess'[r]]
  BY <1>1 DEF GateType
<1>3. s \in Live /\ Live' = Live \ {s}
  BY <1>2 DEF Live, NoSession
<1>4. sess[s] \notin lost
  BY <1>1, <1>3 DEF IdsDiffer
<1>5. /\ IsFiniteSet(lost') /\ Cardinality(lost) \in Nat
      /\ lost' = lost \cup {sess[s]} => Cardinality(lost') = Cardinality(lost) + 1
  BY <1>1, <1>4, FS_AddElement, FS_CardinalityType DEF GateType
<1>6. GateType'
  <2>1. IsSession(NoSession)
    BY DEF IsSession, NoSession
  <2>2. \A r \in Sessions : IsSession(sess'[r])
    BY <1>1, <1>2, <2>1 DEF GateType
  <2> QED BY <1>1, <1>2, <1>5, <2>2, Zenon DEF GateType, IsSession, IsCounters, IsOp
<1>7. IdsDiffer'
  <2>1. \A r \in Live' : r # s /\ r \in Live /\ sess'[r] = sess[r]
    BY <1>2, <1>3 DEF Live
  <2>2. \A r \in Sessions : sess'[r].tid < next'.txn
    BY <1>1, <1>2 DEF IdsDiffer, NoSession, IsCounters
  <2>3. sess[s].tid \in Nat \ {0} /\ sess[s].tid < next.txn
    BY <1>1 DEF GateType, IsSession, IdsDiffer
  <2>4. \A t \in lost' : t.tid \in Nat \ {0} /\ t.tid < next'.txn
    BY <1>1, <2>3 DEF IdsDiffer
  <2>5. \A r \in Live', t \in lost' : sess'[r].tid # t.tid
    BY <1>1, <1>3, <2>1 DEF IdsDiffer
  <2> QED BY <1>1, <2>1, <2>2, <2>4, <2>5 DEF IdsDiffer
<1>8. GateExact'
  <2>1. Cardinality(Live') = Cardinality(Live) - 1
    BY <1>3, LiveFinite, FS_RemoveElement
  <2>2. open_txn_count' = Cardinality(Live') + Cardinality(lost')
    BY <1>5, <2>1, LiveFinite DEF GateInv, GateExact
  <2> QED BY <2>2 DEF GateExact, Idle
<1> QED BY <1>6, <1>7, <1>8 DEF GateInv

\* The record of a session after the assignments of LookupTable, Write and WriteList.
LEMMA LookupRecord ==
    ASSUME NEW x, IsSession(x), NEW a, NEW b
    PROVE  /\ IsSession([x EXCEPT !.schema = a, !.seen = b])
           /\ [x EXCEPT !.schema = a, !.seen = b].tid = x.tid
<1>1. [x EXCEPT !.schema = a, !.seen = b].tid = x.tid
  BY DEF IsSession
<1>2. IsSession([x EXCEPT !.schema = a])
  BY DEF IsSession
<1>3. ASSUME NEW y, IsSession(y) PROVE IsSession([y EXCEPT !.seen = b])
  BY <1>3 DEF IsSession
<1>4. [x EXCEPT !.schema = a, !.seen = b] = [[x EXCEPT !.schema = a] EXCEPT !.seen = b]
  OBVIOUS
<1>5. IsSession([[x EXCEPT !.schema = a] EXCEPT !.seen = b])
  BY <1>2, <1>3, Zenon
<1> QED BY <1>1, <1>4, <1>5, Zenon

\* What a write changes in the record of its session.
LEMMA WriteRecord ==
    ASSUME NEW x, IsSession(x), NEW a, NEW b
    PROVE  IsSession([x EXCEPT !.pk = a, !.vid = b]) /\ [x EXCEPT !.pk = a, !.vid = b].tid = x.tid
<1>1. [x EXCEPT !.pk = a, !.vid = b].tid = x.tid
  BY DEF IsSession
<1>2. IsSession([x EXCEPT !.pk = a])
  BY DEF IsSession
<1>3. ASSUME NEW y, IsSession(y) PROVE IsSession([y EXCEPT !.vid = b])
  BY <1>3 DEF IsSession
<1>4. [x EXCEPT !.pk = a, !.vid = b] = [[x EXCEPT !.pk = a] EXCEPT !.vid = b]
  OBVIOUS
<1>5. IsSession([[x EXCEPT !.pk = a] EXCEPT !.vid = b])
  BY <1>2, <1>3, Zenon
<1> QED BY <1>1, <1>4, <1>5, Zenon

\* What listing a write changes in the record of its session.
LEMMA ListRecord ==
    ASSUME NEW x, IsSession(x), NEW a
    PROVE  IsSession([x EXCEPT !.listed = a]) /\ [x EXCEPT !.listed = a].tid = x.tid
BY DEF IsSession

\* A session's other fields change.
LEMMA SessionFields ==
    ASSUME GateType, NEW s \in Sessions, NEW f, IsSession(f), f.tid = sess[s].tid,
           sess' = [sess EXCEPT ![s] = f]
    PROVE  /\ sess' = [r \in Sessions |-> sess'[r]] /\ \A r \in Sessions : IsSession(sess'[r])
           /\ \A r \in Sessions : sess'[r].tid = sess[r].tid
BY DEF GateType

\* Looking a table up leaves the gate alone.
LEMMA LookupGate == ASSUME GateInv, NEW s \in Sessions, LookupTable(s) PROVE GateInv'
<1> DEFINE f == [sess[s] EXCEPT !.schema = GetTable, !.seen = changes]
<1>1. /\ op = Idle /\ sess' = [sess EXCEPT ![s] = f]
      /\ UNCHANGED <<next, stored, open_txn_count, op, lost>>
  BY ZenonT(30) DEF LookupTable, history
<1>2. GateType /\ IsSession(sess[s])
  BY DEF GateInv, GateType
<1>3. IsSession(f) /\ f.tid = sess[s].tid
  BY <1>2, LookupRecord, Zenon
<1> HIDE DEF f
<1>4. /\ sess' = [r \in Sessions |-> sess'[r]] /\ \A r \in Sessions : IsSession(sess'[r])
      /\ \A r \in Sessions : sess'[r].tid = sess[r].tid
  BY <1>1, <1>2, <1>3, SessionFields, ZenonT(30)
<1>5. GateType'
  BY <1>1, <1>2, <1>4, Zenon DEF GateType, IsSession, IsCounters, IsOp
<1> QED BY <1>1, <1>4, <1>5, Frame DEF Idle

\* INSERT, DELETE and UPDATE leave the gate alone.
LEMMA WriteGate ==
    ASSUME GateInv, NEW s \in Sessions, NEW p, NEW row, Write(s, p, row)
    PROVE  GateInv'
<1> DEFINE f == [sess[s] EXCEPT !.pk = p, !.vid = next.vid]
<1>1. /\ sess' = [sess EXCEPT ![s] = f] /\ op' = [Idle EXCEPT !.pc = "list", !.s = s]
      /\ next' = [next EXCEPT !.vid = @ + 1] /\ stored' = next'
      /\ UNCHANGED <<open_txn_count, lost>>
  BY ZenonT(30) DEF Write, bounds
<1>2. GateType /\ IsSession(sess[s]) /\ IsCounters(next)
  BY DEF GateInv, GateType
<1>3. IsSession(f) /\ f.tid = sess[s].tid
  BY <1>2, WriteRecord, Zenon
<1> HIDE DEF f
<1>4. /\ sess' = [r \in Sessions |-> sess'[r]] /\ \A r \in Sessions : IsSession(sess'[r])
      /\ \A r \in Sessions : sess'[r].tid = sess[r].tid
  BY <1>1, <1>2, <1>3, SessionFields, ZenonT(30)
<1>5. IsCounters(next') /\ next'.txn = next.txn
  BY <1>1, <1>2 DEF IsCounters
<1>6. op'.pc = "list" /\ IsOp(op')
  BY <1>1, ZenonT(30) DEF Idle, IsOp
<1>7. GateType'
  BY <1>1, <1>2, <1>4, <1>5, <1>6, Zenon DEF GateType, IsSession, IsCounters, IsOp
<1> QED BY <1>1, <1>4, <1>5, <1>6, <1>7, Frame

\* The second half of a write leaves the gate alone.
LEMMA WriteListGate == ASSUME GateInv, WriteList PROVE GateInv'
<1>1. /\ sess' = [sess EXCEPT ![op.s].listed = TRUE] /\ op' = Idle
      /\ UNCHANGED <<stored, next, open_txn_count, lost>>
  BY DEF WriteList, history
<1>2. GateType
  BY DEF GateInv
<1>3. /\ sess' = [r \in Sessions |-> sess'[r]] /\ \A r \in Sessions : IsSession(sess'[r])
      /\ \A r \in Sessions : sess'[r].tid = sess[r].tid
  <2>1. CASE op.s \in Sessions
    <3> DEFINE f == [sess[op.s] EXCEPT !.listed = TRUE]
    <3>1. IsSession(sess[op.s])
      BY <1>2, <2>1 DEF GateType
    <3>2. IsSession(f) /\ f.tid = sess[op.s].tid
      BY <3>1, ListRecord, Zenon
    <3>3. sess' = [sess EXCEPT ![op.s] = f]
      BY <1>1
    <3> HIDE DEF f
    <3> QED BY <1>2, <2>1, <3>2, <3>3, SessionFields, ZenonT(30)
  <2>2. CASE op.s \notin Sessions
    <3>1. sess = [r \in Sessions |-> sess[r]]
      BY <1>2 DEF GateType
    <3>2. sess' = sess
      BY <1>1, <2>2, <3>1
    <3> QED BY <1>2, <3>2 DEF GateType
  <2> QED BY <2>1, <2>2
<1>4. IsOp(op')
  BY <1>1 DEF Idle, IsOp
<1>5. GateType'
  BY <1>1, <1>2, <1>3, <1>4, Zenon DEF GateType, IsSession, IsCounters, IsOp
<1> QED BY <1>1, <1>3, <1>5, Frame DEF Idle

-----------------------------------------------------------------------------
\* Schema changes.

\* A step of a DDL statement: sessions stay, transaction ids stay, and the handler
\* was inside already, or the gate let it in, or it leaves.
LEMMA DdlFrame ==
    ASSUME GateInv, UNCHANGED <<sess, open_txn_count, lost>>,
           IsCounters(next'), next'.txn = next.txn, IsCounters(stored'),
           IsOp(op'),
           op'.pc \in {"idle", "list"} \/ op.pc \notin {"idle", "list"} \/ open_txn_count = 0
    PROVE  GateInv'
<1>1. GateType'
  BY Zenon DEF GateInv, GateType, IsSession, IsCounters, IsOp
<1> QED BY <1>1, Frame

\* The record of a handler at work stays one when it moves on.
LEMMA OpRecord ==
    ASSUME NEW x, IsOp(x), NEW a, NEW b
    PROVE  /\ IsOp([x EXCEPT !.pc = a]) /\ IsOp([x EXCEPT !.pks = b])
           /\ IsOp([x EXCEPT !.pc = a, !.pks = b]) /\ IsOp(Idle)
<1>1. IsOp([x EXCEPT !.pc = a]) /\ IsOp([x EXCEPT !.pks = b])
  BY DEF IsOp
<1>2. ASSUME NEW y, IsOp(y) PROVE IsOp([y EXCEPT !.pks = b])
  BY <1>2 DEF IsOp
<1>3. [x EXCEPT !.pc = a, !.pks = b] = [[x EXCEPT !.pc = a] EXCEPT !.pks = b]
  OBVIOUS
<1>4. IsOp(Idle)
  BY DEF IsOp, Idle
<1>5. IsOp([[x EXCEPT !.pc = a] EXCEPT !.pks = b])
  BY <1>1, <1>2, Zenon
<1> QED BY <1>1, <1>3, <1>4, <1>5, Zenon

\* Moving one counter leaves a record of counters.
LEMMA CountersRecord ==
    ASSUME NEW x, IsCounters(x), NEW a
    PROVE  /\ IsCounters([x EXCEPT !.ts = a]) /\ [x EXCEPT !.ts = a].txn = x.txn
           /\ IsCounters([x EXCEPT !.vid = a]) /\ [x EXCEPT !.vid = a].txn = x.txn
BY DEF IsCounters

\* While a DDL handler works the gate stays shut, and counts nobody.
LEMMA GateShut == ASSUME GateInv, DdlStep \/ DdlFails PROVE GateInv'
<1>1. IsOp(op) /\ IsCounters(next) /\ IsCounters(stored)
  BY SMTT(30) DEF GateInv, GateType, IsOp
<1>2. UNCHANGED <<sess, open_txn_count, lost>>
  BY SMTT(30) DEF DdlStep, DdlFails, DeleteHeads, DeleteVersions, AlterClose, AlterInstall, AlterSetHead,
         AlterPersist, PutTable, history
<1>3. op.pc \notin {"idle", "list"}
  BY DEF DdlStep, DdlFails, DeleteHeads, DeleteVersions, AlterClose, AlterInstall, AlterSetHead,
         AlterPersist, PutTable
<1>4. IsOp(op')
  <2>1. IsOp(Idle) /\ \A a, b : /\ IsOp([op EXCEPT !.pc = a]) /\ IsOp([op EXCEPT !.pks = b])
                                /\ IsOp([op EXCEPT !.pc = a, !.pks = b])
    BY <1>1, OpRecord, Zenon
  <2>2. CASE DeleteHeads \/ DeleteVersions
    <3>1. op' = op \/ op' = Idle \/ \E a : op' = [op EXCEPT !.pc = a]
      BY <2>2, Zenon DEF DeleteHeads, DeleteVersions
    <3> QED BY <1>1, <2>1, <3>1, Zenon
  <2>3. CASE AlterClose
    <3>1. \/ op' = [op EXCEPT !.pc = "persist_ts"] \/ op' = [op EXCEPT !.pks = Others]
          \/ op' = Idle \/ op' = [op EXCEPT !.pc = "install"]
      BY <2>3, Zenon DEF AlterClose
    <3> QED BY <2>1, <3>1, Zenon
  <2>4. CASE AlterInstall \/ AlterSetHead
    <3>1. op' = [op EXCEPT !.pc = "head"] \/ op' = [op EXCEPT !.pc = "close", !.pks = Others]
      BY <2>4 DEF AlterInstall, AlterSetHead
    <3>2. IsOp([op EXCEPT !.pc = "close", !.pks = Others])
      <4>1. ASSUME NEW b PROVE IsOp([op EXCEPT !.pc = "close", !.pks = b])
        BY <1>1, OpRecord, Zenon
      <4> QED BY <4>1, Zenon
    <3> QED BY <2>1, <3>1, <3>2, Zenon
  <2>5. CASE AlterPersist \/ PutTable \/ DdlFails
    BY <2>1, <2>5, Zenon DEF AlterPersist, PutTable, DdlFails
  <2> QED BY <2>2, <2>3, <2>4, <2>5, Zenon DEF DdlStep
<1>5. IsCounters(next') /\ next'.txn = next.txn /\ IsCounters(stored')
  <2>1. /\ \A a : IsCounters([next EXCEPT !.vid = a]) /\ [next EXCEPT !.vid = a].txn = next.txn
        /\ \A a : IsCounters([stored EXCEPT !.ts = a]) /\ IsCounters([stored EXCEPT !.vid = a])
    BY <1>1, CountersRecord, Zenon
  <2>2. CASE UNCHANGED <<next, stored>>
    BY <1>1, <2>2, Zenon DEF IsCounters
  <2>3. CASE next' = [next EXCEPT !.vid = next.vid + 1] /\ stored' = stored
    BY <1>1, <2>1, <2>3, Zenon DEF IsCounters
  <2>4. CASE next' = next /\ \E a : stored' = [stored EXCEPT !.ts = a] \/ stored' = [stored EXCEPT !.vid = a]
    BY <1>1, <2>1, <2>4, Zenon DEF IsCounters
  <2>5. \/ UNCHANGED <<next, stored>>
        \/ next' = [next EXCEPT !.vid = next.vid + 1] /\ stored' = stored
        \/ next' = next /\ \E a : stored' = [stored EXCEPT !.ts = a] \/ stored' = [stored EXCEPT !.vid = a]
    BY Zenon DEF DdlStep, DdlFails, DeleteHeads, DeleteVersions, AlterClose, AlterInstall,
                 AlterSetHead, AlterPersist, PutTable, durable
  <2> QED BY <2>2, <2>3, <2>4, <2>5, Zenon
<1> QED BY <1>2, <1>3, <1>4, <1>5, DdlFrame DEF IsOp

\* The gate lets a statement in only when nobody has a transaction.
LEMMA GateOpens ==
    ASSUME GateInv, NEW c,
           \/ CreateTable(<<Id, c>>) \/ DropTable
           \/ AlterTableAddColumn(c) \/ AlterTableDropColumn(c)
    PROVE  GateInv'
<1>1. IsOp(op) /\ IsCounters(next) /\ IsCounters(stored)
  BY DEF GateInv, GateType
<1>2. CASE CreateTable(<<Id, c>>)
  <2>1. UNCHANGED <<sess, open_txn_count, lost, next, stored, op>> /\ open_txn_count = 0
    BY <1>2, Zenon DEF CreateTable, Gate
  <2>2. IsCounters(next') /\ next'.txn = next.txn /\ IsCounters(stored') /\ IsOp(op')
    BY <1>1, <2>1, Zenon
  <2> QED BY <2>1, <2>2, DdlFrame
<1>3. CASE DropTable
  <2>1. /\ UNCHANGED <<sess, open_txn_count, lost, next, stored>> /\ open_txn_count = 0
        /\ op' = [Idle EXCEPT !.pc = "drop_heads"]
    BY <1>3, Zenon DEF DropTable, Gate
  <2>2. IsCounters(next') /\ next'.txn = next.txn /\ IsCounters(stored')
    BY <1>1, <2>1, Zenon
  <2>3. IsOp(op')
    BY <2>1 DEF IsOp, Idle
  <2> QED BY <2>1, <2>2, <2>3, DdlFrame
<1>4. ASSUME NEW neu, NEW drop, StartAlter(neu, drop) PROVE GateInv'
  <2>1. /\ UNCHANGED <<sess, open_txn_count, lost, stored>> /\ open_txn_count = 0
        /\ next' = [next EXCEPT !.ts = next.ts + 1]
    BY <1>4, Zenon DEF StartAlter, Gate, durable, history
  <2>2. IsCounters(stored')
    BY <1>1, <2>1, Zenon
  <2>3. IsCounters(next') /\ next'.txn = next.txn
    BY <1>1, <2>1, CountersRecord, Zenon
  <2>4. IsOp(op')
    <3>1. PICK pks : op' = [Idle EXCEPT !.pc = "close", !.old = GetTable, !.neu = neu,
                                        !.drop = drop, !.pks = pks, !.ts = next.ts]
      BY <1>4, Zenon DEF StartAlter
    <3> QED BY <3>1, ZenonT(30) DEF IsOp, Idle
  <2> QED BY <2>1, <2>2, <2>3, <2>4, DdlFrame
<1>5. CASE AlterTableAddColumn(c)
  BY <1>4, <1>5, Zenon DEF AlterTableAddColumn
<1>6. CASE AlterTableDropColumn(c)
  BY <1>4, <1>6, Zenon DEF AlterTableDropColumn
<1> QED BY <1>2, <1>3, <1>5, <1>6

\* A restart starts with an open gate and no transaction.
LEMMA CrashGate == ASSUME GateInv, Crash PROVE GateInv'
<1>1. /\ sess' = [s \in Sessions |-> NoSession] /\ lost' = {} /\ open_txn_count' = 0 /\ op' = Idle
      /\ next' = stored /\ stored' = stored /\ IsCounters(stored)
  BY Zenon DEF Crash, GateInv, GateType
<1>2. \A s \in Sessions : sess'[s] = NoSession
  BY <1>1
<1>3. Live' = {}
  BY <1>2 DEF Live, NoSession
<1>4. GateType'
  <2>1. sess' = [s \in Sessions |-> sess'[s]]
    BY <1>1
  <2>2. \A s \in Sessions : IsSession(sess'[s])
    BY <1>2 DEF IsSession, NoSession
  <2>3. IsCounters(next') /\ IsCounters(stored')
    BY <1>1, Zenon
  <2>4. IsOp(op')
    BY <1>1 DEF Idle, IsOp
  <2> QED BY <1>1, <2>1, <2>2, <2>3, <2>4, FS_EmptySet, Zenon DEF GateType, IsSession, IsCounters, IsOp
<1>5. IdsDiffer'
  BY <1>1, <1>2, <1>3 DEF IdsDiffer, NoSession, IsCounters
<1>6. GateExact'
  BY <1>1, <1>3, FS_EmptySet DEF GateExact, Idle
<1> QED BY <1>4, <1>5, <1>6 DEF GateInv

\* Every step keeps the count of the gate exact.
LEMMA StepGate == GateInv /\ [Next]_vars => GateInv'
<1> SUFFICES ASSUME GateInv, [Next]_vars PROVE GateInv'
  OBVIOUS
<1>1. IsOp(op) /\ IsCounters(next) /\ IsCounters(stored)
  BY DEF GateInv, GateType
<1>2. CASE UNCHANGED vars
  BY <1>2, Zenon DEF vars, GateInv, GateType, IdsDiffer, GateExact, Live
<1>3. ASSUME NEW s \in Sessions, LookupTable(s) \/ Begin(s) PROVE GateInv'
  BY <1>3, LookupGate, BeginGate
<1>4. ASSUME NEW s \in Sessions, CommitTransaction(s) PROVE GateInv'
  <2>1. /\ op = Idle /\ op' = op /\ sess[s].tid # 0 /\ sess' = [sess EXCEPT ![s] = NoSession]
        /\ next' = [next EXCEPT !.ts = next.ts + 1] /\ stored' = next' /\ lost' = lost
        /\ open_txn_count' = open_txn_count - 1
    BY <1>4, Zenon DEF CommitTransaction, history
  <2>2. IsCounters(next') /\ next'.txn = next.txn /\ IsCounters(stored')
    BY <1>1, <2>1, CountersRecord, Zenon
  <2> QED BY <2>1, <2>2, EndGate, ZenonT(30)
<1>5. ASSUME NEW s \in Sessions, AbortTransaction(s) \/ AbortFails(s) PROVE GateInv'
  <2>1. /\ op = Idle /\ op' = op /\ sess[s].tid # 0 /\ sess' = [sess EXCEPT ![s] = NoSession]
        /\ UNCHANGED <<next, stored>>
        /\ \/ open_txn_count' = open_txn_count - 1 /\ lost' = lost
           \/ open_txn_count' = open_txn_count /\ lost' = lost \cup {sess[s]}
    BY <1>5, Zenon DEF AbortTransaction, AbortFails, history
  <2>2. IsCounters(next') /\ next'.txn = next.txn /\ IsCounters(stored')
    BY <1>1, <2>1, Zenon
  <2> QED BY <2>1, <2>2, EndGate, ZenonT(30)
<1>6. ASSUME NEW s \in Sessions, NEW p, NEW c, Insert(s, p) \/ Delete(s, p) \/ Update(s, p, c)
      PROVE  GateInv'
  BY <1>6, WriteGate, Zenon DEF Insert, Delete, Update
<1>7. ASSUME NEW c, \/ CreateTable(<<Id, c>>) \/ DropTable
                   \/ AlterTableAddColumn(c) \/ AlterTableDropColumn(c)
      PROVE  GateInv'
  BY <1>7, GateOpens
<1>8. CASE HandlerStep \/ DdlFails \/ Crash
  BY <1>8, WriteListGate, GateShut, CrashGate DEF HandlerStep
<1> QED BY <1>2, <1>3, <1>4, <1>5, <1>6, <1>7, <1>8, Zenon DEF Next

\* For every number of sessions, statements, crashes and engine errors, the counter
\* of the DDL gate is the number of live transactions plus those whose Abort failed
\* in ~Transaction, and no transaction is open while a DDL handler works.
THEOREM GateCounts == Spec => []GateExact
<1>1. GateInv => GateExact
  BY DEF GateInv
<1> QED BY <1>1, InitGate, StepGate, PTL DEF Spec

-----------------------------------------------------------------------------
\* The catalog.

\* Every step leaves the cached schema the stored one.
LEMMA StepCache == CacheCoherent /\ [Next]_vars => CacheCoherent'
<1> SUFFICES ASSUME CacheCoherent, [Next]_vars PROVE CacheCoherent'
  OBVIOUS
<1>1. ASSUME cache' = GetTable, catalog' = catalog PROVE CacheCoherent'
  BY <1>1 DEF CacheCoherent, GetTable
<1>2. ASSUME UNCHANGED <<cache, catalog>> PROVE CacheCoherent'
  BY <1>2 DEF CacheCoherent
<1>3. ASSUME cache' = catalog' \/ cache' = NoTable PROVE CacheCoherent'
  BY <1>3, Zenon DEF CacheCoherent
<1>4. CASE UNCHANGED vars
  BY <1>2, <1>4, Zenon DEF vars
<1>5. ASSUME NEW s \in Sessions, LookupTable(s) PROVE CacheCoherent'
  BY <1>1, <1>5, Zenon DEF LookupTable
<1>6. ASSUME NEW s \in Sessions, Begin(s) \/ CommitTransaction(s) \/ AbortTransaction(s) \/ AbortFails(s)
      PROVE  CacheCoherent'
  BY <1>2, <1>6, Zenon DEF Begin, CommitTransaction, AbortTransaction, AbortFails
<1>7. ASSUME NEW s \in Sessions, NEW p, NEW row, Write(s, p, row) PROVE CacheCoherent'
  BY <1>1, <1>7, Zenon DEF Write
<1>8. ASSUME NEW s \in Sessions, NEW p, NEW c, Insert(s, p) \/ Delete(s, p) \/ Update(s, p, c)
      PROVE  CacheCoherent'
  BY <1>7, <1>8, Zenon DEF Insert, Delete, Update
<1>9. ASSUME NEW c, CreateTable(<<Id, c>>) \/ DropTable PROVE CacheCoherent'
  BY <1>3, <1>9, Zenon DEF CreateTable, DropTable
<1>10. ASSUME NEW neu, NEW drop, StartAlter(neu, drop) PROVE CacheCoherent'
  BY <1>1, <1>10, Zenon DEF StartAlter, durable
<1>11. ASSUME NEW c, AlterTableAddColumn(c) \/ AlterTableDropColumn(c) PROVE CacheCoherent'
  BY <1>10, <1>11, Zenon DEF AlterTableAddColumn, AlterTableDropColumn
<1>12. CASE PutTable \/ Crash
  BY <1>3, <1>12, Zenon DEF PutTable, Crash
<1>13. CASE WriteList \/ DeleteHeads \/ DeleteVersions \/ AlterClose
  BY <1>2, <1>13, Zenon DEF WriteList, DeleteHeads, DeleteVersions, AlterClose
<1>14. CASE AlterInstall \/ AlterSetHead \/ AlterPersist \/ DdlFails
  BY <1>2, <1>14, Zenon DEF AlterInstall, AlterSetHead, AlterPersist, DdlFails, durable
<1> QED BY <1>4, <1>5, <1>6, <1>8, <1>9, <1>11, <1>12, <1>13, <1>14, Zenon
        DEF Next, HandlerStep, DdlStep

\* For every number of sessions, statements, crashes and engine errors, the cached
\* schema is the stored one: Catalog writes the engine first and the cache after it.
THEOREM CacheIsCatalog == Spec => []CacheCoherent
<1>1. Init => CacheCoherent
  BY DEF Init, CacheCoherent
<1> QED BY <1>1, StepCache, PTL DEF Spec
-----------------------------------------------------------------------------
\* Walks along the versions of a row.

\* A set of numbers has a least one (induction rests on this).
LEMMA Least == ASSUME NEW T, T \subseteq Nat, T # {} PROVE \E x \in T : \A y \in T : x <= y
<1> DEFINE R == {ss \in Nat \X Nat : ss[1] < ss[2]}
<1>1. IsWellFoundedOn(R, Nat)
  BY NatLessThanWellFounded, Zenon DEF OpToRel
<1>2. PICK x \in T : \A y \in T : ~(<<y, x>> \in R)
  <2> HIDE DEF R
  <2> QED BY <1>1, WFMin, Zenon
<1>3. \A y \in T : y < x => <<y, x>> \in R
  OBVIOUS
<1>4. \A y \in T : ~(y < x)
  BY <1>2, <1>3, Zenon
<1> QED BY <1>4

\* Induction over the naturals: a counterexample would have a least one.
LEMMA Induct == ASSUME NEW S, 0 \in S, \A n \in Nat : n \in S => n + 1 \in S PROVE Nat \subseteq S
<1> SUFFICES ASSUME Nat \ S # {} PROVE FALSE
  OBVIOUS
<1>1. PICK x \in Nat \ S : \A y \in Nat \ S : x <= y
  <2>1. Nat \ S \subseteq Nat
    OBVIOUS
  <2> QED BY <2>1, Least, Zenon
<1>2. x # 0 /\ x - 1 \in Nat /\ ~(x <= x - 1)
  BY <1>1
<1>3. x - 1 \in S
  BY <1>1, <1>2
<1> QED BY <1>1, <1>2, <1>3

\* At most n steps from id along prev to a member of stop, where ans has the answer.
IsWalk(f, stop, ans, prev) ==
    f = [n \in 0 .. MaxVid |-> [id \in 0 .. MaxVid |->
            IF id = 0 \/ n = 0 THEN 0
            ELSE IF id \in stop THEN ans[id] ELSE f[n - 1][prev[id]]]]

\* The function that the recursion of GetRow and NewestCommitted defines exists.
LEMMA Walks == ASSUME NEW stop, NEW ans, NEW prev PROVE \E f : IsWalk(f, stop, ans, prev)
<1> DEFINE Body(g, n) == [id \in 0 .. MaxVid |->
                             IF id = 0 \/ n = 0 THEN 0
                             ELSE IF id \in stop THEN ans[id] ELSE g[n - 1][prev[id]]]
           S == {k \in Nat : \E f : f = [n \in 0 .. k |-> Body(f, n)]}
<1>1. 0 \in S
  <2> DEFINE f == [n \in 0 .. 0 |-> [id \in 0 .. MaxVid |-> 0]]
  <2>1. f = [n \in 0 .. 0 |-> Body(f, n)]
    BY SMT
  <2> QED BY <2>1, Zenon
<1>2. ASSUME NEW k \in Nat, k \in S PROVE k + 1 \in S
  <2>1. PICK f : f = [n \in 0 .. k |-> Body(f, n)]
    BY <1>2, Zenon
  <2> DEFINE g == [n \in 0 .. k + 1 |-> IF n = k + 1 THEN Body(f, n) ELSE f[n]]
  <2>2. \A n \in 0 .. k : g[n] = f[n]
    BY SMT
  <2>3. \A n \in 0 .. k + 1 : g[n] = Body(g, n)
    <3> SUFFICES ASSUME NEW n \in 0 .. k + 1 PROVE g[n] = Body(g, n)
      BY Zenon
    <3>1. g[n] = Body(f, n)
      <4>1. CASE n = k + 1
        BY <4>1
      <4>2. CASE n \in 0 .. k
        <5>1. g[n] = f[n]
          BY <2>2, <4>2, Zenon
        <5>2. f[n] = Body(f, n)
          <6> HIDE DEF Body
          <6> QED BY <2>1, <4>2
        <5> QED BY <5>1, <5>2, Zenon
      <4> QED BY <4>1, <4>2, SMT
    <3>2. n # 0 => g[n - 1] = f[n - 1]
      BY <2>2, SMT
    <3> HIDE DEF g
    <3> QED BY <3>1, <3>2
  <2>4. g = [n \in 0 .. k + 1 |-> Body(g, n)]
    <3> HIDE DEF Body
    <3> QED BY <2>3, Zenon
  <2> HIDE DEF g
  <2> QED BY <2>4
<1>3. MaxVid \in S
  <2> HIDE DEF S
  <2>1. Nat \subseteq S
    BY <1>1, <1>2, Induct, Zenon
  <2> QED BY <2>1, DdlBounds
<1> QED BY <1>3, Zenon DEF IsWalk

\* NewestCommitted takes the steps of its definition.
LEMMA NewestWalk ==
    ASSUME NEW p
    PROVE  \E w : /\ \A n, id \in 0 .. MaxVid :
                        w[n][id] = IF id = 0 \/ n = 0 THEN 0
                                   ELSE IF is_provisional(ver[p][id]) THEN w[n - 1][ver[p][id].prev] ELSE id
                  /\ NewestCommitted(p) = w[MaxVid][head[p]]
<1> DEFINE F(w) == [n \in 0 .. MaxVid |-> [id \in 0 .. MaxVid |->
                           IF id = 0 \/ n = 0 THEN 0
                           ELSE IF is_provisional(ver[p][id]) THEN w[n - 1][ver[p][id].prev] ELSE id]]
           W == CHOOSE w : w = F(w)
<1>1. \E w : w = F(w)
  <2> DEFINE stop == {id \in 0 .. MaxVid : ~is_provisional(ver[p][id])}
             ans == [id \in 0 .. MaxVid |-> id]
             prev == [id \in 0 .. MaxVid |-> ver[p][id].prev]
  <2>1. PICK f : IsWalk(f, stop, ans, prev)
    BY Walks, Zenon
  <2>2. f = F(f)
    BY <2>1, Zenon DEF IsWalk
  <2> QED BY <2>2, Zenon
<1>2. W = F(W)
  <2> HIDE DEF F
  <2> QED BY <1>1, Zenon
<1>3. NewestCommitted(p) = W[MaxVid][head[p]]
  BY Zenon DEF NewestCommitted
<1>4. \A n, id \in 0 .. MaxVid : W[n][id] = F(W)[n][id]
  BY <1>2, Zenon
<1> HIDE DEF W
<1>5. \A n, id \in 0 .. MaxVid :
          W[n][id] = IF id = 0 \/ n = 0 THEN 0
                     ELSE IF is_provisional(ver[p][id]) THEN W[n - 1][ver[p][id].prev] ELSE id
  BY <1>4, Zenon
<1> QED BY <1>3, <1>5, Zenon

\* w[n] is what the walk of GetRow answers from each version with n steps left.
IsRowWalk(w, p, snapshot, tid) ==
    \A n, id \in 0 .. MaxVid :
        w[n][id] = IF id = 0 \/ n = 0 THEN 0
                   ELSE IF Answers(ver[p][id], snapshot, tid)
                   THEN IF ver[p][id].row = <<>> THEN 0 ELSE id
                   ELSE w[n - 1][ver[p][id].prev]

\* GetRow takes the steps of its definition.
LEMMA RowWalk ==
    ASSUME NEW p, NEW snapshot, NEW tid
    PROVE  \E w : IsRowWalk(w, p, snapshot, tid) /\ GetRow(p, snapshot, tid) = w[MaxVid][head[p]]
<1> DEFINE F(w) == [n \in 0 .. MaxVid |-> [id \in 0 .. MaxVid |->
                           IF id = 0 \/ n = 0 THEN 0
                           ELSE IF Answers(ver[p][id], snapshot, tid)
                           THEN IF ver[p][id].row = <<>> THEN 0 ELSE id
                           ELSE w[n - 1][ver[p][id].prev]]]
           W == CHOOSE w : w = F(w)
<1>1. \E w : w = F(w)
  <2> DEFINE stop == {id \in 0 .. MaxVid : Answers(ver[p][id], snapshot, tid)}
             ans == [id \in 0 .. MaxVid |-> IF ver[p][id].row = <<>> THEN 0 ELSE id]
             prev == [id \in 0 .. MaxVid |-> ver[p][id].prev]
  <2>1. PICK f : IsWalk(f, stop, ans, prev)
    BY Walks, Zenon
  <2>2. f = F(f)
    BY <2>1, Zenon DEF IsWalk
  <2> QED BY <2>2, Zenon
<1>2. W = F(W)
  <2> HIDE DEF F
  <2> QED BY <1>1, Zenon
<1>3. GetRow(p, snapshot, tid) = W[MaxVid][head[p]]
  BY Zenon DEF GetRow
<1>4. \A n, id \in 0 .. MaxVid : W[n][id] = F(W)[n][id]
  BY <1>2, Zenon
<1> HIDE DEF W
<1>5. IsRowWalk(W, p, snapshot, tid)
  BY <1>4, Zenon DEF IsRowWalk
<1> QED BY <1>3, <1>5, Zenon

\* The version that a read answers with holds a row and is one the walk may end at.
LEMMA RowAnswers ==
    ASSUME VersionsTyped, NEW p \in Pks, NEW snapshot, NEW tid, GetRow(p, snapshot, tid) # 0
    PROVE  LET v == GetRow(p, snapshot, tid)
           IN  v \in Vids /\ ver[p][v].row # <<>> /\ Answers(ver[p][v], snapshot, tid)
<1> DEFINE Good(v) == v = 0 \/ (v \in Vids /\ ver[p][v].row # <<>> /\ Answers(ver[p][v], snapshot, tid))
<1>0. PICK w : IsRowWalk(w, p, snapshot, tid) /\ GetRow(p, snapshot, tid) = w[MaxVid][head[p]]
  BY RowWalk, Zenon
<1>1. \A n, id \in 0 .. MaxVid :
         w[n][id] = IF id = 0 \/ n = 0 THEN 0
                    ELSE IF Answers(ver[p][id], snapshot, tid)
                    THEN IF ver[p][id].row = <<>> THEN 0 ELSE id
                    ELSE w[n - 1][ver[p][id].prev]
  BY <1>0, Zenon DEF IsRowWalk
<1>2. /\ \A v \in Vids : ver[p][v].prev \in 0 .. MaxVid
      /\ head[p] \in 0 .. MaxVid /\ MaxVid \in Nat
  BY DdlBounds, Zenon DEF VersionsTyped, IsVersion
<1> DEFINE S == {n \in Nat : n \in 0 .. MaxVid => \A id \in 0 .. MaxVid : Good(w[n][id])}
<1>3. 0 \in S
  BY <1>1, <1>2
<1>4. ASSUME NEW n \in Nat, n \in S PROVE n + 1 \in S
  <2> SUFFICES ASSUME n + 1 \in 0 .. MaxVid, NEW id \in 0 .. MaxVid PROVE Good(w[n + 1][id])
    OBVIOUS
  <2>1. n \in 0 .. MaxVid /\ (n + 1) - 1 = n /\ n + 1 # 0
    BY <1>2
  <2>2. CASE id = 0
    BY <1>1, <2>2
  <2>3. CASE id # 0 /\ Answers(ver[p][id], snapshot, tid)
    <3>1. id \in Vids
      BY <1>2, <2>3 DEF Vids
    <3>2. w[n + 1][id] = IF ver[p][id].row = <<>> THEN 0 ELSE id
      BY <1>1, <2>1, <2>3, Zenon
    <3> QED BY <2>3, <3>1, <3>2, Zenon
  <2>4. CASE id # 0 /\ ~Answers(ver[p][id], snapshot, tid)
    <3>1. id \in Vids
      BY <1>2, <2>4 DEF Vids
    <3>2. w[n + 1][id] = w[n][ver[p][id].prev]
      BY <1>1, <2>1, <2>4, ZenonT(30)
    <3>3. Good(w[n][ver[p][id].prev])
      BY <1>2, <1>4, <2>1, <3>1
    <3> QED BY <3>2, <3>3, Zenon
  <2> QED BY <2>2, <2>3, <2>4
<1>5. MaxVid \in S
  <2> HIDE DEF S
  <2>1. Nat \subseteq S
    BY <1>3, <1>4, Induct, Zenon
  <2> QED BY <1>2, <2>1
<1>6. Good(w[MaxVid][head[p]])
  BY <1>2, <1>5, SMT
<1> QED BY <1>0, <1>6, Zenon

\* With every head and the version under it as ChainInv says, NewestCommitted takes
\* at most two steps.
LEMMA NewestFound ==
    ASSUME VersionsTyped, ChainInv, NEW p \in Pks
    PROVE  NewestCommitted(p) = Newest(p)
<1>1. PICK w : /\ \A n, id \in 0 .. MaxVid :
                     w[n][id] = IF id = 0 \/ n = 0 THEN 0
                                ELSE IF is_provisional(ver[p][id]) THEN w[n - 1][ver[p][id].prev] ELSE id
               /\ NewestCommitted(p) = w[MaxVid][head[p]]
  BY NewestWalk, Zenon
<1>2. head[p] \in 0 .. MaxVid /\ MaxVid \in Nat
  BY DdlBounds DEF VersionsTyped
<1>3. CASE head[p] = 0
  BY <1>1, <1>2, <1>3 DEF Newest
<1>4. CASE head[p] # 0 /\ Committed(p, head[p])
  <2>1. MaxVid # 0
    BY <1>2, <1>4
  <2> QED BY <1>1, <1>2, <1>4, <2>1 DEF Newest, Committed, is_provisional
<1>5. CASE head[p] # 0 /\ ~Committed(p, head[p])
  <2>1. Newest(p) = ver[p][head[p]].prev
    BY <1>5 DEF Newest
  <2>2. MaxVid # 0 /\ MaxVid \in 0 .. MaxVid /\ MaxVid - 1 \in 0 .. MaxVid
    BY <1>2, <1>5
  <2>3. NewestCommitted(p) = w[MaxVid - 1][Newest(p)]
    <3>1. is_provisional(ver[p][head[p]])
      BY <1>5 DEF Committed, is_provisional
    <3>2. w[MaxVid][head[p]] = w[MaxVid - 1][ver[p][head[p]].prev]
      BY <1>1, <1>2, <1>5, <2>2, <3>1, Zenon
    <3> QED BY <1>1, <2>1, <3>2, Zenon
  <2>4. CASE Newest(p) = 0
    <3>1. 0 \in 0 .. MaxVid
      BY <1>2
    <3> QED BY <1>1, <2>2, <2>3, <2>4, <3>1, Zenon
  <2>5. CASE Newest(p) # 0
    <3>1. Newest(p) \in Vids /\ Committed(p, Newest(p))
      BY <2>5 DEF ChainInv
    <3>2. Newest(p) # head[p]
      BY <1>5, <3>1, Zenon
    <3>3. MaxVid - 1 # 0 /\ Newest(p) \in 0 .. MaxVid
      BY <1>2, <1>5, <3>1, <3>2 DEF Vids
    <3> QED BY <1>1, <2>2, <2>3, <2>5, <3>1, <3>3, Zenon DEF Committed, is_provisional
  <2> QED BY <2>4, <2>5
<1> QED BY <1>3, <1>4, <1>5
-----------------------------------------------------------------------------
\* Schemas: sessions and the plan of an ALTER.

\* DROP COLUMN leaves one column less.
LEMMA Removed ==
    ASSUME NEW S, NEW q \in Seq(S), NEW i \in 1 .. Len(q)
    PROVE  RemoveAt(q, i) \in Seq(S) /\ Len(RemoveAt(q, i)) = Len(q) - 1
<1>1. SubSeq(q, 1, i - 1) \in Seq(S) /\ Len(SubSeq(q, 1, i - 1)) = i - 1
  OBVIOUS
<1>2. SubSeq(q, i + 1, Len(q)) \in Seq(S) /\ Len(SubSeq(q, i + 1, Len(q))) = Len(q) - i
  OBVIOUS
<1>3. \A x, y \in Seq(S) : x \o y \in Seq(S) /\ Len(x \o y) = Len(x) + Len(y)
  OBVIOUS
<1>4. /\ RemoveAt(q, i) \in Seq(S)
      /\ Len(RemoveAt(q, i)) = Len(SubSeq(q, 1, i - 1)) + Len(SubSeq(q, i + 1, Len(q)))
  BY <1>1, <1>2, <1>3, Zenon DEF RemoveAt
<1>5. (i - 1) + (Len(q) - i) = Len(q) - 1
  OBVIOUS
<1> QED BY <1>1, <1>2, <1>4, <1>5, Zenon

\* ADD COLUMN adds one at the end.
LEMMA Appended ==
    ASSUME NEW S, NEW q \in Seq(S), NEW c \in S
    PROVE  /\ Append(q, c) \in Seq(S) /\ Len(Append(q, c)) = Len(q) + 1
           /\ Append(q, c)[Len(Append(q, c))] = c
OBVIOUS

\* Catalog::GetTable answers the stored schema.
LEMMA TableIsCatalog == ASSUME CacheCoherent PROVE GetTable = catalog
BY DEF CacheCoherent, GetTable

\* What sessions may do to what they remember of the schema.
SchemasKept ==
    \A s \in Sessions :
        \/ sess'[s].schema = sess[s].schema /\ sess'[s].seen = sess[s].seen
        \/ sess'[s] = NoSession
        \/ sess'[s].schema = catalog /\ sess'[s].seen = changes

\* A step that changes no stored schema keeps SchemaInv.
LEMMA SchemaFrame ==
    ASSUME SchemaInv, UNCHANGED <<catalog, changes, incarnation>>, CacheCoherent', SchemasKept,
           op'.pc \in {"idle", "list"} \/ Altering' \/ Dropping', AlterPlan'
    PROVE  SchemaInv'
<1>1. changes \in Nat /\ catalog \in Seq(Col) /\ SchemaSeen
  BY DEF SchemaInv
<1>2. SchemaSeen'
  <2> SUFFICES ASSUME NEW s \in Sessions
               PROVE  /\ sess'[s].seen \in Nat /\ sess'[s].seen <= changes
                      /\ sess'[s].schema \in Seq(Col)
                      /\ sess'[s].schema # NoTable /\ sess'[s].seen = changes => sess'[s].schema = catalog
                      /\ sess'[s].schema # NoTable /\ sess'[s].seen + 1 = changes =>
                            catalog = NoTable \/ Len(catalog) # Len(sess'[s].schema)
    BY DEF SchemaSeen
  <2>1. CASE sess'[s].schema = sess[s].schema /\ sess'[s].seen = sess[s].seen
    BY <1>1, <2>1 DEF SchemaSeen
  <2>2. CASE sess'[s] = NoSession
    <3>1. sess'[s].schema = NoTable /\ sess'[s].seen = 0 /\ NoTable \in Seq(Col)
      BY <2>2 DEF NoSession, NoTable
    <3> QED BY <1>1, <3>1
  <2>3. CASE sess'[s].schema = catalog /\ sess'[s].seen = changes
    BY <1>1, <2>3
  <2> QED BY <2>1, <2>2, <2>3 DEF SchemasKept
<1> QED BY <1>2 DEF SchemaInv

\* The schema changes: a session that was up to date is now one change behind.
LEMMA SchemaChange ==
    ASSUME SchemaInv, Changed, catalog' \in Seq(Col), sess' = sess, CacheCoherent',
           incarnation' \in Nat, op'.pc = "idle" \/ Dropping',
           catalog = NoTable \/ catalog' = NoTable \/ Len(catalog') # Len(catalog)
    PROVE  SchemaInv'
<1>1. changes \in Nat /\ changes' = changes + 1 /\ SchemaSeen
  BY DEF SchemaInv, Changed
<1>2. SchemaSeen'
  <2> SUFFICES ASSUME NEW s \in Sessions
               PROVE  /\ sess[s].seen \in Nat /\ sess[s].seen <= changes'
                      /\ sess[s].schema \in Seq(Col)
                      /\ sess[s].schema # NoTable /\ sess[s].seen = changes' => sess[s].schema = catalog'
                      /\ sess[s].schema # NoTable /\ sess[s].seen + 1 = changes' =>
                            catalog' = NoTable \/ Len(catalog') # Len(sess[s].schema)
    BY DEF SchemaSeen
  <2>1. sess[s].seen \in Nat /\ sess[s].seen <= changes /\ sess[s].schema \in Seq(Col)
    BY <1>1 DEF SchemaSeen
  <2>2. sess[s].schema # NoTable /\ sess[s].seen = changes => sess[s].schema = catalog
    BY <1>1 DEF SchemaSeen
  <2> QED BY <1>1, <2>1, <2>2
<1>3. AlterPlan' /\ (op'.pc \in {"idle", "list"} \/ Altering' \/ Dropping')
  BY DEF AlterPlan, Altering, Dropping
<1> QED BY <1>1, <1>2, <1>3 DEF SchemaInv

\* Fields of the records that EXCEPT does not name.
LEMMA SessionKeeps ==
    ASSUME NEW x, IsSession(x), NEW a, NEW b
    PROVE  /\ [x EXCEPT !.tid = a, !.start = b].schema = x.schema
           /\ [x EXCEPT !.tid = a, !.start = b].seen = x.seen
           /\ [x EXCEPT !.pk = a, !.vid = b].schema = x.schema
           /\ [x EXCEPT !.pk = a, !.vid = b].seen = x.seen
           /\ [x EXCEPT !.listed = a].schema = x.schema
           /\ [x EXCEPT !.listed = a].seen = x.seen
           /\ [x EXCEPT !.schema = a, !.seen = b].schema = a
           /\ [x EXCEPT !.schema = a, !.seen = b].seen = b
BY DEF IsSession

\* What a handler that moves on keeps of its record.
LEMMA OpKeeps ==
    ASSUME NEW x, IsOp(x), NEW a, NEW b
    PROVE  /\ [x EXCEPT !.pc = a].pc = a /\ [x EXCEPT !.pc = a].pks = x.pks
           /\ [x EXCEPT !.pc = a].old = x.old /\ [x EXCEPT !.pc = a].neu = x.neu
           /\ [x EXCEPT !.pc = a].drop = x.drop /\ [x EXCEPT !.pc = a].ts = x.ts
           /\ [x EXCEPT !.pks = b].pc = x.pc /\ [x EXCEPT !.pks = b].pks = b
           /\ [x EXCEPT !.pks = b].old = x.old /\ [x EXCEPT !.pks = b].neu = x.neu
           /\ [x EXCEPT !.pks = b].drop = x.drop /\ [x EXCEPT !.pks = b].ts = x.ts
           /\ [x EXCEPT !.pc = a, !.pks = b].pc = a /\ [x EXCEPT !.pc = a, !.pks = b].pks = b
           /\ [x EXCEPT !.pc = a, !.pks = b].old = x.old /\ [x EXCEPT !.pc = a, !.pks = b].neu = x.neu
           /\ [x EXCEPT !.pc = a, !.pks = b].drop = x.drop /\ [x EXCEPT !.pc = a, !.pks = b].ts = x.ts
<1>1. \A y : IsOp(y) => /\ [y EXCEPT !.pc = a].pc = a /\ [y EXCEPT !.pc = a].pks = y.pks
                        /\ [y EXCEPT !.pc = a].old = y.old /\ [y EXCEPT !.pc = a].neu = y.neu
                        /\ [y EXCEPT !.pc = a].drop = y.drop /\ [y EXCEPT !.pc = a].ts = y.ts
  BY DEF IsOp
<1>2. \A y : IsOp(y) => /\ [y EXCEPT !.pks = b].pc = y.pc /\ [y EXCEPT !.pks = b].pks = b
                        /\ [y EXCEPT !.pks = b].old = y.old /\ [y EXCEPT !.pks = b].neu = y.neu
                        /\ [y EXCEPT !.pks = b].drop = y.drop /\ [y EXCEPT !.pks = b].ts = y.ts
  BY DEF IsOp
<1>3. [x EXCEPT !.pc = a, !.pks = b] = [[x EXCEPT !.pc = a] EXCEPT !.pks = b]
  OBVIOUS
<1>4. IsOp([x EXCEPT !.pc = a])
  BY OpRecord, Zenon
<1> QED BY <1>1, <1>2, <1>3, <1>4, Zenon

\* The steps of a running ALTER keep its plan.
LEMMA PlanKept ==
    ASSUME SchemaInv, Altering', Altering, catalog' = catalog,
           op'.old = op.old, op'.neu = op.neu, op'.drop = op.drop, op'.pks \subseteq op.pks
    PROVE  AlterPlan'
<1>1. AlterPlan
  BY DEF SchemaInv
<1>2. NewRow(op.old)' = NewRow(op.old)
  BY DEF NewRow
<1> QED BY <1>1, <1>2 DEF AlterPlan

\* Outside of an ALTER there is no plan to keep.
LEMMA PlanVoid == ASSUME ~Altering' PROVE AlterPlan'
BY DEF AlterPlan

\* The steps of a session keep what it knows of the schema.
LEMMA SessionSchemas ==
    ASSUME SchemaInv, GateInv, NEW s \in Sessions,
           LookupTable(s) \/ Begin(s) \/ CommitTransaction(s) \/ AbortTransaction(s) \/ AbortFails(s),
           CacheCoherent'
    PROVE  SchemaInv'
<1>1. /\ op' = op /\ op = Idle /\ UNCHANGED <<catalog, changes, incarnation>>
  BY Zenon DEF LookupTable, Begin, CommitTransaction, AbortTransaction, AbortFails, history
<1>2. IsSession(sess[s]) /\ sess = [r \in Sessions |-> sess[r]]
  BY DEF GateInv, GateType
<1>3. SchemasKept
  <2>1. CASE LookupTable(s)
    <3> DEFINE f == [sess[s] EXCEPT !.schema = GetTable, !.seen = changes]
    <3>1. sess' = [sess EXCEPT ![s] = f]
      BY <2>1, ZenonT(30) DEF LookupTable
    <3>2. f.schema = catalog /\ f.seen = changes
      BY <1>2, SessionKeeps, TableIsCatalog DEF SchemaInv
    <3> HIDE DEF f
    <3> QED BY <1>2, <3>1, <3>2 DEF SchemasKept
  <2>2. CASE Begin(s)
    <3> DEFINE f == [sess[s] EXCEPT !.tid = next.txn, !.start = next.ts - 1]
    <3>1. sess' = [sess EXCEPT ![s] = f]
      BY <2>2, ZenonT(30) DEF Begin
    <3>2. f.schema = sess[s].schema /\ f.seen = sess[s].seen
      BY <1>2, SessionKeeps
    <3> HIDE DEF f
    <3> QED BY <1>2, <3>1, <3>2 DEF SchemasKept
  <2>3. CASE CommitTransaction(s) \/ AbortTransaction(s) \/ AbortFails(s)
    <3>1. sess' = [sess EXCEPT ![s] = NoSession]
      BY <2>3, Zenon DEF CommitTransaction, AbortTransaction, AbortFails
    <3> QED BY <1>2, <3>1 DEF SchemasKept
  <2> QED BY <2>1, <2>2, <2>3
<1>4. op'.pc = "idle"
  BY <1>1 DEF Idle
<1>5. AlterPlan'
  BY <1>4 DEF AlterPlan, Altering
<1> QED BY <1>1, <1>3, <1>4, <1>5, SchemaFrame

\* A write keeps what sessions know of the schema.
LEMMA WriteSchemas ==
    ASSUME SchemaInv, GateInv, NEW s \in Sessions, NEW p, NEW row, Write(s, p, row), CacheCoherent'
    PROVE  SchemaInv'
<1> DEFINE f == [sess[s] EXCEPT !.pk = p, !.vid = next.vid]
<1>1. /\ sess' = [sess EXCEPT ![s] = f] /\ op' = [Idle EXCEPT !.pc = "list", !.s = s]
      /\ UNCHANGED <<catalog, changes, incarnation>>
  BY ZenonT(30) DEF Write
<1>2. IsSession(sess[s]) /\ sess = [r \in Sessions |-> sess[r]]
  BY DEF GateInv, GateType
<1>3. f.schema = sess[s].schema /\ f.seen = sess[s].seen
  BY <1>2, SessionKeeps
<1> HIDE DEF f
<1>4. SchemasKept
  BY <1>1, <1>2, <1>3 DEF SchemasKept
<1>5. op'.pc = "list"
  BY <1>1 DEF Idle
<1>6. AlterPlan'
  BY <1>5 DEF AlterPlan, Altering
<1> QED BY <1>1, <1>4, <1>5, <1>6, SchemaFrame

\* CREATE changes the schema at once, ALTER plans to.
LEMMA StatementSchemas ==
    ASSUME SchemaInv, NEW c \in Cols, CacheCoherent',
           CreateTable(<<Id, c>>) \/ AlterTableAddColumn(c) \/ AlterTableDropColumn(c)
    PROVE  SchemaInv'
<1>0. /\ GetTable = catalog /\ catalog \in Seq(Col) /\ incarnation \in Nat /\ c \in Col
      /\ changes \in Nat
  BY TableIsCatalog DEF SchemaInv, Col
<1>1. CASE CreateTable(<<Id, c>>)
  <2>1. /\ catalog = NoTable /\ catalog' = <<Id, c>> /\ op' = op /\ op = Idle /\ sess' = sess
        /\ incarnation' = incarnation + 1 /\ Changed
    BY <1>0, <1>1, Zenon DEF CreateTable, Gate
  <2>2. <<Id, c>> \in Seq(Col) /\ op'.pc = "idle" /\ incarnation' \in Nat
    BY <1>0, <2>1 DEF Col, Idle
  <2> QED BY <2>1, <2>2, SchemaChange
<1>3. ASSUME NEW neu \in Seq(Col), NEW drop, StartAlter(neu, drop), Len(neu) # Len(catalog),
             neu = (IF drop = 0 THEN Append(catalog, neu[Len(neu)]) ELSE RemoveAt(catalog, drop))
      PROVE  SchemaInv'
  <2>1. /\ UNCHANGED <<catalog, changes, incarnation, sess>> /\ catalog # NoTable
        /\ op' = [Idle EXCEPT !.pc = "close", !.old = catalog, !.neu = neu, !.drop = drop,
                              !.pks = {p \in Pks : head[p] # 0}, !.ts = next.ts]
    BY <1>0, <1>3, Zenon DEF StartAlter, durable, history
  <2>2. /\ op'.pc = "close" /\ op'.old = catalog /\ op'.neu = neu /\ op'.drop = drop
        /\ op'.pks \subseteq Pks
    BY <2>1 DEF Idle
  <2>3. NewRow(op.old)' = neu
    BY <1>3, <2>2 DEF NewRow
  <2>4. AlterPlan' /\ Altering'
    BY <1>0, <2>1, <2>2, <2>3, <1>3 DEF AlterPlan, Altering
  <2>5. SchemasKept
    BY <2>1 DEF SchemasKept
  <2> QED BY <2>1, <2>4, <2>5, SchemaFrame
<1>4. CASE AlterTableAddColumn(c)
  <2>1. StartAlter(Append(catalog, c), 0)
    BY <1>0, <1>4 DEF AlterTableAddColumn
  <2>2. /\ Append(catalog, c) \in Seq(Col) /\ Len(Append(catalog, c)) # Len(catalog)
        /\ Append(catalog, c)[Len(Append(catalog, c))] = c
    BY <1>0
  <2> QED BY <1>3, <2>1, <2>2, Zenon
<1>5. CASE AlterTableDropColumn(c)
  <2>1. PICK i \in 1 .. Len(catalog) : StartAlter(RemoveAt(catalog, i), i)
    BY <1>0, <1>5 DEF AlterTableDropColumn
  <2>2. RemoveAt(catalog, i) \in Seq(Col) /\ Len(RemoveAt(catalog, i)) = Len(catalog) - 1
    BY <1>0, Removed
  <2>3. Len(RemoveAt(catalog, i)) # Len(catalog) /\ i # 0
    BY <1>0, <2>2
  <2> QED BY <1>3, <2>1, <2>2, <2>3, Zenon
<1> QED BY <1>1, <1>4, <1>5

\* Handlers at work, failures and crashes keep SchemaInv.
LEMMA HandlerSchemas ==
    ASSUME SchemaInv, GateInv, HandlerStep \/ DdlFails \/ Crash, CacheCoherent'
    PROVE  SchemaInv'
<1>1. IsOp(op) /\ sess = [r \in Sessions |-> sess[r]] /\ \A r \in Sessions : IsSession(sess[r])
  BY DEF GateInv, GateType
<1>2. CASE WriteList
  <2>1. /\ sess' = [sess EXCEPT ![op.s].listed = TRUE] /\ op' = Idle
        /\ UNCHANGED <<catalog, changes, incarnation>>
    BY <1>2 DEF WriteList, history
  <2>2. SchemasKept
    <3>1. ASSUME NEW r \in Sessions
          PROVE  sess'[r].schema = sess[r].schema /\ sess'[r].seen = sess[r].seen
      <4>1. sess'[r] = IF r = op.s THEN [sess[r] EXCEPT !.listed = TRUE] ELSE sess[r]
        BY <1>1, <2>1, Zenon
      <4>2. /\ [sess[r] EXCEPT !.listed = TRUE].schema = sess[r].schema
            /\ [sess[r] EXCEPT !.listed = TRUE].seen = sess[r].seen
        BY <1>1, SessionKeeps, Zenon
      <4> QED BY <4>1, <4>2, Zenon
    <3> QED BY <3>1 DEF SchemasKept
  <2>3. op'.pc = "idle"
    BY <2>1 DEF Idle
  <2> QED BY <2>1, <2>2, <2>3, SchemaFrame, PlanVoid DEF Altering
<1>3. CASE PutTable
  <2>1. /\ catalog' = op.neu /\ op' = Idle /\ Changed /\ sess' = sess /\ incarnation' = incarnation
        /\ op.pc = "put_table"
    BY <1>3 DEF PutTable
  <2>2. op.neu \in Seq(Col) /\ op.old = catalog /\ Len(op.neu) # Len(op.old) /\ incarnation \in Nat
    BY <2>1 DEF SchemaInv, AlterPlan, Altering
  <2>3. op'.pc = "idle"
    BY <2>1 DEF Idle
  <2> QED BY <2>1, <2>2, <2>3, SchemaChange
<1>4. CASE DdlFails \/ Crash
  <2>1. /\ op' = Idle /\ UNCHANGED <<catalog, changes, incarnation>>
        /\ sess' = sess \/ sess' = [s \in Sessions |-> NoSession]
    BY <1>4, Zenon DEF DdlFails, Crash, durable
  <2>2. SchemasKept
    BY <2>1 DEF SchemasKept
  <2>3. op'.pc = "idle"
    BY <2>1 DEF Idle
  <2> QED BY <2>1, <2>2, <2>3, SchemaFrame, PlanVoid DEF Altering
<1>5. ASSUME UNCHANGED <<catalog, changes, incarnation, sess>>,
             \/ op' = op \/ op' = Idle
             \/ \E a :
                   /\ op' = [op EXCEPT !.pc = a]
                   /\ \/ Dropping /\ a = "drop_versions"
                      \/ Altering /\ a \in {"persist_ts", "persist_vid", "put_table", "install", "head"}
             \/ Altering /\ op' = [op EXCEPT !.pks = Others]
             \/ Altering /\ op' = [op EXCEPT !.pc = "close", !.pks = Others]
      PROVE  SchemaInv'
  <2>1. SchemasKept
    BY <1>5 DEF SchemasKept
  <2>2. CASE op' = op
    <3>1. op'.pc \in {"idle", "list"} \/ Altering' \/ Dropping'
      BY <2>2 DEF SchemaInv, Altering, Dropping
    <3>2. AlterPlan'
      BY <1>5, <2>2 DEF SchemaInv, AlterPlan, Altering, NewRow
    <3> QED BY <1>5, <2>1, <3>1, <3>2, SchemaFrame
  <2>3. CASE op' = Idle
    <3>1. op'.pc = "idle"
      BY <2>3 DEF Idle
    <3> QED BY <1>5, <2>1, <3>1, SchemaFrame, PlanVoid DEF Altering
  <2>4. ASSUME NEW a, op' = [op EXCEPT !.pc = a], Dropping, a = "drop_versions" PROVE SchemaInv'
    <3>1. op'.pc = "drop_versions"
      BY <1>1, <2>4, OpKeeps
    <3> QED BY <1>5, <2>1, <3>1, SchemaFrame, PlanVoid DEF Altering, Dropping
  <2>5. ASSUME NEW a, op' = [op EXCEPT !.pc = a], Altering,
               a \in {"persist_ts", "persist_vid", "put_table", "install", "head"}
        PROVE  SchemaInv'
    <3>1. op'.pc = a /\ op'.old = op.old /\ op'.neu = op.neu /\ op'.drop = op.drop /\ op'.pks = op.pks
      BY <1>1, <2>5, OpKeeps
    <3>2. Altering'
      BY <2>5, <3>1 DEF Altering
    <3>3. AlterPlan'
      BY <1>5, <2>5, <3>1, <3>2, PlanKept
    <3> QED BY <1>5, <2>1, <3>2, <3>3, SchemaFrame
  <2>6. CASE Altering /\ op' = [op EXCEPT !.pks = Others]
    <3>1. op'.pc = op.pc /\ op'.old = op.old /\ op'.neu = op.neu /\ op'.drop = op.drop /\ op'.pks = Others
      BY <1>1, <2>6, OpKeeps
    <3>2. Altering' /\ Others \subseteq op.pks
      BY <2>6, <3>1 DEF Altering, Others
    <3>3. AlterPlan'
      BY <1>5, <2>6, <3>1, <3>2, PlanKept
    <3> QED BY <1>5, <2>1, <3>2, <3>3, SchemaFrame
  <2>7. CASE Altering /\ op' = [op EXCEPT !.pc = "close", !.pks = Others]
    <3>1. op'.pc = "close" /\ op'.old = op.old /\ op'.neu = op.neu /\ op'.drop = op.drop /\ op'.pks = Others
      BY <1>1, <2>7, OpKeeps
    <3>2. Altering' /\ Others \subseteq op.pks
      BY <2>7, <3>1 DEF Altering, Others
    <3>3. AlterPlan'
      BY <1>5, <2>7, <3>1, <3>2, PlanKept
    <3> QED BY <1>5, <2>1, <3>2, <3>3, SchemaFrame
  <2> QED BY <1>5, <2>2, <2>3, <2>4, <2>5, <2>6, <2>7, Zenon
<1>6. CASE DeleteHeads \/ DeleteVersions
  BY <1>5, <1>6 DEF DeleteHeads, DeleteVersions, Dropping, history
<1>7. CASE AlterClose
  BY <1>5, <1>7, Zenon DEF AlterClose, Altering
<1>8. CASE AlterInstall \/ AlterSetHead \/ AlterPersist
  BY <1>5, <1>8, Zenon DEF AlterInstall, AlterSetHead, AlterPersist, Altering, history
<1> QED BY <1>2, <1>3, <1>4, <1>6, <1>7, <1>8, Zenon DEF HandlerStep, DdlStep

\* Every step keeps SchemaInv.
LEMMA StepSchema == SchemaInv /\ GateInv /\ [Next]_vars => SchemaInv'
<1> SUFFICES ASSUME SchemaInv, GateInv, [Next]_vars PROVE SchemaInv'
  OBVIOUS
<1>1. CacheCoherent'
  BY StepCache, Zenon DEF SchemaInv
<1>2. CASE UNCHANGED vars
  BY <1>2 DEF vars, SchemaInv, SchemaSeen, AlterPlan, Altering, Dropping, NewRow, CacheCoherent
<1>3. ASSUME NEW s \in Sessions, NEW p, NEW c, Insert(s, p) \/ Delete(s, p) \/ Update(s, p, c)
      PROVE  SchemaInv'
  BY <1>1, <1>3, WriteSchemas, Zenon DEF Insert, Delete, Update
<1>4. ASSUME NEW s \in Sessions, \/ LookupTable(s) \/ Begin(s) \/ CommitTransaction(s)
                                \/ AbortTransaction(s) \/ AbortFails(s)
      PROVE  SchemaInv'
  BY <1>1, <1>4, SessionSchemas, Zenon
<1>5. ASSUME NEW c \in Cols, \/ CreateTable(<<Id, c>>) \/ AlterTableAddColumn(c)
                            \/ AlterTableDropColumn(c)
      PROVE  SchemaInv'
  BY <1>1, <1>5, StatementSchemas, Zenon
<1>6. CASE DropTable
  <2>1. /\ catalog' = NoTable /\ op' = [Idle EXCEPT !.pc = "drop_heads"] /\ sess' = sess
        /\ incarnation' = incarnation /\ Changed /\ incarnation \in Nat
    BY <1>6, Zenon DEF DropTable, SchemaInv
  <2>2. NoTable \in Seq(Col) /\ Dropping'
    BY <2>1 DEF NoTable, Idle, Dropping
  <2> QED BY <1>1, <2>1, <2>2, SchemaChange
<1>7. CASE HandlerStep \/ DdlFails \/ Crash
  BY <1>1, <1>7, HandlerSchemas, Zenon
<1> QED BY <1>2, <1>3, <1>4, <1>5, <1>6, <1>7, Zenon DEF Next

-----------------------------------------------------------------------------
\* The data of the table, as long as no DDL statement was cut short.

Quiet == op.pc \in {"idle", "list"}

\* The version that is not there has the shape of one.
LEMMA AbsentIsVersion == IsVersion(Absent) /\ Absent.start = 0 /\ Absent.row = <<>> /\ Absent.by = 0
BY DdlBounds DEF IsVersion, Absent

\* Replacing one value of a function leaves its domain and its other values.
IsFun(f, S) == f = [u \in S |-> f[u]]
Puts(f, g, S, v, r) == v \in S /\ IsFun(f, S) /\ g = [f EXCEPT ![v] = r]
IsPut(f, g, S, v, r) == IsFun(g, S) /\ g[v] = r /\ \A u \in S : u # v => g[u] = f[u]

\* One value of a function is replaced and no other.
LEMMA Replaced ==
    ASSUME NEW f, NEW g, NEW S, NEW v, NEW r, Puts(f, g, S, v, r)
    PROVE  IsPut(f, g, S, v, r)
<1>1. DOMAIN f = S
  BY Zenon DEF IsFun, Puts
<1>2. g = [u \in S |-> IF u = v THEN r ELSE f[u]]
  BY <1>1, Zenon DEF Puts
<1>3. \A u \in S : g[u] = IF u = v THEN r ELSE f[u]
  BY <1>2, Zenon
<1>4. \A h : h = [u \in S |-> IF u = v THEN r ELSE f[u]] => h = [u \in S |-> h[u]]
  BY Zenon
<1> QED BY <1>2, <1>3, <1>4, Zenon DEF IsFun, IsPut, Puts

\* A table of versions, and what is left of it when one version is put.
IsTable(f) ==
    /\ IsFun(f, Pks) /\ \A q \in Pks : IsFun(f[q], Vids)
    /\ \A q \in Pks, u \in Vids : IsVersion(f[q][u])
CellPuts(f, g, p, v, r) ==
    p \in Pks /\ v \in Vids /\ IsVersion(r) /\ IsTable(f) /\ g = [f EXCEPT ![p][v] = r]
CellIsPut(f, g, p, v, r) ==
    /\ IsTable(g) /\ g[p][v] = r
    /\ \A q \in Pks, u \in Vids : q # p \/ u # v => g[q][u] = f[q][u]

\* One version of a row is replaced and no other.
LEMMA CellPut ==
    ASSUME NEW f, NEW g, NEW p, NEW v, NEW r, CellPuts(f, g, p, v, r)
    PROVE  CellIsPut(f, g, p, v, r)
<1> USE DEF CellPuts
<1>1. /\ IsFun(f, Pks) /\ \A q \in Pks : IsFun(f[q], Vids)
      /\ \A q \in Pks, u \in Vids : IsVersion(f[q][u])
  BY DEF IsTable
<1>2. Puts(f, g, Pks, p, [f[p] EXCEPT ![v] = r])
  BY <1>1, Zenon DEF Puts
<1>3. IsPut(f, g, Pks, p, [f[p] EXCEPT ![v] = r])
  BY <1>2, Replaced, Zenon
<1>4. Puts(f[p], g[p], Vids, v, r)
  BY <1>1, <1>3, Zenon DEF Puts, IsPut
<1>5. IsPut(f[p], g[p], Vids, v, r)
  BY <1>4, Replaced, Zenon
<1>6. \A q \in Pks : q # p => g[q] = f[q]
  BY <1>3, Zenon DEF IsPut
<1>7. IsFun(g, Pks) /\ \A q \in Pks : IsFun(g[q], Vids)
  BY <1>1, <1>3, <1>5, <1>6, Zenon DEF IsPut
<1>8. g[p][v] = r /\ \A q \in Pks, u \in Vids : q # p \/ u # v => g[q][u] = f[q][u]
  BY <1>5, <1>6, Zenon DEF IsPut
<1>9. \A q \in Pks, u \in Vids : IsVersion(g[q][u])
  BY <1>1, <1>8, Zenon
<1> QED BY <1>7, <1>8, <1>9, Zenon DEF CellIsPut, IsTable

\* The store is a table of versions when it is well typed.
LEMMA TableTyped == VersionsTyped <=> IsTable(ver) /\ head \in [Pks -> 0 .. MaxVid]
<1>1. ASSUME VersionsTyped PROVE IsFun(ver, Pks) /\ \A q \in Pks : IsFun(ver[q], Vids)
  <2>1. ver = [p \in Pks |-> [v \in Vids |-> ver[p][v]]]
    BY <1>1 DEF VersionsTyped
  <2>2. \A q \in Pks : ver[q] = [v \in Vids |-> ver[q][v]]
    BY <2>1, Zenon
  <2> QED BY <2>1, <2>2, Zenon DEF IsFun
<1>2. ASSUME IsFun(ver, Pks), \A q \in Pks : IsFun(ver[q], Vids)
      PROVE  ver = [p \in Pks |-> [v \in Vids |-> ver[p][v]]]
  BY <1>2, Zenon DEF IsFun
<1> QED BY <1>1, <1>2, Zenon DEF VersionsTyped, IsTable

\* The same after a step.
LEMMA TableTypedNext ==
    ASSUME IsTable(ver'), head' \in [Pks -> 0 .. MaxVid] PROVE VersionsTyped'
<1>1. ver' = [p \in Pks |-> [v \in Vids |-> ver'[p][v]]]
  BY Zenon DEF IsTable, IsFun
<1> QED BY <1>1, Zenon DEF VersionsTyped, IsTable, IsVersion

\* Putting one version leaves all others.
PutVersion(p, v, r) ==
    p \in Pks /\ v \in Vids /\ IsVersion(r) /\ ver' = [ver EXCEPT ![p][v] = r]
OnlyPut(p, v, r) ==
    ver'[p][v] = r /\ \A q \in Pks, u \in Vids : q # p \/ u # v => ver'[q][u] = ver[q][u]

\* Writing a version changes this one only.
LEMMA VersionPut ==
    ASSUME VersionsTyped, NEW p, NEW v, NEW r, PutVersion(p, v, r), head' \in [Pks -> 0 .. MaxVid]
    PROVE  VersionsTyped' /\ OnlyPut(p, v, r)
<1>1. CellPuts(ver, ver', p, v, r)
  BY TableTyped, Zenon DEF PutVersion, CellPuts
<1>2. CellIsPut(ver, ver', p, v, r)
  BY <1>1, CellPut, Zenon
<1> QED BY <1>2, TableTypedNext, Zenon DEF CellIsPut, OnlyPut

\* Writing a head changes this one only.
LEMMA HeadPut ==
    ASSUME VersionsTyped, NEW p \in Pks, NEW v \in 0 .. MaxVid, head' = [head EXCEPT ![p] = v]
    PROVE  /\ head' \in [Pks -> 0 .. MaxVid]
           /\ head'[p] = v /\ \A q \in Pks : q # p => head'[q] = head[q]
BY DEF VersionsTyped

\* What a walk starts from.
LEMMA NewestIn ==
    ASSUME VersionsTyped, NEW p \in Pks
    PROVE  Newest(p) \in 0 .. MaxVid /\ (Newest(p) # 0 => Newest(p) \in Vids)
<1>1. head[p] \in 0 .. MaxVid /\ (head[p] # 0 => head[p] \in Vids) /\ MaxVid \in Nat
  BY DdlBounds DEF VersionsTyped, Vids
<1>2. Newest(p) \in 0 .. MaxVid
  BY <1>1, Zenon DEF Newest, VersionsTyped, IsVersion
<1> QED BY <1>1, <1>2 DEF Vids

SameTxn(x, y) == x.tid = y.tid /\ x.start = y.start /\ x.pk = y.pk /\ x.vid = y.vid

\* Every session has the transaction that it had, or none.
SessionsKept ==
    \A r \in Sessions :
        \/ sess'[r].tid = 0 /\ sess'[r].vid = 0 /\ ~sess'[r].listed
        \/ /\ sess'[r].tid # 0 /\ SameTxn(sess'[r], sess[r])
           /\ sess'[r].listed => sess[r].listed \/ sess[r].vid # 0

\* A transaction that is not finished after a session ended one was there before.
LEMMA KeptTxns ==
    ASSUME SessionsKept, lost' \subseteq Unfinished, OwnerInv
    PROVE  /\ \A x \in Unfinished' : \E y \in Unfinished : SameTxn(x, y) /\ (x.listed => y.vid # 0)
           /\ \A r \in Live' : r \in Live /\ SameTxn(sess'[r], sess[r])
           /\ \A r \in Sessions : sess'[r].tid = 0 => sess'[r].vid = 0 /\ ~sess'[r].listed
<1>1. \A r \in Live' : r \in Live /\ SameTxn(sess'[r], sess[r])
  BY DEF SessionsKept, Live, SameTxn
<1>2. \A r \in Live : sess[r] \in Unfinished
  BY DEF Unfinished
<1>3. \A y \in Unfinished : y.listed => y.vid # 0
  BY DEF OwnerInv
<1>4. \A r \in Live' : sess'[r].listed => sess[r].vid # 0
  BY <1>1, <1>2, <1>3 DEF SessionsKept, Live
<1>5. ASSUME NEW x \in Unfinished'
      PROVE  \E y \in Unfinished : SameTxn(x, y) /\ (x.listed => y.vid # 0)
  <2>1. CASE x \in lost'
    BY <1>3, <2>1 DEF SameTxn
  <2>2. CASE x \notin lost'
    <3>1. PICK r \in Live' : x = sess'[r]
      BY <1>5, <2>2 DEF Unfinished
    <3> QED BY <1>1, <1>2, <1>4, <3>1, Zenon
  <2> QED BY <2>1, <2>2
<1>6. \A r \in Sessions : sess'[r].tid = 0 => sess'[r].vid = 0 /\ ~sess'[r].listed
  BY DEF SessionsKept, SameTxn
<1> QED BY <1>1, <1>5, <1>6, Zenon

\* Versions keep their owners when transactions only end.
LEMMA KeptOwners ==
    ASSUME SessionsKept, lost' \subseteq Unfinished, OwnerInv, ver' = ver, op'.pc = "idle"
    PROVE  OwnerInv'
<1>1. /\ \A x \in Unfinished' : \E y \in Unfinished : SameTxn(x, y) /\ (x.listed => y.vid # 0)
      /\ \A r \in Sessions : sess'[r].tid = 0 => sess'[r].vid = 0 /\ ~sess'[r].listed
  BY KeptTxns
<1>2. ASSUME NEW x \in Unfinished'
      PROVE  /\ x.listed => x.vid # 0
             /\ x.vid # 0 => /\ x.pk \in Pks /\ x.vid \in Vids
                             /\ ver[x.pk][x.vid].by = x.tid /\ ver[x.pk][x.vid].start = 0
             /\ \A p \in Pks, v \in Vids : ver[p][v] # Absent /\ ver[p][v].start = 0
                                               /\ ver[p][v].by = x.tid => x.pk = p /\ x.vid = v
  <2>1. PICK y \in Unfinished : SameTxn(x, y) /\ (x.listed => y.vid # 0)
    BY <1>1, <1>2
  <2> QED BY <2>1 DEF SameTxn, OwnerInv, Committed, Exists
<1>3. \A p \in Pks, v \in Vids : ver[p][v] # Absent /\ ver[p][v].start = 0 =>
          ver[p][v].by # 0 /\ ver[p][v].end = 0
  BY DEF OwnerInv, Committed, Exists
<1> QED BY <1>1, <1>2, <1>3, Zenon DEF OwnerInv, Committed, Exists

\* Snapshots only go when transactions only end.
LEMMA KeptSnapshots ==
    ASSUME SessionsKept, lost' \subseteq Unfinished, OwnerInv, next'.ts = next.ts
    PROVE  Snapshots' \subseteq Snapshots
BY KeptTxns DEF Snapshots, SameTxn

\* RestoreHeads gives back heads that name the newest committed version.
LEMMA Restored ==
    ASSUME VersionsTyped, ChainInv, OwnerInv, NEW txns, txns \subseteq Unfinished,
           head' = RestoreHeads(txns), ver' = ver
    PROVE  /\ VersionsTyped'
           /\ \A p \in Pks : /\ Newest(p)' = Newest(p)
                             /\ head'[p] # 0 => ver'[p][head'[p]] # Absent
<1>1. ASSUME NEW p \in Pks
      PROVE  /\ head'[p] = head[p] \/ (head[p] # 0 /\ ~Committed(p, head[p]) /\ head'[p] = Newest(p))
             /\ head'[p] \in 0 .. MaxVid
  <2>1. head[p] \in 0 .. MaxVid /\ Newest(p) \in 0 .. MaxVid
    BY NewestIn DEF VersionsTyped
  <2>2. CASE \E t \in txns : t.listed /\ t.pk = p /\ t.vid = head[p]
    <3>1. PICK t \in txns : t.listed /\ t.pk = p /\ t.vid = head[p]
      BY <2>2
    <3>2. head[p] # 0 /\ ~Committed(p, head[p])
      BY <3>1 DEF OwnerInv
    <3>3. head'[p] = ver[p][head[p]].prev
      BY <2>2 DEF RestoreHeads
    <3> QED BY <2>1, <3>2, <3>3 DEF Newest
  <2>3. CASE ~\E t \in txns : t.listed /\ t.pk = p /\ t.vid = head[p]
    BY <2>1, <2>3 DEF RestoreHeads
  <2> QED BY <2>2, <2>3
<1>2. head' \in [Pks -> 0 .. MaxVid]
  BY <1>1 DEF RestoreHeads
<1>3. ASSUME NEW p \in Pks
      PROVE  Newest(p)' = Newest(p) /\ (head'[p] # 0 => ver'[p][head'[p]] # Absent)
  <2>1. CASE head'[p] = head[p]
    BY <2>1 DEF Newest, Committed, ChainInv, Exists
  <2>2. CASE head[p] # 0 /\ ~Committed(p, head[p]) /\ head'[p] = Newest(p)
    <3>1. Newest(p) # 0 => Committed(p, Newest(p))
      BY DEF ChainInv
    <3>2. Newest(p) # 0 => Exists(p, Newest(p))
      BY <3>1, AbsentIsVersion DEF Committed, Exists
    <3>3. Newest(p)' = Newest(p)
      BY <2>2, <3>1, Zenon DEF Newest, Committed
    <3> QED BY <2>2, <3>2, <3>3 DEF Exists
  <2> QED BY <1>1, <2>1, <2>2, ZenonT(30)
<1> QED BY <1>2, <1>3, Zenon DEF VersionsTyped, IsVersion

\* A step of a session that commits nothing: committed versions stay, the newest of
\* every row stays, and no new snapshot appears.
LEMMA QuietStep ==
    ASSUME DataInv, Quiet, Quiet', VersionsTyped', OwnerInv',
           UNCHANGED <<catalog, incarnation>>, lags \subseteq lags', 1 \notin lags',
           stored' = next', next'.ts = next.ts,
           next'.vid \in Nat, next.vid <= next'.vid, next'.txn \in Nat, next.txn <= next'.txn,
           Snapshots' \subseteq Snapshots,
           \A t \in Unfinished' : t.start \in Nat /\ t.start < next.ts,
           \A p \in Pks, v \in Vids :
               \/ ver'[p][v] = ver[p][v]
               \/ /\ ver[p][v].start = 0 /\ ver'[p][v].start = 0 /\ ver'[p][v].end = 0
                  /\ v < next'.vid /\ ver'[p][v].by < next'.txn,
           \A p \in Pks : /\ Newest(p)' = Newest(p)
                          /\ head'[p] # 0 => ver'[p][head'[p]] # Absent,
           \A s \in Live' : sess'[s].vid # 0 => Fits(ver[sess[s].pk][sess[s].vid], catalog)'
    PROVE  DataInv'
<1> USE DEF Quiet
<1>1. /\ CountersInv /\ ChainInv /\ RowsInv /\ VersionsTyped
  BY DEF DataInv, Dropping
<1>2. /\ next.ts \in Nat \ {0} /\ next.vid \in Nat \ {0} /\ next.txn \in Nat \ {0}
      /\ \A p \in Pks, v \in Vids : Exists(p, v) =>
            /\ v < next.vid /\ ver[p][v].start < next.ts
            /\ ver[p][v].end < next.ts /\ ver[p][v].by < next.txn
  BY <1>1 DEF CountersInv
<1>3. CountersInv'
  <2>1. ASSUME NEW p \in Pks, NEW v \in Vids, Exists(p, v)'
        PROVE  /\ v < next'.vid /\ ver'[p][v].start < next'.ts
               /\ ver'[p][v].end < next'.ts /\ ver'[p][v].by < next'.txn
    <3>1. IsVersion(ver[p][v]) /\ v \in Nat /\ next.vid \in Nat /\ next.txn \in Nat
      <4>1. IsVersion(ver[p][v])
        BY <1>1, Zenon DEF VersionsTyped
      <4>2. v \in Nat
        BY SMT DEF Vids
      <4>3. next.vid \in Nat /\ next.txn \in Nat
        BY <1>2, Zenon
      <4> QED BY <4>1, <4>2, <4>3, Zenon
    <3>2. CASE ver'[p][v] = ver[p][v]
      BY <1>2, <2>1, <3>1, <3>2 DEF Exists, IsVersion
    <3>3. CASE /\ ver'[p][v].start = 0 /\ ver'[p][v].end = 0
               /\ v < next'.vid /\ ver'[p][v].by < next'.txn
      BY <1>2, <3>3
    <3> QED BY <3>2, <3>3
  <2>2. next'.ts \in Nat \ {0} /\ next'.vid \in Nat \ {0} /\ next'.txn \in Nat \ {0}
    BY <1>2
  <2>3. ~Altering' /\ op'.pc # "persist_vid"
    BY DEF Altering
  <2>4. \A t \in Unfinished' : t.start \in Nat /\ t.start < next'.ts
    OBVIOUS
  <2> QED BY <2>1, <2>2, <2>3, <2>4, Zenon DEF CountersInv
<1>4. \A p \in Pks : ~Between(p) /\ ~Between(p)'
  BY DEF Between
<1>5. \A p \in Pks, v \in Vids : /\ Committed(p, v)' => ver'[p][v] = ver[p][v] /\ Committed(p, v)
                                 /\ Committed(p, v) => ver'[p][v] = ver[p][v] /\ Committed(p, v)'
  BY DEF Committed
<1>6. ChainInv'
  <2>1. /\ \A p \in Pks : Newest(p) # 0 =>
              Newest(p) \in Vids /\ Committed(p, Newest(p)) /\ ver[p][Newest(p)].end = 0
        /\ \A p \in Pks, v \in Vids : Open(p, v) => v = Newest(p)
    BY <1>1, <1>4 DEF ChainInv
  <2>2. ASSUME NEW p \in Pks, Newest(p)' # 0
        PROVE  Newest(p)' \in Vids /\ Committed(p, Newest(p))' /\ ver'[p][Newest(p)'].end = 0
    <3>1. Newest(p)' = Newest(p) /\ Newest(p) \in Vids
      BY <2>1, <2>2
    <3>2. ver'[p][Newest(p)] = ver[p][Newest(p)]
      BY <1>5, <2>1, <2>2, <3>1, Zenon
    <3> QED BY <2>1, <2>2, <3>1, <3>2, Zenon DEF Committed
  <2>3. ASSUME NEW p \in Pks, NEW v \in Vids, Open(p, v)' PROVE v = Newest(p)'
    BY <1>5, <2>1, <2>3, ZenonT(30) DEF Open
  <2> QED BY <1>4, <2>2, <2>3, Zenon DEF ChainInv, Exists
<1>7. \A x, c : Fits(x, c) => Fits(x, c)'
  BY DEF Fits
<1>8. RowsInv'
  <2>1. ASSUME NEW p \in Pks, NEW v \in Vids, NEW ts \in Snapshots', IsCommittedVisible(ver'[p][v], ts)
        PROVE  Fits(ver[p][v], catalog)'
    <3>1. ver'[p][v] = ver[p][v]
      BY <1>5, <2>1, ZenonT(30) DEF IsCommittedVisible, Committed, is_provisional
    <3>2. Fits(ver[p][v], catalog)
      BY <1>1, <2>1, <3>1, ZenonT(30) DEF RowsInv
    <3> QED BY <3>1, <3>2, ZenonT(30) DEF Fits
  <2> QED BY <2>1, Zenon DEF RowsInv, IsCommittedVisible, is_provisional
<1>9. AlterInv' /\ Alone' /\ op'.pc # "drop_versions" /\ ~Dropping'
  BY DEF AlterInv, Alone, Altering, Dropping
<1> QED BY <1>3, <1>6, <1>8, <1>9, Zenon DEF DataInv

\* Transactions stay or end, heads stay or are given back.
LEMMA KeptStep ==
    ASSUME DataInv, Quiet, op'.pc = "idle", ver' = ver, next' = next, stored' = next,
           UNCHANGED <<catalog, incarnation, lags>>, SessionsKept, lost' \subseteq Unfinished,
           head' = head \/ \E txns \in SUBSET Unfinished : head' = RestoreHeads(txns)
    PROVE  DataInv'
<1>1. VersionsTyped /\ CountersInv /\ OwnerInv /\ ChainInv /\ RowsInv /\ 1 \notin lags
  BY DEF DataInv, Dropping, Quiet
<1>2. OwnerInv' /\ Snapshots' \subseteq Snapshots
  BY <1>1, KeptOwners, KeptSnapshots
<1>3. /\ \A x \in Unfinished' : \E y \in Unfinished : SameTxn(x, y)
      /\ \A r \in Live' : r \in Live /\ SameTxn(sess'[r], sess[r])
  BY <1>1, KeptTxns
<1>4. \A t \in Unfinished' : t.start \in Nat /\ t.start < next.ts
  BY <1>1, <1>3 DEF CountersInv, SameTxn
<1>5. /\ VersionsTyped'
      /\ \A p \in Pks : Newest(p)' = Newest(p) /\ (head'[p] # 0 => ver'[p][head'[p]] # Absent)
  <2>1. CASE head' = head
    <3>1. VersionsTyped'
      BY <1>1, <2>1 DEF VersionsTyped, IsVersion
    <3> QED BY <1>1, <2>1, <3>1, Zenon DEF Newest, Committed, Exists, ChainInv
  <2>2. CASE \E txns \in SUBSET Unfinished : head' = RestoreHeads(txns)
    <3>1. PICK txns \in SUBSET Unfinished : head' = RestoreHeads(txns)
      BY <2>2
    <3> QED BY <1>1, <3>1, Restored, Zenon
  <2> QED BY <2>1, <2>2
<1>6. \A s \in Live' : sess'[s].vid # 0 => Fits(ver[sess[s].pk][sess[s].vid], catalog)'
  BY <1>1, <1>3, Zenon DEF RowsInv, Quiet, SameTxn, Fits
<1>7. next.vid \in Nat /\ next.txn \in Nat
  BY <1>1 DEF CountersInv
<1>8. Quiet'
  BY DEF Quiet
<1>9. /\ UNCHANGED <<catalog, incarnation>> /\ lags \subseteq lags' /\ 1 \notin lags'
      /\ stored' = next' /\ next'.ts = next.ts /\ next'.vid = next.vid /\ next'.txn = next.txn
  BY <1>1, Zenon
<1>10. /\ next'.vid \in Nat /\ next.vid <= next'.vid
       /\ next'.txn \in Nat /\ next.txn <= next'.txn
  BY <1>7, <1>9, SMT
<1>11. \A p \in Pks, v \in Vids :
          \/ ver'[p][v] = ver[p][v]
          \/ /\ ver[p][v].start = 0 /\ ver'[p][v].start = 0 /\ ver'[p][v].end = 0
             /\ v < next'.vid /\ ver'[p][v].by < next'.txn
  BY Zenon
<1> QED BY <1>2, <1>4, <1>5, <1>6, <1>8, <1>9, <1>10, <1>11, QuietStep, Zenon

\* Lookups, the write list, aborts and restarts between DDL statements.
LEMMA QuietActions ==
    ASSUME DataInv, GateInv, SchemaInv, ~interrupted',
           \/ \E s \in Sessions : LookupTable(s) \/ AbortTransaction(s) \/ AbortFails(s)
           \/ WriteList \/ Crash
    PROVE  DataInv'
<1>1. sess = [r \in Sessions |-> sess[r]] /\ \A r \in Sessions : IsSession(sess[r])
  BY DEF GateInv, GateType
<1>2. OwnerInv /\ CountersInv
  BY DEF DataInv
<1>3. Idle.pc = "idle"
  BY DEF Idle
<1>4. ASSUME NEW s \in Sessions, LookupTable(s) PROVE DataInv'
  <2>1. /\ op = Idle /\ UNCHANGED <<catalog, incarnation, lags, ver, head, stored, next, op, lost>>
        /\ sess' = [sess EXCEPT ![s] = [@ EXCEPT !.schema = GetTable, !.seen = changes]]
    BY <1>4, ZenonT(30) DEF LookupTable, history
  <2>2. Quiet /\ op'.pc = "idle" /\ stored = next
    BY <1>2, <1>3, <2>1, ZenonT(30) DEF Quiet, CountersInv
  <2>3. SessionsKept
    <3>1. ASSUME NEW r \in Sessions PROVE SameTxn(sess'[r], sess[r]) /\ sess'[r].listed = sess[r].listed
      <4>1. \A x : IsSession(x) =>
               LET y == [x EXCEPT !.schema = GetTable, !.seen = changes]
               IN  SameTxn(y, x) /\ y.listed = x.listed
        BY DEF IsSession, SameTxn
      <4>2. sess'[r] = IF r = s THEN [sess[r] EXCEPT !.schema = GetTable, !.seen = changes] ELSE sess[r]
        BY <1>1, <2>1, Zenon
      <4> QED BY <1>1, <4>1, <4>2 DEF SameTxn
    <3> QED BY <1>2, <3>1 DEF SessionsKept, OwnerInv, SameTxn
  <2>4. lost' \subseteq Unfinished
    BY <2>1, ZenonT(30) DEF Unfinished
  <2> QED BY <2>1, <2>2, <2>3, <2>4, KeptStep
<1>5. ASSUME NEW s \in Sessions, AbortTransaction(s) \/ AbortFails(s) PROVE DataInv'
  <2>1. /\ op = Idle /\ UNCHANGED <<catalog, incarnation, lags, ver, stored, next, op>>
        /\ sess' = [sess EXCEPT ![s] = NoSession] /\ sess[s].tid # 0
        /\ head' = head \/ head' = RestoreHeads({sess[s]})
        /\ lost' = lost \/ lost' = lost \cup {sess[s]}
    BY <1>5, ZenonT(30) DEF AbortTransaction, AbortFails, history
  <2>2. Quiet /\ op'.pc = "idle" /\ stored = next
    BY <1>2, <1>3, <2>1, ZenonT(30) DEF Quiet, CountersInv
  <2>3. SessionsKept
    <3>1. ASSUME NEW r \in Sessions PROVE sess'[r] = NoSession \/ sess'[r] = sess[r]
      BY <1>1, <2>1, Zenon
    <3>2. NoSession.tid = 0 /\ NoSession.vid = 0 /\ ~NoSession.listed
      BY DEF NoSession
    <3> QED BY <1>2, <3>1, <3>2 DEF SessionsKept, OwnerInv, SameTxn
  <2>4. sess[s] \in Unfinished
    BY <2>1 DEF Unfinished, Live
  <2>5. lost' \subseteq Unfinished /\ {sess[s]} \in SUBSET Unfinished
    BY <2>1, <2>4 DEF Unfinished
  <2> QED BY <2>1, <2>2, <2>3, <2>5, KeptStep
<1>6. CASE WriteList
  <2>1. /\ op.pc = "list" /\ op' = Idle
        /\ UNCHANGED <<catalog, incarnation, lags, ver, head, stored, next, lost>>
        /\ sess' = [sess EXCEPT ![op.s] = [@ EXCEPT !.listed = TRUE]]
    BY <1>6, ZenonT(30) DEF WriteList, history
  <2>2. Quiet /\ op'.pc = "idle" /\ stored = next /\ op.s \in Sessions /\ sess[op.s].vid # 0
    BY <1>2, <1>3, <2>1, ZenonT(30) DEF Quiet, CountersInv, OwnerInv
  <2>3. SessionsKept
    <3>1. ASSUME NEW r \in Sessions
          PROVE  SameTxn(sess'[r], sess[r]) /\ (sess'[r].listed => sess[r].listed \/ sess[r].vid # 0)
      <4>1. \A x : IsSession(x) => SameTxn([x EXCEPT !.listed = TRUE], x)
        BY DEF IsSession, SameTxn
      <4>2. sess'[r] = IF r = op.s THEN [sess[r] EXCEPT !.listed = TRUE] ELSE sess[r]
        BY <1>1, <2>1, <2>2, Zenon
      <4> QED BY <1>1, <2>2, <4>1, <4>2 DEF SameTxn
    <3> QED BY <1>2, <3>1 DEF SessionsKept, OwnerInv, SameTxn
  <2>4. lost' \subseteq Unfinished
    BY <2>1 DEF Unfinished
  <2> QED BY <2>1, <2>2, <2>3, <2>4, KeptStep
<1>7. CASE Crash
  <2>1. /\ op' = Idle /\ UNCHANGED <<catalog, incarnation, lags, ver, stored>>
        /\ op.pc \in {"idle", "list"}
        /\ next' = stored /\ lost' = {} /\ sess' = [s \in Sessions |-> NoSession]
        /\ head' = RestoreHeads(Unfinished)
    BY <1>7, ZenonT(30) DEF Crash
  <2>2. Quiet /\ op'.pc = "idle" /\ stored = next
    BY <1>2, <1>3, <2>1 DEF Quiet, CountersInv
  <2>3. SessionsKept
    <3>1. NoSession.tid = 0 /\ NoSession.vid = 0 /\ ~NoSession.listed
      BY DEF NoSession
    <3> QED BY <2>1, <3>1 DEF SessionsKept
  <2> QED BY <2>1, <2>2, <2>3, KeptStep
<1> QED BY <1>4, <1>5, <1>6, <1>7

\* A new transaction: its snapshot is that of the next Begin, it owns no version.
LEMMA BeginData ==
    ASSUME DataInv, GateInv, NEW s \in Sessions, Begin(s)
    PROVE  DataInv'
<1>1. sess = [r \in Sessions |-> sess[r]] /\ (\A r \in Sessions : IsSession(sess[r])) /\ IsCounters(next)
  BY DEF GateInv, GateType
<1>2. /\ op = Idle /\ UNCHANGED <<catalog, incarnation, lags, ver, head, op, lost>>
      /\ sess' = [sess EXCEPT ![s] = [@ EXCEPT !.tid = next.txn, !.start = next.ts - 1]]
      /\ sess[s].tid = 0 /\ next' = [next EXCEPT !.txn = @ + 1] /\ stored' = next'
  BY ZenonT(30) DEF Begin, history
<1>3. VersionsTyped /\ CountersInv /\ OwnerInv /\ ChainInv /\ RowsInv /\ 1 \notin lags /\ Quiet /\ Quiet'
  BY <1>2 DEF DataInv, Dropping, Quiet, Idle
<1>4. /\ next'.ts = next.ts /\ next'.vid = next.vid /\ next'.txn = next.txn + 1
      /\ next.ts \in Nat \ {0} /\ next.vid \in Nat /\ next.txn \in Nat \ {0}
  BY <1>1, <1>2, <1>3 DEF IsCounters, CountersInv
<1>5. ASSUME NEW r \in Sessions, r # s PROVE sess'[r] = sess[r]
  BY <1>1, <1>2, <1>5, Zenon
<1>6. /\ sess'[s].tid = next.txn /\ sess'[s].start = next.ts - 1
      /\ sess'[s].vid = 0 /\ ~sess'[s].listed
  <2>1. \A x : IsSession(x) =>
           LET y == [x EXCEPT !.tid = next.txn, !.start = next.ts - 1]
           IN  y.tid = next.txn /\ y.start = next.ts - 1 /\ y.vid = x.vid /\ y.listed = x.listed
    BY DEF IsSession
  <2>2. sess'[s] = [sess[s] EXCEPT !.tid = next.txn, !.start = next.ts - 1]
    BY <1>1, <1>2, Zenon
  <2>3. sess[s].vid = 0 /\ ~sess[s].listed
    BY <1>2, <1>3 DEF OwnerInv
  <2> QED BY <1>1, <2>1, <2>2, <2>3
<1>7. \A x \in Unfinished' : x = sess'[s] \/ x \in Unfinished
  <2> SUFFICES ASSUME NEW x \in Unfinished', x # sess'[s] PROVE x \in Unfinished
    OBVIOUS
  <2>1. CASE x \in lost'
    BY <1>2, <2>1 DEF Unfinished
  <2>2. CASE x \notin lost'
    <3>1. PICK r \in Live' : x = sess'[r]
      BY <2>2 DEF Unfinished
    <3> QED BY <1>5, <3>1 DEF Unfinished, Live
  <2> QED BY <2>1, <2>2
<1>8. \A p \in Pks, v \in Vids : Exists(p, v) => ver[p][v].by # next.txn
  <2>1. \A p \in Pks, v \in Vids : ver[p][v].by \in Nat
    BY <1>3, Zenon DEF VersionsTyped, IsVersion
  <2> QED BY <1>3, <1>4, <2>1 DEF CountersInv
<1>9. OwnerInv'
  <2>1. op'.pc # "list"
    BY <1>2 DEF Idle
  <2>2. \A r \in Sessions : sess'[r].tid = 0 => sess'[r].vid = 0 /\ ~sess'[r].listed
    BY <1>3, <1>5, <1>6, Zenon DEF OwnerInv
  <2>3. ASSUME NEW x \in Unfinished'
        PROVE  /\ x.listed => x.vid # 0
               /\ x.vid # 0 => /\ x.pk \in Pks /\ x.vid \in Vids
                               /\ ver[x.pk][x.vid].by = x.tid /\ ver[x.pk][x.vid].start = 0
               /\ \A p \in Pks, v \in Vids : ver[p][v] # Absent /\ ver[p][v].start = 0
                                               /\ ver[p][v].by = x.tid => x.pk = p /\ x.vid = v
    <3>1. CASE x = sess'[s]
      BY <1>6, <1>8, <3>1, Zenon DEF Exists
    <3>2. CASE x \in Unfinished
      BY <1>3, <3>2, Zenon DEF OwnerInv, Committed, Exists
    <3> QED BY <1>7, <3>1, <3>2
  <2>4. \A p \in Pks, v \in Vids : ver[p][v] # Absent /\ ver[p][v].start = 0 =>
            ver[p][v].by # 0 /\ ver[p][v].end = 0
    BY <1>3, Zenon DEF OwnerInv, Committed, Exists
  <2> QED BY <1>2, <2>1, <2>2, <2>3, <2>4, Zenon DEF OwnerInv, Committed, Exists
<1>10. Snapshots' \subseteq Snapshots
  <2>1. ASSUME NEW r \in Live' PROVE sess'[r].start \in Snapshots
    <3>1. CASE r = s
      BY <1>6, <3>1 DEF Snapshots
    <3>2. CASE r # s
      BY <1>5, <2>1, <3>2 DEF Snapshots, Live
    <3> QED BY <3>1, <3>2
  <2>2. next'.ts - 1 \in Snapshots
    BY <1>4, ZenonT(30) DEF Snapshots
  <2> QED BY <2>1, <2>2, Zenon DEF Snapshots
<1>11. \A t \in Unfinished' : t.start \in Nat /\ t.start < next.ts
  BY <1>3, <1>4, <1>6, <1>7 DEF CountersInv
<1>12. \A r \in Live' : sess'[r].vid # 0 => Fits(ver[sess[r].pk][sess[r].vid], catalog)'
  BY <1>2, <1>3, <1>5, <1>6, ZenonT(30) DEF RowsInv, Quiet, Live, Fits
<1>13. /\ VersionsTyped'
       /\ \A p \in Pks : Newest(p)' = Newest(p) /\ (head'[p] # 0 => ver'[p][head'[p]] # Absent)
  BY <1>2, <1>3, Zenon DEF VersionsTyped, IsVersion, Newest, Committed, Exists, ChainInv
<1> QED BY <1>2, <1>3, <1>4, <1>9, <1>10, <1>11, <1>12, <1>13, QuietStep
=============================================================================
