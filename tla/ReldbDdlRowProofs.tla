------------------------- MODULE ReldbDdlRowProofs -------------------------
(***************************************************************************)
(* The steps that touch rows keep DataInv (ReldbDdlInv) as long as no DDL  *)
(* statement is cut short.  A write checks the schema it was bound to, and *)
(* a commit closes what its version replaces.  An ALTER or a DROP works    *)
(* alone, and rewrites or removes every version that a later snapshot can  *)
(* see.  Ends with the theorems about rows and counters.                   *)
(***************************************************************************)
EXTENDS ReldbDdlProofs

\* A write puts a provisional version over the newest committed one.
LEMMA WriteData ==
    ASSUME DataInv, GateInv, NEW s \in Sessions, NEW p \in Pks, NEW row, Write(s, p, row),
           op = Idle, sess[s].tid # 0, changes - sess[s].seen # 1,
           row # <<>> => /\ catalog # NoTable /\ Len(row) = Len(catalog)
                         /\ lags' \subseteq {0} => row = catalog
    PROVE  DataInv'
<1> DEFINE n == next.vid
           rec == [start |-> 0, end |-> 0, prev |-> Newest(p), by |-> sess[s].tid,
                   row |-> row, inc |-> incarnation]
<1>1. /\ sess = [r \in Sessions |-> sess[r]] /\ (\A r \in Sessions : IsSession(sess[r]))
      /\ IsCounters(next) /\ IdsDiffer
  BY DEF GateInv, GateType
<1>2. /\ UNCHANGED <<catalog, incarnation, lost>>
      /\ sess[s].vid = 0 /\ n <= MaxVid
      /\ sess' = [sess EXCEPT ![s] = [@ EXCEPT !.pk = p, !.vid = n]]
      /\ next' = [next EXCEPT !.vid = @ + 1] /\ stored' = next'
      /\ head' = [head EXCEPT ![p] = n] /\ op' = [Idle EXCEPT !.pc = "list", !.s = s]
      /\ lags' = lags \cup {changes - sess[s].seen}
  BY ZenonT(30) DEF Write
<1>3. ver' = [ver EXCEPT ![p][n] = rec]
  <2>1. (IF head[p] # 0 /\ is_provisional(ver[p][head[p]]) THEN ver[p][head[p]].prev ELSE head[p])
            = Newest(p)
    BY DEF Newest, Committed, is_provisional
  <2>2. ver' = [ver EXCEPT ![p][n] =
               [start |-> 0, end |-> 0,
                prev |-> IF head[p] # 0 /\ is_provisional(ver[p][head[p]])
                         THEN ver[p][head[p]].prev ELSE head[p],
                by |-> sess[s].tid, row |-> row, inc |-> incarnation]]
    BY ZenonT(30) DEF Write
  <2> QED BY <2>1, <2>2, Zenon
<1>4. VersionsTyped /\ CountersInv /\ OwnerInv /\ ChainInv /\ RowsInv /\ 1 \notin lags /\ Quiet
  BY DEF DataInv, Dropping, Quiet, Idle
<1>5. /\ next'.ts = next.ts /\ next'.vid = n + 1 /\ next'.txn = next.txn
      /\ next.ts \in Nat \ {0} /\ n \in Nat \ {0} /\ next.txn \in Nat \ {0}
      /\ n \in Vids /\ n \in 0 .. MaxVid
  BY <1>1, <1>2, <1>4, DdlBounds DEF IsCounters, CountersInv, Vids
<1>6. /\ rec.start = 0 /\ rec.end = 0 /\ rec.prev = Newest(p) /\ rec.by = sess[s].tid
      /\ rec.row = row /\ rec.inc = incarnation /\ sess[s].tid \in Nat /\ sess[s].tid < next.txn
  BY <1>1, SMTT(30) DEF IsSession, IdsDiffer
<1>7. IsVersion(rec)
  BY <1>4, <1>6, NewestIn, SMTT(30) DEF IsVersion
<1>8. rec # Absent
  BY <1>6, AbsentIsVersion
<1> HIDE DEF rec
<1>9. /\ head' \in [Pks -> 0 .. MaxVid]
      /\ head'[p] = n /\ \A q \in Pks : q # p => head'[q] = head[q]
  BY <1>2, <1>4, <1>5, HeadPut, Zenon
<1>10. /\ VersionsTyped' /\ ver'[p][n] = rec
       /\ \A q \in Pks, u \in Vids : q # p \/ u # n => ver'[q][u] = ver[q][u]
  <2>1. PutVersion(p, n, rec)
    BY <1>3, <1>5, <1>7, Zenon DEF PutVersion
  <2>2. VersionsTyped' /\ OnlyPut(p, n, rec)
    BY <1>4, <1>9, <2>1, VersionPut, Zenon
  <2> QED BY <2>2, Zenon DEF OnlyPut
<1>11. \A q \in Pks : ~Exists(q, n)
  BY <1>4, <1>5 DEF CountersInv
<1>12. \A r \in Sessions : r # s => sess'[r] = sess[r]
  BY <1>1, <1>2, Zenon
<1>13. /\ sess'[s].tid = sess[s].tid /\ sess'[s].start = sess[s].start
       /\ sess'[s].pk = p /\ sess'[s].vid = n
  <2>1. \A x : IsSession(x) => LET y == [x EXCEPT !.pk = p, !.vid = n]
                               IN  y.tid = x.tid /\ y.start = x.start /\ y.pk = p /\ y.vid = n
    BY DEF IsSession
  <2>2. sess'[s] = [sess[s] EXCEPT !.pk = p, !.vid = n]
    BY <1>1, <1>2, Zenon
  <2> QED BY <1>1, <2>1, <2>2
<1>14. \A x \in Unfinished' : x = sess'[s] \/ (x \in Unfinished /\ x.tid # sess[s].tid)
  <2> SUFFICES ASSUME NEW x \in Unfinished', x # sess'[s]
               PROVE  x \in Unfinished /\ x.tid # sess[s].tid
    BY Zenon
  <2>0. s \in Live
    BY DEF Live
  <2>1. CASE x \in lost'
    BY <1>1, <1>2, <2>0, <2>1 DEF Unfinished, IdsDiffer
  <2>2. CASE x \notin lost'
    <3>1. PICK r \in Live' : x = sess'[r]
      BY <2>2 DEF Unfinished
    <3>2. r # s /\ r \in Sessions /\ x = sess[r] /\ r \in Live
      BY <1>12, <3>1 DEF Live
    <3> QED BY <1>1, <2>0, <3>2 DEF Unfinished, IdsDiffer
  <2> QED BY <2>1, <2>2
<1>15. op'.pc = "list" /\ op'.s = s /\ Quiet'
  BY <1>2 DEF Idle, Quiet
<1>16. \A q \in Pks, u \in Vids : ver[q][u] # Absent => ver'[q][u] = ver[q][u]
  BY <1>10, <1>11 DEF Exists
<1>17. OwnerInv'
  <2>1. \A r \in Sessions : sess'[r].tid = 0 => sess'[r].vid = 0 /\ ~sess'[r].listed
    BY <1>4, <1>12, <1>13, Zenon DEF OwnerInv
  <2>2. ASSUME NEW x \in Unfinished'
        PROVE  /\ x.listed => x.vid # 0
               /\ x.vid # 0 => /\ x.pk \in Pks /\ x.vid \in Vids
                               /\ ver'[x.pk][x.vid].by = x.tid /\ ver'[x.pk][x.vid].start = 0
    <3>1. CASE x = sess'[s]
      BY <1>5, <1>6, <1>10, <1>13, <3>1, SMTT(30)
    <3>2. CASE x \in Unfinished
      <4>1. x.vid # 0 => /\ x.pk \in Pks /\ x.vid \in Vids
                         /\ ver[x.pk][x.vid].by = x.tid /\ ver[x.pk][x.vid].start = 0
        BY <1>4, <3>2 DEF OwnerInv, Committed
      <4>2. x.tid # 0
        BY <1>1, <3>2, SMTT(30) DEF Unfinished, Live, IdsDiffer
      <4>3. x.vid # 0 => ver[x.pk][x.vid] # Absent
        BY <4>1, <4>2, AbsentIsVersion
      <4>4. x.listed => x.vid # 0
        BY <1>4, <3>2 DEF OwnerInv
      <4> QED BY <1>16, <4>1, <4>3, <4>4, SMTT(30)
    <3> QED BY <1>14, <3>1, <3>2
  <2>3. ASSUME NEW q \in Pks, NEW u \in Vids, ver'[q][u] # Absent, ver'[q][u].start = 0
        PROVE  /\ ver'[q][u].by # 0 /\ ver'[q][u].end = 0
               /\ \A x \in Unfinished' : ver'[q][u].by = x.tid => x.pk = q /\ x.vid = u
    <3>1. CASE q = p /\ u = n
      BY <1>6, <1>10, <1>13, <1>14, <3>1, SMTT(30)
    <3>2. CASE q # p \/ u # n
      <4>1. ver'[q][u] = ver[q][u]
        BY <1>10, <3>2
      <4>2. /\ ver[q][u].by # 0 /\ ver[q][u].end = 0
            /\ \A x \in Unfinished : ver[q][u].by = x.tid => x.pk = q /\ x.vid = u
        BY <1>4, <2>3, <4>1 DEF OwnerInv, Exists, Committed
      <4>3. ver[q][u].by # sess[s].tid
        <5>1. sess[s] \in Unfinished /\ u # 0
          BY SMTT(30) DEF Unfinished, Live, Vids
        <5> QED BY <1>2, <4>2, <5>1
      <4> QED BY <1>13, <1>14, <4>1, <4>2, <4>3, SMTT(30)
    <3> QED BY <3>1, <3>2, SMTT(30)
  <2>4. op'.s \in Sessions /\ sess'[op'.s].vid # 0
    BY <1>5, <1>13, <1>15, SMTT(30)
  <2> QED BY <2>1, <2>2, <2>3, <2>4, Zenon DEF OwnerInv, Committed, Exists
<1>18. Snapshots' \subseteq Snapshots
  BY <1>5, <1>12, <1>13 DEF Snapshots, Live
<1>19. \A t \in Unfinished' : t.start \in Nat /\ t.start < next.ts
  <2>1. sess[s] \in Unfinished
    BY DEF Unfinished, Live
  <2> QED BY <1>4, <1>13, <1>14, <2>1 DEF CountersInv
<1>20. \A x, c : Fits(x, c) => Fits(x, c)'
  BY <1>2 DEF Fits
<1>21. ASSUME NEW r \in Live', sess'[r].vid # 0 PROVE Fits(ver[sess[r].pk][sess[r].vid], catalog)'
  <2>1. CASE r = s
    BY <1>2, <1>6, <1>10, <1>13, <2>1 DEF Fits
  <2>2. CASE r # s
    <3>1. r \in Live /\ sess'[r] = sess[r] /\ r \in Sessions
      BY <1>12, <1>21, <2>2, SMTT(30) DEF Live
    <3>2. Fits(ver[sess[r].pk][sess[r].vid], catalog)
      BY <1>4, <1>21, <3>1 DEF RowsInv, Quiet
    <3>3. sess[r] \in Unfinished /\ sess[r].tid # 0
      BY <3>1, SMTT(30) DEF Unfinished, Live
    <3>4. /\ sess[r].pk \in Pks /\ sess[r].vid \in Vids
          /\ ver[sess[r].pk][sess[r].vid].by = sess[r].tid
      BY <1>4, <1>21, <3>1, <3>3, SMTT(30) DEF OwnerInv
    <3>5. ver'[sess[r].pk][sess[r].vid] = ver[sess[r].pk][sess[r].vid]
      BY <1>16, <3>3, <3>4, AbsentIsVersion, SMTT(30)
    <3> QED BY <1>2, <3>1, <3>2, <3>5, Zenon DEF Fits
  <2> QED BY <2>1, <2>2
<1>22. ASSUME NEW q \in Pks
       PROVE  Newest(q)' = Newest(q) /\ (head'[q] # 0 => ver'[q][head'[q]] # Absent)
  <2>1. CASE q = p
    <3>1. Newest(p)' = ver'[p][head'[p]].prev
      BY <1>5, <1>6, <1>9, <1>10, Zenon DEF Newest, Committed
    <3> QED BY <1>6, <1>8, <1>9, <1>10, <2>1, <3>1, ZenonT(30)
  <2>2. CASE q # p
    <3>0. head[q] # 0 => head[q] \in Vids
      BY <1>4, DdlBounds DEF VersionsTyped, Vids
    <3>1. head'[q] = head[q] /\ (head[q] # 0 => head[q] \in Vids /\ ver[q][head[q]] # Absent)
      BY <1>4, <1>9, <2>2, <3>0, ZenonT(30) DEF ChainInv, Exists
    <3>2. head[q] # 0 => ver'[q][head[q]] = ver[q][head[q]]
      BY <1>16, <3>1, Zenon
    <3> QED BY <3>1, <3>2, Zenon DEF Newest, Committed
  <2> QED BY <2>1, <2>2
<1>23. \A q \in Pks, u \in Vids :
            \/ ver'[q][u] = ver[q][u]
            \/ /\ ver[q][u].start = 0 /\ ver'[q][u].start = 0 /\ ver'[q][u].end = 0
               /\ u < next'.vid /\ ver'[q][u].by < next'.txn
  <2>1. ver[p][n].start = 0
    BY <1>11, AbsentIsVersion, Zenon DEF Exists
  <2>2. ver'[p][n].start = 0 /\ ver'[p][n].end = 0 /\ n < next'.vid /\ ver'[p][n].by < next'.txn
    <3>1. n < n + 1
      BY <1>5, SMT
    <3> QED BY <1>5, <1>6, <1>10, <3>1, Zenon
  <2> QED BY <1>10, <2>1, <2>2, Zenon
<1>24. 1 \notin lags' /\ lags \subseteq lags'
  BY <1>2, <1>4
<1>25. next'.vid \in Nat /\ next.vid <= next'.vid /\ next'.txn \in Nat /\ next.txn <= next'.txn
  BY <1>5
<1> QED BY <1>2, <1>4, <1>5, <1>10, <1>15, <1>17, <1>18, <1>19, <1>21, <1>22, <1>23, <1>24, <1>25,
           QuietStep

\* A schema as wide as the stored one is the stored one, or outdated by two changes.
LEMMA Lag ==
    ASSUME SchemaInv, NEW s \in Sessions, sess[s].schema # NoTable, catalog # NoTable,
           Len(sess[s].schema) = Len(catalog)
    PROVE  changes - sess[s].seen # 1 /\ (changes - sess[s].seen = 0 => sess[s].schema = catalog)
<1>1. changes \in Nat /\ sess[s].seen \in Nat
  BY DEF SchemaInv, SchemaSeen
<1>2. sess[s].seen + 1 # changes
  BY DEF SchemaInv, SchemaSeen
<1>3. sess[s].seen = changes => sess[s].schema = catalog
  BY SMTT(30) DEF SchemaInv, SchemaSeen
<1> QED BY <1>1, <1>2, <1>3

\* The row that a statement of a transaction reads before its first write.
LEMMA RowRead ==
    ASSUME DataInv, op = Idle, NEW s \in Sessions, sess[s].tid # 0, sess[s].vid = 0, NEW p \in Pks,
           NEW v, v = GetRow(p, sess[s].start, sess[s].tid), v # 0
    PROVE  v \in Vids /\ ver[p][v].row # <<>> /\ Fits(ver[p][v], catalog)
<1>1. VersionsTyped /\ OwnerInv /\ RowsInv /\ op.pc = "idle"
  BY DEF DataInv, Dropping, Idle
<1>2. v \in Vids /\ ver[p][v].row # <<>> /\ Answers(ver[p][v], sess[s].start, sess[s].tid)
  BY <1>1, RowAnswers
<1>3. sess[s] \in Unfinished /\ sess[s].start \in Snapshots
  BY DEF Unfinished, Live, Snapshots
<1>4. Exists(p, v) /\ v # 0
  BY <1>2, AbsentIsVersion, SMTT(30) DEF Exists
<1>5. ~(is_provisional(ver[p][v]) /\ ver[p][v].by = sess[s].tid)
  BY <1>1, <1>2, <1>3, <1>4, SMTT(30) DEF OwnerInv, is_provisional, Committed
<1>6. IsCommittedVisible(ver[p][v], sess[s].start)
  BY <1>2, <1>5 DEF Answers
<1> QED BY <1>1, <1>2, <1>3, <1>6 DEF RowsInv

\* INSERT, DELETE and UPDATE keep DataInv.
LEMMA WriteActions ==
    ASSUME DataInv, GateInv, SchemaInv, NEW s \in Sessions, NEW p \in Pks, NEW c,
           Insert(s, p) \/ Delete(s, p) \/ Update(s, p, c)
    PROVE  DataInv'
<1>0. GetTable = catalog
  BY TableIsCatalog DEF SchemaInv
<1>1. CASE Insert(s, p)
  <2>1. /\ op = Idle /\ sess[s].tid # 0 /\ sess[s].schema # NoTable
        /\ ValidateAgainst(sess[s].schema, catalog) /\ Write(s, p, sess[s].schema)
    BY <1>0, <1>1, Zenon DEF Insert
  <2>2. catalog # NoTable /\ Len(sess[s].schema) = Len(catalog)
    BY <2>1 DEF ValidateAgainst
  <2>3. changes - sess[s].seen # 1 /\ (changes - sess[s].seen = 0 => sess[s].schema = catalog)
    BY <2>1, <2>2, Lag
  <2>4. lags' = lags \cup {changes - sess[s].seen}
    BY <2>1, Zenon DEF Write
  <2>5. lags' \subseteq {0} => sess[s].schema = catalog
    BY <2>3, <2>4, SMTT(30)
  <2> QED BY <2>1, <2>2, <2>3, <2>5, WriteData
<1>2. ASSUME NEW v, v = GetRow(p, sess[s].start, sess[s].tid), v # 0, op = Idle, sess[s].tid # 0,
             NEW row, Write(s, p, row), ValidateAgainst(ver[p][v].row, sess[s].schema)
      PROVE  /\ changes - sess[s].seen # 1 /\ catalog # NoTable
             /\ Len(ver[p][v].row) = Len(catalog)
             /\ lags' \subseteq {0} => ver[p][v].row = catalog /\ sess[s].schema = catalog
  <2>1. sess[s].vid = 0 /\ lags' = lags \cup {changes - sess[s].seen}
    BY <1>2, Zenon DEF Write
  <2>2. v \in Vids /\ ver[p][v].row # <<>> /\ Fits(ver[p][v], catalog)
    BY <1>2, <2>1, RowRead, Zenon
  <2>3. /\ sess[s].schema # NoTable /\ catalog # NoTable
        /\ Len(sess[s].schema) = Len(catalog) /\ Len(ver[p][v].row) = Len(catalog)
    BY <1>2, <2>2, Zenon DEF ValidateAgainst, Fits
  <2>4. changes - sess[s].seen # 1 /\ (changes - sess[s].seen = 0 => sess[s].schema = catalog)
    BY <2>3, Lag, SMTT(30)
  <2>5. lags' \subseteq {0} => lags \subseteq {0} /\ changes - sess[s].seen = 0
    BY <2>1
  <2> QED BY <2>2, <2>3, <2>4, <2>5 DEF Fits
<1>3. CASE Delete(s, p)
  <2> DEFINE v == GetRow(p, sess[s].start, sess[s].tid)
  <2>1. /\ op = Idle /\ sess[s].tid # 0 /\ v # 0
        /\ ValidateAgainst(ver[p][v].row, sess[s].schema) /\ Write(s, p, <<>>)
    BY <1>3, Zenon DEF Delete
  <2> HIDE DEF v
  <2>2. changes - sess[s].seen # 1
    BY <1>2, <2>1, SMTT(30) DEF v
  <2> QED BY <2>1, <2>2, WriteData
<1>4. CASE Update(s, p, c)
  <2> DEFINE v == GetRow(p, sess[s].start, sess[s].tid)
  <2>1. /\ op = Idle /\ sess[s].tid # 0 /\ v # 0 /\ ValidateAgainst(ver[p][v].row, sess[s].schema)
        /\ \E i \in 1 .. Len(sess[s].schema) :
              /\ sess[s].schema[i] = c
              /\ ValidateAgainst([ver[p][v].row EXCEPT ![i] = c], catalog)
              /\ Write(s, p, [ver[p][v].row EXCEPT ![i] = c])
    BY <1>0, <1>4, Zenon DEF Update
  <2>2. v = GetRow(p, sess[s].start, sess[s].tid)
    OBVIOUS
  <2> HIDE DEF v
  <2>3. PICK i \in 1 .. Len(sess[s].schema) :
              /\ sess[s].schema[i] = c
              /\ ValidateAgainst([ver[p][v].row EXCEPT ![i] = c], catalog)
              /\ Write(s, p, [ver[p][v].row EXCEPT ![i] = c])
    BY <2>1
  <2> DEFINE row == [ver[p][v].row EXCEPT ![i] = c]
  <2>4. /\ changes - sess[s].seen # 1 /\ catalog # NoTable
        /\ lags' \subseteq {0} => ver[p][v].row = catalog /\ sess[s].schema = catalog
    BY <1>2, <2>1, <2>2, <2>3, Zenon
  <2>5. Len(row) = Len(catalog)
    BY <2>3 DEF ValidateAgainst
  <2>6. lags' \subseteq {0} => row = catalog
    <3>1. catalog \in Seq(Col)
      BY DEF SchemaInv
    <3>2. \A f \in Seq(Col), j \in 1 .. Len(catalog) : [f EXCEPT ![j] = f[j]] = f
      OBVIOUS
    <3> QED BY <2>3, <2>4, <3>1, <3>2
  <2>7. Write(s, p, row)
    BY <2>3
  <2> HIDE DEF row
  <2> QED BY <2>1, <2>4, <2>5, <2>6, <2>7, WriteData
<1> QED BY <1>1, <1>3, <1>4

\* Between DDL statements every open version fits the catalog: the next Begin sees it.
LEMMA OpenFits ==
    ASSUME DataInv, Quiet, NEW p \in Pks, NEW v \in Vids, Open(p, v)
    PROVE  Fits(ver[p][v], catalog)
<1>1. VersionsTyped /\ CountersInv /\ RowsInv
  BY DEF DataInv, Dropping, Quiet
<1>2. ver[p][v].start # 0 /\ ver[p][v].end = 0 /\ Exists(p, v) /\ IsVersion(ver[p][v])
  BY <1>1, AbsentIsVersion, SMTT(30) DEF Open, Committed, Exists, VersionsTyped
<1>3. ver[p][v].start < next.ts /\ ver[p][v].start \in Nat /\ next.ts \in Nat
  BY <1>1, <1>2 DEF CountersInv, IsVersion
<1>4. IsCommittedVisible(ver[p][v], next.ts - 1)
  BY <1>2, <1>3 DEF IsCommittedVisible, is_provisional
<1> QED BY <1>1, <1>4 DEF RowsInv, Quiet, Snapshots

\* The versions after a commit: the head of the written row is stamped, what was the
\* newest committed version of that row is closed, all others stay.
Stamped(p, n, m, ts) ==
    /\ \A q \in Pks, u \in Vids : (q # p \/ u \notin {n, m}) => ver'[q][u] = ver[q][u]
    /\ ver'[p][n].start = ts /\ ver'[p][n].end = 0
    /\ m # 0 => ver'[p][m].start = ver[p][m].start /\ ver'[p][m].end = ts
    /\ \A u \in Vids \cap {n, m} : /\ ver'[p][u].row = ver[p][u].row /\ ver'[p][u].inc = ver[p][u].inc
                                   /\ ver'[p][u].by = ver[p][u].by /\ ver'[p][u].prev = ver[p][u].prev

\* A version that is stamped changes in nothing else.
LEMMA StampedVersion ==
    ASSUME NEW t \in Nat
    PROVE  \A z : IsVersion(z) =>
              LET g == [z EXCEPT !.start = t]
              IN  /\ g.start = t /\ g.end = z.end /\ g.row = z.row /\ g.inc = z.inc
                  /\ g.by = z.by /\ g.prev = z.prev /\ IsVersion(g)
BY SMTT(30) DEF IsVersion

\* A version that is closed changes in nothing else.
LEMMA ClosedVersion ==
    ASSUME NEW t \in Nat
    PROVE  \A z : IsVersion(z) =>
              LET g == [z EXCEPT !.end = t]
              IN  /\ g.start = z.start /\ g.end = t /\ g.row = z.row /\ g.inc = z.inc
                  /\ g.by = z.by /\ g.prev = z.prev /\ IsVersion(g)
BY SMTT(30) DEF IsVersion

\* Commit stamps the version of the transaction and closes the one before it.
LEMMA CommitStamps ==
    ASSUME DataInv, Quiet, CountersInv, NEW s \in Sessions, CommitTransaction(s), sess[s].vid # 0
    PROVE  /\ VersionsTyped'
           /\ LET p == sess[s].pk  n == sess[s].vid
              IN  /\ p \in Pks /\ n \in Vids /\ head[p] = n /\ ~Committed(p, n) /\ n # Newest(p)
                  /\ Stamped(p, n, Newest(p), next.ts)
<1> DEFINE p == sess[s].pk
           n == sess[s].vid
           m == Newest(p)
           x == [ver[p][n] EXCEPT !.start = next.ts]
           y == [ver[p][m] EXCEPT !.end = next.ts]
           stamped == [ver EXCEPT ![p][n] = x]
<1>1. VersionsTyped /\ OwnerInv /\ ChainInv
  BY DEF DataInv, Dropping, Quiet
<1>2. sess[s] \in Unfinished /\ sess[s].tid # 0
  BY Zenon DEF CommitTransaction, Unfinished, Live
<1>3. /\ p \in Pks /\ n \in Vids /\ ver[p][n].by = sess[s].tid /\ ~Committed(p, n)
  BY <1>1, <1>2 DEF OwnerInv
<1>4. head[p] = n
  BY Zenon DEF CommitTransaction
<1>5. m = ver[p][n].prev
  BY <1>3, <1>4, SMTT(30) DEF Newest
<1>6. ver[p][n].end = 0
  <2>1. Exists(p, n)
    BY <1>2, <1>3, AbsentIsVersion, SMTT(30) DEF Exists
  <2> QED BY <1>1, <1>3, <2>1, SMTT(30) DEF OwnerInv
<1>7. m # 0 => m \in Vids /\ Committed(p, m) /\ ver[p][m].end = 0
  BY <1>1, <1>3 DEF ChainInv, Between, Quiet
<1>8. n # m
  BY <1>3, <1>7 DEF Vids
<1>9. ver' = IF m # 0 THEN [stamped EXCEPT ![p][m].end = next.ts] ELSE stamped
  <2>1. ver' = IF m # 0 /\ ~is_provisional(ver[p][m]) /\ ver[p][m].end = 0
               THEN [[ver EXCEPT ![p][n].start = next.ts] EXCEPT ![p][m].end = next.ts]
               ELSE [ver EXCEPT ![p][n].start = next.ts]
    BY <1>5, ZenonT(30) DEF CommitTransaction
  <2>2. m # 0 /\ ~is_provisional(ver[p][m]) /\ ver[p][m].end = 0 <=> m # 0
    BY <1>7 DEF is_provisional, Committed
  <2> QED BY <2>1, <2>2, Zenon
<1>10. next.ts \in Nat
  BY DEF CountersInv
<1>11. /\ x.start = next.ts /\ x.end = 0 /\ x.row = ver[p][n].row /\ x.inc = ver[p][n].inc
       /\ x.by = ver[p][n].by /\ x.prev = ver[p][n].prev /\ IsVersion(x)
  <2>1. \A z : IsVersion(z) =>
           LET g == [z EXCEPT !.start = next.ts]
           IN  /\ g.start = next.ts /\ g.end = z.end /\ g.row = z.row /\ g.inc = z.inc
               /\ g.by = z.by /\ g.prev = z.prev /\ IsVersion(g)
    BY <1>10, StampedVersion, Zenon
  <2>2. IsVersion(ver[p][n])
    BY <1>1, <1>3 DEF VersionsTyped
  <2> HIDE DEF p, n
  <2> QED BY <1>6, <2>1, <2>2
<1>12. ASSUME m # 0
       PROVE  /\ y.start = ver[p][m].start /\ y.end = next.ts /\ y.row = ver[p][m].row
              /\ y.inc = ver[p][m].inc /\ y.by = ver[p][m].by /\ y.prev = ver[p][m].prev
              /\ IsVersion(y)
  <2>1. \A z : IsVersion(z) =>
           LET g == [z EXCEPT !.end = next.ts]
           IN  /\ g.start = z.start /\ g.end = next.ts /\ g.row = z.row /\ g.inc = z.inc
               /\ g.by = z.by /\ g.prev = z.prev /\ IsVersion(g)
    BY <1>10, ClosedVersion, Zenon
  <2>2. IsVersion(ver[p][m])
    BY <1>1, <1>3, <1>7, <1>12 DEF VersionsTyped
  <2> HIDE DEF p, n, m
  <2> QED BY <2>1, <2>2
<1> HIDE DEF x, y, m
<1>13. CellPuts(ver, stamped, p, n, x)
  BY <1>1, <1>3, <1>11, TableTyped, Zenon DEF CellPuts
<1>14. CellIsPut(ver, stamped, p, n, x)
  BY <1>13, CellPut, Zenon
<1> HIDE DEF stamped
<1>15. head' = head
  BY Zenon DEF CommitTransaction
<1>16. head' \in [Pks -> 0 .. MaxVid]
  BY <1>1, <1>15 DEF VersionsTyped
<1>17. CASE m = 0
  <2>1. ver' = stamped
    BY <1>9, <1>17
  <2>2. VersionsTyped'
    BY <1>14, <1>16, <2>1, TableTypedNext, Zenon DEF CellIsPut
  <2>3. 0 \notin Vids
    BY DEF Vids
  <2>4. /\ \A q \in Pks, u \in Vids : (q # p \/ u \notin {n, m}) => ver'[q][u] = ver[q][u]
        /\ ver'[p][n] = x
    BY <1>14, <2>1, Zenon DEF CellIsPut
  <2>5. Stamped(p, n, m, next.ts)
    BY <1>11, <1>17, <2>3, <2>4, Zenon DEF Stamped
  <2> QED BY <1>3, <1>4, <1>8, <2>2, <2>5, Zenon DEF m
<1>18. CASE m # 0
  <2>1. stamped[p][m] = ver[p][m]
    BY <1>3, <1>7, <1>8, <1>14, <1>18, Zenon DEF CellIsPut
  <2>2. ver' = [stamped EXCEPT ![p][m] = y]
    BY <1>9, <1>18, <2>1, Zenon DEF y
  <2>3. CellPuts(stamped, ver', p, m, y)
    BY <1>3, <1>7, <1>12, <1>14, <1>18, <2>2, Zenon DEF CellPuts, CellIsPut
  <2>4. CellIsPut(stamped, ver', p, m, y)
    BY <2>3, CellPut, Zenon
  <2>5. VersionsTyped'
    BY <1>16, <2>4, TableTypedNext, Zenon DEF CellIsPut
  <2>6. \A q \in Pks, u \in Vids : (q # p \/ u \notin {n, m}) => ver'[q][u] = ver[q][u]
    BY <1>14, <2>4, Zenon DEF CellIsPut
  <2>7. ver'[p][n] = x /\ ver'[p][m] = y
    BY <1>3, <1>8, <1>14, <2>4, Zenon DEF CellIsPut
  <2>8. Stamped(p, n, m, next.ts)
    BY <1>11, <1>12, <1>18, <2>6, <2>7, Zenon DEF Stamped
  <2> QED BY <1>3, <1>4, <1>8, <2>5, <2>8, Zenon DEF m
<1> QED BY <1>17, <1>18, Zenon

\* Commit keeps DataInv.
LEMMA CommitData ==
    ASSUME DataInv, GateInv, NEW s \in Sessions, CommitTransaction(s)
    PROVE  DataInv'
<1>1. /\ sess = [r \in Sessions |-> sess[r]] /\ (\A r \in Sessions : IsSession(sess[r]))
      /\ IsCounters(next) /\ IdsDiffer
  BY DEF GateInv, GateType
<1>2. /\ op = Idle /\ UNCHANGED <<catalog, incarnation, lags, head, op, lost>>
      /\ sess[s].tid # 0 /\ sess' = [sess EXCEPT ![s] = NoSession]
      /\ next' = [next EXCEPT !.ts = @ + 1] /\ stored' = next'
      /\ sess[s].vid = 0 => ver' = ver
  BY ZenonT(30) DEF CommitTransaction, history
<1>3. VersionsTyped /\ CountersInv /\ OwnerInv /\ ChainInv /\ RowsInv /\ 1 \notin lags
  BY <1>2 DEF DataInv, Dropping, Idle
<1>4. op.pc = "idle" /\ op'.pc = "idle" /\ Quiet
  BY <1>2 DEF Idle, Quiet
<1>5. /\ next'.ts = next.ts + 1 /\ next'.vid = next.vid /\ next'.txn = next.txn
      /\ next.ts \in Nat \ {0} /\ next.vid \in Nat \ {0} /\ next.txn \in Nat \ {0}
  BY <1>1, <1>2, <1>3, SMTT(30) DEF IsCounters, CountersInv
<1> DEFINE p == sess[s].pk
           n == sess[s].vid
           m == Newest(p)
\* What a commit does to versions; p and n count only when the transaction wrote.
<1>6. n # 0 => /\ p \in Pks /\ n \in Vids /\ head[p] = n /\ ~Committed(p, n) /\ n # m
               /\ Stamped(p, n, m, next.ts)
  BY <1>3, <1>4, CommitStamps
<1>7. VersionsTyped'
  <2>1. CASE n = 0
    BY <1>2, <1>3, <2>1 DEF VersionsTyped, IsVersion
  <2> QED BY <1>3, <1>4, <2>1, CommitStamps
<1>8. m # 0 /\ n # 0 => m \in Vids /\ Committed(p, m) /\ ver[p][m].end = 0
  BY <1>3, <1>4, <1>6, Zenon DEF ChainInv, Between
<1>9. \A r \in Sessions : sess'[r] = IF r = s THEN NoSession ELSE sess[r]
  BY <1>1, <1>2, Zenon
<1>10. NoSession.tid = 0 /\ NoSession.vid = 0 /\ ~NoSession.listed
  BY DEF NoSession
<1>11. s \in Live /\ sess[s] \in Unfinished
  BY <1>2 DEF Live, Unfinished
<1>12. \A r \in Live' : r \in Live /\ r # s /\ sess'[r] = sess[r]
  BY <1>9, <1>10 DEF Live
<1>13. ASSUME NEW x \in Unfinished' PROVE x \in Unfinished /\ x.tid # sess[s].tid /\ x.tid # 0
  <2>1. CASE x \in lost'
    BY <1>1, <1>2, <1>11, <2>1 DEF Unfinished, IdsDiffer
  <2>2. CASE x \notin lost'
    <3>1. PICK r \in Live' : x = sess'[r]
      BY <1>13, <2>2 DEF Unfinished
    <3>2. r # s /\ r \in Live /\ x = sess[r]
      BY <1>12, <3>1
    <3> QED BY <1>1, <1>11, <3>2 DEF Unfinished, IdsDiffer, Live
  <2> QED BY <2>1, <2>2
\* Every version, whatever its row, before and after.
<1>14. ASSUME NEW q \in Pks, NEW u \in Vids
       PROVE  \/ ver'[q][u] = ver[q][u] /\ (n = 0 \/ q # p \/ u \notin {n, m})
              \/ /\ n # 0 /\ q = p /\ u = n /\ u # m
                 /\ ver'[q][u].start = next.ts /\ ver'[q][u].end = 0 /\ ver[q][u].start = 0
                 /\ ver'[q][u].by = ver[q][u].by
                 /\ ver'[q][u].row = ver[q][u].row /\ ver'[q][u].inc = ver[q][u].inc
              \/ /\ n # 0 /\ q = p /\ u = m /\ u # n
                 /\ ver'[q][u].start = ver[q][u].start /\ ver[q][u].start # 0
                 /\ ver'[q][u].end = next.ts /\ ver[q][u].end = 0
                 /\ ver'[q][u].by = ver[q][u].by
                 /\ ver'[q][u].row = ver[q][u].row /\ ver'[q][u].inc = ver[q][u].inc
  <2>1. CASE n = 0
    BY <1>2, <2>1
  <2>2. CASE n # 0 /\ (q # p \/ u \notin {n, m})
    BY <1>6, <2>2, Zenon DEF Stamped
  <2>3. CASE n # 0 /\ q = p /\ u = n
    BY <1>6, <2>3, Zenon DEF Stamped, Committed
  <2>4. CASE n # 0 /\ q = p /\ u = m /\ u # n
    <3>1. m # 0
      BY <2>4 DEF Vids
    <3> QED BY <1>6, <1>8, <2>4, <3>1, Zenon DEF Stamped, Committed
  <2> QED BY <2>1, <2>2, <2>3, <2>4, Zenon
<1>15. n # 0 => ver[p][n].by = sess[s].tid /\ Exists(p, n)
  BY <1>2, <1>3, <1>11, AbsentIsVersion DEF OwnerInv, Exists
<1>16. \A q \in Pks, u \in Vids :
          /\ IsVersion(ver[q][u])
          /\ Exists(q, u) => /\ u < next.vid /\ ver[q][u].start < next.ts
                             /\ ver[q][u].end < next.ts /\ ver[q][u].by < next.txn
  BY <1>3 DEF CountersInv, VersionsTyped
<1> HIDE DEF p, n, m
<1>17. CountersInv'
  <2>1. ASSUME NEW q \in Pks, NEW u \in Vids, Exists(q, u)'
        PROVE  /\ u < next'.vid /\ ver'[q][u].start < next'.ts
               /\ ver'[q][u].end < next'.ts /\ ver'[q][u].by < next'.txn
    <3>1. Exists(q, u)
      <4>1. CASE n # 0 /\ q = p /\ u = n
        BY <1>15, <4>1
      <4>2. CASE ver'[q][u] = ver[q][u]
        BY <2>1, <4>2 DEF Exists
      <4>3. CASE ver[q][u].start # 0
        BY <4>3, AbsentIsVersion DEF Exists
      <4> QED BY <1>14, <4>1, <4>2, <4>3
    <3>2. /\ IsVersion(ver[q][u])
          /\ u < next.vid /\ ver[q][u].start < next.ts /\ ver[q][u].end < next.ts
          /\ ver[q][u].by < next.txn
      BY <1>16, <3>1
    <3>3. ver'[q][u].by = ver[q][u].by
      BY <1>14
    <3>4. ver'[q][u].start \in {ver[q][u].start, next.ts} /\ ver'[q][u].end \in {ver[q][u].end, next.ts, 0}
      BY <1>14
    <3> QED BY <1>5, <3>2, <3>3, <3>4, SMTT(30) DEF IsVersion
  <2>2. next'.ts \in Nat \ {0} /\ next'.vid \in Nat \ {0} /\ next'.txn \in Nat \ {0}
    BY <1>5
  <2>3. ~Altering' /\ op'.pc # "persist_vid"
    BY <1>4 DEF Altering
  <2>4. \A t \in Unfinished' : t.start \in Nat /\ t.start < next'.ts
    BY <1>3, <1>5, <1>13 DEF CountersInv
  <2> QED BY <1>2, <2>1, <2>2, <2>3, <2>4, Zenon DEF CountersInv
<1>18. OwnerInv'
  <2>1. \A r \in Sessions : sess'[r].tid = 0 => sess'[r].vid = 0 /\ ~sess'[r].listed
    BY <1>3, <1>9, <1>10, SMTT(30) DEF OwnerInv
  <2>2. ASSUME NEW x \in Unfinished'
        PROVE  /\ x.listed => x.vid # 0
               /\ x.vid # 0 => /\ x.pk \in Pks /\ x.vid \in Vids
                               /\ ver'[x.pk][x.vid].by = x.tid /\ ver'[x.pk][x.vid].start = 0
    <3>1. x \in Unfinished /\ x.tid # sess[s].tid
      BY <1>13, SMTT(30)
    <3>2. /\ x.listed => x.vid # 0
          /\ x.vid # 0 => /\ x.pk \in Pks /\ x.vid \in Vids
                          /\ ver[x.pk][x.vid].by = x.tid /\ ver[x.pk][x.vid].start = 0
      BY <1>3, <3>1, SMTT(30) DEF OwnerInv, Committed
    <3>3. n # 0 => ver[p][n].by = sess[s].tid
      BY <1>15
    <3> QED BY <1>14, <3>1, <3>2, <3>3
  <2>3. ASSUME NEW q \in Pks, NEW u \in Vids, ver'[q][u] # Absent, ver'[q][u].start = 0
        PROVE  /\ ver'[q][u].by # 0 /\ ver'[q][u].end = 0
               /\ \A x \in Unfinished' : ver'[q][u].by = x.tid => x.pk = q /\ x.vid = u
    <3>1. ver'[q][u] = ver[q][u]
      BY <1>5, <1>14, <2>3
    <3> QED BY <1>3, <1>13, <2>3, <3>1, SMTT(30) DEF OwnerInv, Exists, Committed
  <2>4. op'.pc # "list"
    BY <1>4
  <2> QED BY <2>1, <2>2, <2>3, <2>4, Zenon DEF OwnerInv, Committed, Exists
<1>19. \A q \in Pks : Newest(q)' = IF n # 0 /\ q = p THEN n ELSE Newest(q)
  <2> SUFFICES ASSUME NEW q \in Pks PROVE Newest(q)' = IF n # 0 /\ q = p THEN n ELSE Newest(q)
    BY SMTT(30)
  <2>1. CASE n # 0 /\ q = p
    <3>1. head'[q] = n /\ ver'[q][n].start = next.ts
      BY <1>2, <1>6, <2>1 DEF Stamped, n, p
    <3> QED BY <1>5, <2>1, <3>1, ZenonT(30) DEF Newest, Committed
  <2>2. CASE ~(n # 0 /\ q = p)
    <3>1. head[q] # 0 => head[q] \in Vids
      BY <1>3, DdlBounds, SMTT(30) DEF VersionsTyped, Vids
    <3>2. head[q] # 0 => ver'[q][head[q]] = ver[q][head[q]]
      BY <1>14, <2>2, <3>1
    <3> QED BY <1>2, <2>2, <3>2, Zenon DEF Newest, Committed
  <2> QED BY <2>1, <2>2
<1>20. /\ \A q \in Pks : Newest(q) # 0 =>
            Newest(q) \in Vids /\ Committed(q, Newest(q)) /\ ver[q][Newest(q)].end = 0
       /\ \A q \in Pks, u \in Vids : Open(q, u) => u = Newest(q)
  BY <1>3, <1>4, Zenon DEF ChainInv, Between
<1>21. ASSUME NEW q \in Pks, NEW u \in Vids, Open(q, u)'
       PROVE  u = Newest(q)' /\ (n # 0 /\ q = p => u = n) /\ (n = 0 \/ q # p => Open(q, u))
  <2>1. CASE n # 0 /\ q = p /\ u = n
    BY <1>19, <2>1
  <2>2. CASE ver'[q][u] = ver[q][u] /\ (n = 0 \/ q # p \/ u \notin {n, m})
    <3>1. Open(q, u) /\ u = Newest(q)
      BY <1>20, <1>21, <2>2 DEF Open, Committed
    <3> QED BY <1>19, <2>2, <3>1 DEF m
  <2>3. CASE ver'[q][u].end = next.ts
    BY <1>5, <1>21, <2>3 DEF Open
  <2> QED BY <1>14, <2>1, <2>2, <2>3
<1>22. ChainInv'
  <2>1. ASSUME NEW q \in Pks, head'[q] # 0 PROVE ver'[q][head'[q]] # Absent
    <3>0. head[q] \in Vids
      BY <1>2, <1>3, <2>1, DdlBounds DEF VersionsTyped, Vids
    <3>1. head[q] \in Vids /\ ver[q][head[q]] # Absent /\ head'[q] = head[q]
      BY <1>2, <1>3, <2>1, <3>0, Zenon DEF ChainInv, Exists
    <3>2. \/ ver'[q][head[q]] = ver[q][head[q]]
          \/ ver'[q][head[q]].start = next.ts
          \/ ver'[q][head[q]].end = next.ts
      BY <1>14, <3>1, ZenonT(30)
    <3> QED BY <1>5, <3>1, <3>2 DEF Absent
  <2>2. ASSUME NEW q \in Pks, Newest(q)' # 0
        PROVE  Newest(q)' \in Vids /\ Committed(q, Newest(q))' /\ ver'[q][Newest(q)'].end = 0
    <3>1. CASE n # 0 /\ q = p
      <4>1. Newest(q)' = n /\ n \in Vids /\ ver'[q][n].start = next.ts /\ ver'[q][n].end = 0
        BY <1>6, <1>19, <3>1, Zenon DEF Stamped, n, p
      <4> QED BY <1>5, <4>1 DEF Committed
    <3>2. CASE ~(n # 0 /\ q = p)
      <4>1. Newest(q)' = Newest(q) /\ Newest(q) \in Vids /\ ver'[q][Newest(q)] = ver[q][Newest(q)]
        BY <1>14, <1>19, <1>20, <2>2, <3>2
      <4> QED BY <1>20, <2>2, <4>1, Zenon DEF Committed
    <3> QED BY <3>1, <3>2
  <2>3. \A q \in Pks : ~Between(q)'
    BY <1>4, SMTT(30) DEF Between
  <2> QED BY <1>21, <2>1, <2>2, <2>3, Zenon DEF ChainInv, Exists
<1>24. \A q \in Pks, u \in Vids : ver'[q][u].row = ver[q][u].row /\ ver'[q][u].inc = ver[q][u].inc
  BY <1>14
<1>25. \A q \in Pks, u \in Vids : Fits(ver[q][u], catalog) => Fits(ver[q][u], catalog)'
  BY <1>2, <1>24 DEF Fits
<1>26. RowsInv'
  <2>1. ASSUME NEW q \in Pks, NEW u \in Vids, NEW ts \in Snapshots', IsCommittedVisible(ver'[q][u], ts)
        PROVE  Fits(ver[q][u], catalog)
    <3>1. IsVersion(ver'[q][u]) /\ ver'[q][u].start \in Nat /\ ver'[q][u].end \in Nat
      BY <1>7 DEF VersionsTyped, IsVersion
    <3>2. CASE ts = next.ts
      <4>1. Open(q, u)'
        <5>1. Exists(q, u)'
          BY <2>1, AbsentIsVersion DEF IsCommittedVisible, is_provisional, Exists
        <5>2. ver'[q][u].end < next.ts + 1
          BY <1>5, <1>17, <5>1 DEF CountersInv
        <5> QED BY <1>5, <2>1, <3>1, <3>2, <5>2 DEF Open, Committed, IsCommittedVisible, is_provisional
      <4>2. CASE n # 0 /\ q = p
        <5>1. u = n
          BY <1>19, <1>21, <4>1, <4>2
        <5>2. Fits(ver[sess[s].pk][sess[s].vid], catalog)
          BY <1>3, <1>4, <1>11, <4>2 DEF RowsInv, n
        <5> QED BY <4>2, <5>1, <5>2 DEF n, p
      <4>3. CASE ~(n # 0 /\ q = p)
        <5>1. Open(q, u)
          BY <1>21, <4>1, <4>3
        <5> QED BY <1>4, <5>1, OpenFits
      <4> QED BY <4>2, <4>3, SMTT(30)
    <3>3. CASE ts # next.ts
      <4>1. PICK r \in Live' : ts = sess'[r].start
        BY <1>5, <3>3 DEF Snapshots
      <4>2. r \in Live /\ sess'[r] = sess[r]
        BY <1>12, <4>1
      <4>3. sess[r] \in Unfinished /\ ts \in Snapshots
        BY <4>1, <4>2 DEF Unfinished, Snapshots
      <4>4. ts \in Nat /\ ts < next.ts
        BY <1>3, <4>1, <4>2, <4>3, ZenonT(30) DEF CountersInv
      <4>5. IsCommittedVisible(ver[q][u], ts)
        BY <1>5, <1>14, <2>1, <4>4 DEF IsCommittedVisible, is_provisional
      <4> QED BY <1>3, <1>4, <4>3, <4>5 DEF RowsInv
    <3> QED BY <3>2, <3>3
  <2>2. ASSUME NEW r \in Live', sess'[r].vid # 0 PROVE Fits(ver[sess[r].pk][sess[r].vid], catalog)'
    <3>1. r \in Live /\ sess'[r] = sess[r] /\ sess[r] \in Unfinished
      BY <1>12, SMTT(30) DEF Unfinished
    <3>2. sess[r].pk \in Pks /\ sess[r].vid \in Vids
      BY <1>3, <2>2, <3>1 DEF OwnerInv
    <3>3. Fits(ver[sess[r].pk][sess[r].vid], catalog)
      BY <1>3, <1>4, <2>2, <3>1 DEF RowsInv
    <3> QED BY <1>2, <1>24, <3>1, <3>2, <3>3, Zenon DEF Fits
  <2> QED BY <1>25, <2>1, <2>2, Zenon DEF RowsInv, IsCommittedVisible, is_provisional
<1>27. AlterInv' /\ Alone' /\ op'.pc # "drop_versions" /\ 1 \notin lags'
  BY <1>2, <1>3, <1>4 DEF AlterInv, Alone, Altering
<1> QED BY <1>7, <1>17, <1>18, <1>22, <1>26, <1>27, Zenon DEF DataInv

\* The gate is open only when no transaction is left.
LEMMA GateAlone ==
    ASSUME GateInv, open_txn_count = 0
    PROVE  Unfinished = {}
<1>1. open_txn_count = Cardinality(Live) + Cardinality(lost) /\ IsFiniteSet(lost)
  BY DEF GateInv, GateExact, GateType
<1>2. IsFiniteSet(Live)
  BY DdlBounds, FS_Subset DEF Live
<1>3. Cardinality(Live) \in Nat /\ Cardinality(lost) \in Nat
  BY <1>1, <1>2, FS_CardinalityType
<1>4. Cardinality(Live) = 0 /\ Cardinality(lost) = 0
  BY <1>1, <1>3
<1>5. Live = {} /\ lost = {}
  BY <1>1, <1>2, <1>4, FS_EmptySet
<1> QED BY <1>5 DEF Unfinished

\* Without transactions only the version part of OwnerInv says anything.
LEMMA AloneOwners ==
    ASSUME OwnerInv, Unfinished = {}, UNCHANGED <<sess, lost>>, op'.pc # "list",
           \A p \in Pks, v \in Vids : Exists(p, v)' /\ ~Committed(p, v)' =>
               ver'[p][v].by # 0 /\ ver'[p][v].end = 0
    PROVE  OwnerInv' /\ Unfinished' = {} /\ Live' = {} /\ Snapshots' = {next'.ts - 1}
<1>1. Unfinished' = {} /\ Live' = {}
  BY DEF Unfinished, Live
<1>2. Snapshots' = {next'.ts - 1}
  BY <1>1, Zenon DEF Snapshots
<1>3. \A s \in Sessions : sess'[s].tid = 0 => sess'[s].vid = 0 /\ ~sess'[s].listed
  BY SMTT(30) DEF OwnerInv
<1> QED BY <1>1, <1>2, <1>3, Zenon DEF OwnerInv

\* Provisional versions that are left alone keep their owner.
LEMMA ProvisionalKept ==
    ASSUME OwnerInv, ver' = ver
    PROVE  \A p \in Pks, v \in Vids : Exists(p, v)' /\ ~Committed(p, v)' =>
               ver'[p][v].by # 0 /\ ver'[p][v].end = 0
BY DEF OwnerInv, Exists, Committed

\* CREATE: what was left in the store of an earlier table is not seen.
LEMMA CreateData ==
    ASSUME DataInv, GateInv, SchemaInv, NEW schema, CreateTable(schema)
    PROVE  DataInv'
<1>1. /\ op = Idle /\ open_txn_count = 0 /\ catalog = NoTable
      /\ UNCHANGED <<ver, head, stored, next, sess, op, lags, lost>>
  BY TableIsCatalog, Zenon DEF CreateTable, Gate, SchemaInv
<1>2. VersionsTyped /\ CountersInv /\ OwnerInv /\ ChainInv /\ RowsInv /\ 1 \notin lags /\ op.pc = "idle"
  BY <1>1 DEF DataInv, Dropping, Idle
<1>3. Unfinished = {}
  BY <1>1, GateAlone, SMTT(30)
<1>4. OwnerInv' /\ Unfinished' = {} /\ Live' = {} /\ Snapshots' = {next.ts - 1}
  BY <1>1, <1>2, <1>3, AloneOwners, ProvisionalKept
<1>5. next.ts - 1 \in Snapshots
  BY DEF Snapshots
<1>6. RowsInv'
  <2>1. \A p \in Pks, v \in Vids : IsCommittedVisible(ver[p][v], next.ts - 1) => ver[p][v].row = <<>>
    BY <1>1, <1>2, <1>5 DEF RowsInv, Fits
  <2> QED BY <1>1, <1>4, <2>1, ZenonT(30) DEF RowsInv, Fits, IsCommittedVisible, is_provisional
<1>7. CountersInv'
  BY <1>1, <1>2, <1>4, Zenon DEF CountersInv, Exists, Altering
<1>8. ChainInv'
  BY <1>1, <1>2, Zenon DEF ChainInv, Exists, Newest, Committed, Open, Between, Current
<1>9. VersionsTyped' /\ Alone' /\ AlterInv' /\ op'.pc # "drop_versions" /\ 1 \notin lags'
  BY <1>1, <1>2 DEF VersionsTyped, IsVersion, Alone, AlterInv, Altering
<1> QED BY <1>4, <1>6, <1>7, <1>8, <1>9, Zenon DEF DataInv

\* DROP: heads, then versions; in between nothing is claimed of them.
LEMMA DropData ==
    ASSUME DataInv, GateInv, SchemaInv, DropTable \/ DeleteHeads \/ DeleteVersions
    PROVE  DataInv'
<1>1. VersionsTyped /\ CountersInv /\ OwnerInv /\ 1 \notin lags /\ IsOp(op)
  BY DEF DataInv, GateInv, GateType
<1>2. ASSUME Dropping', Unfinished = {}, UNCHANGED <<sess, lost, next, stored, lags>>, VersionsTyped',
             \A p \in Pks, v \in Vids : ver'[p][v] # Absent => ver'[p][v] = ver[p][v],
             op'.pc = "drop_versions" => \A p \in Pks : head'[p] = 0,
             stored = next
      PROVE  DataInv'
  <2>1. \A p \in Pks, v \in Vids : Exists(p, v)' /\ ~Committed(p, v)' =>
               ver'[p][v].by # 0 /\ ver'[p][v].end = 0
    <3> SUFFICES ASSUME NEW p \in Pks, NEW v \in Vids, Exists(p, v)', ~Committed(p, v)'
                 PROVE  ver'[p][v].by # 0 /\ ver'[p][v].end = 0
      OBVIOUS
    <3>1. ver'[p][v] = ver[p][v]
      BY <1>2, Zenon DEF Exists
    <3>2. Exists(p, v) /\ ~Committed(p, v)
      BY <3>1, Zenon DEF Exists, Committed
    <3>3. ver[p][v].by # 0 /\ ver[p][v].end = 0
      BY <1>1, <3>2, Zenon DEF OwnerInv
    <3> QED BY <3>1, <3>3
  <2>2. OwnerInv' /\ Unfinished' = {}
    BY <1>1, <1>2, <2>1, AloneOwners, Zenon DEF Dropping
  <2>3. ~Altering' /\ op'.pc # "persist_vid"
    BY <1>2, ZenonT(30) DEF Altering, Dropping
  <2>4. \A p \in Pks, v \in Vids : ver'[p][v] # Absent =>
          /\ v < next.vid /\ ver'[p][v].start < next.ts
          /\ ver'[p][v].end < next.ts /\ ver'[p][v].by < next.txn
    BY <1>1, <1>2, SMTT(30) DEF CountersInv, Exists
  <2>5. next.ts \in Nat \ {0} /\ next.vid \in Nat \ {0} /\ next.txn \in Nat \ {0}
    BY <1>1 DEF CountersInv
  <2>6. CountersInv'
    BY <1>2, <2>2, <2>3, <2>4, <2>5, Zenon DEF CountersInv, Exists
  <2> QED BY <1>1, <1>2, <2>2, <2>6, Zenon DEF DataInv, Alone
<1>3. CASE DropTable
  <2>1. /\ op = Idle /\ open_txn_count = 0 /\ op' = [Idle EXCEPT !.pc = "drop_heads"]
        /\ UNCHANGED <<ver, head, stored, next, sess, lags, lost>>
    BY <1>3, Zenon DEF DropTable, Gate
  <2>2. op'.pc = "drop_heads" /\ op.pc = "idle"
    BY <2>1 DEF Idle
  <2>3. Unfinished = {} /\ stored = next
    BY <1>1, <2>1, <2>2, GateAlone DEF CountersInv
  <2>4. VersionsTyped' /\ Dropping'
    BY <1>1, <2>1, <2>2 DEF VersionsTyped, IsVersion, Dropping
  <2> QED BY <1>2, <2>1, <2>2, <2>3, <2>4
<1>4. CASE DeleteHeads
  <2>1. /\ op.pc = "drop_heads"
        /\ UNCHANGED <<ver, stored, next, sess, lags, lost>>
        /\ \/ op' = op /\ \E p \in Pks : head' = [head EXCEPT ![p] = 0]
           \/ op' = [op EXCEPT !.pc = "drop_versions"] /\ head' = head /\ \A p \in Pks : head[p] = 0
    BY <1>4, ZenonT(30) DEF DeleteHeads, history
  <2>2. Unfinished = {} /\ stored = next
    BY <1>1, <2>1 DEF CountersInv, DataInv, Alone
  <2>3. [op EXCEPT !.pc = "drop_versions"].pc = "drop_versions"
    BY <1>1, OpKeeps
  <2>4. Dropping' /\ (op'.pc = "drop_versions" => \A p \in Pks : head'[p] = 0)
    BY <2>1, <2>3, Zenon DEF Dropping
  <2>5. head' \in [Pks -> 0 .. MaxVid]
    BY <1>1, <2>1, DdlBounds DEF VersionsTyped
  <2>6. VersionsTyped'
    BY <1>1, <2>1, <2>5, Zenon DEF VersionsTyped, IsVersion
  <2> QED BY <1>2, <2>1, <2>2, <2>4, <2>6
<1>5. CASE DeleteVersions
  <2>1. /\ op.pc = "drop_versions"
        /\ UNCHANGED <<head, stored, next, sess, lags, lost>>
        /\ \/ op' = op /\ \E p \in Pks : ver' = [ver EXCEPT ![p] = [v \in Vids |-> Absent]]
           \/ op' = Idle /\ ver' = ver /\ \A p \in Pks, v \in Vids : ver[p][v] = Absent
    BY <1>5, ZenonT(30) DEF DeleteVersions, history
  <2>2. Unfinished = {} /\ stored = next /\ \A p \in Pks : head[p] = 0
    BY <1>1, <2>1 DEF CountersInv, DataInv, Alone
  <2>3. ASSUME op' = op, NEW p \in Pks, ver' = [ver EXCEPT ![p] = [v \in Vids |-> Absent]]
        PROVE  DataInv'
    <3>1. Puts(ver, ver', Pks, p, [v \in Vids |-> Absent]) /\ IsTable(ver)
      BY <1>1, <2>3, TableTyped, Zenon DEF Puts, IsTable
    <3>2. IsPut(ver, ver', Pks, p, [v \in Vids |-> Absent])
      BY <3>1, Replaced, Zenon
    <3>3. /\ IsFun(ver', Pks) /\ ver'[p] = [v \in Vids |-> Absent]
          /\ \A q \in Pks : q # p => ver'[q] = ver[q]
      BY <3>2, Zenon DEF IsPut
    <3>4. IsFun(ver'[p], Vids) /\ \A v \in Vids : ver'[p][v] = Absent
      BY <3>3, Zenon DEF IsFun
    <3>5. IsTable(ver')
      BY <3>1, <3>3, <3>4, AbsentIsVersion, Zenon DEF IsTable
    <3>6. head' \in [Pks -> 0 .. MaxVid]
      BY <1>1, <2>1 DEF VersionsTyped
    <3>7. \A q \in Pks, v \in Vids : ver'[q][v] # Absent => ver'[q][v] = ver[q][v]
      BY <3>3, <3>4, Zenon
    <3>8. Dropping'
      BY <2>1, <2>3 DEF Dropping
    <3> QED BY <1>2, <2>1, <2>2, <3>5, <3>6, <3>7, <3>8, TableTypedNext, ZenonT(30)
  <2>4. ASSUME op' = Idle, ver' = ver, \A p \in Pks, v \in Vids : ver[p][v] = Absent
        PROVE  DataInv'
    <3>1. op'.pc = "idle"
      BY <2>4 DEF Idle
    <3>2. OwnerInv' /\ Unfinished' = {} /\ Live' = {}
      BY <1>1, <2>1, <2>2, <2>4, <3>1, AloneOwners, ProvisionalKept, ZenonT(30)
    <3>3. VersionsTyped'
      BY <1>1, <2>1, <2>4, ZenonT(30) DEF VersionsTyped, IsVersion
    <3>4. CountersInv'
      <4>1. next.ts \in Nat \ {0} /\ next.vid \in Nat \ {0} /\ next.txn \in Nat \ {0}
        BY <1>1 DEF CountersInv
      <4> QED BY <2>1, <2>2, <2>4, <3>1, <3>2, <4>1 DEF CountersInv, Exists, Altering
    <3>5. ChainInv'
      <4>1. \A p \in Pks : head'[p] = 0 /\ Newest(p)' = 0
        BY <2>1, <2>2 DEF Newest
      <4>2. \A p \in Pks, v \in Vids : ~Open(p, v)'
        BY <2>4, AbsentIsVersion, SMTT(30) DEF Open, Committed
      <4> QED BY <4>1, <4>2, Zenon DEF ChainInv
    <3>6. RowsInv'
      BY <2>4, <3>2, AbsentIsVersion DEF RowsInv, Fits
    <3>7. AlterInv' /\ Alone' /\ op'.pc # "drop_versions" /\ 1 \notin lags'
      BY <1>1, <2>1, <3>1, Zenon DEF AlterInv, Alone, Altering
    <3> QED BY <3>2, <3>3, <3>4, <3>5, <3>6, <3>7, Zenon DEF DataInv
  <2> QED BY <2>1, <2>3, <2>4
<1> QED BY <1>3, <1>4, <1>5

\* ALTER starts: every open version is under a head, so it is still to come.
LEMMA StartAlterData ==
    ASSUME DataInv, GateInv, SchemaInv, NEW neu, NEW drop, StartAlter(neu, drop)
    PROVE  DataInv'
<1>1. /\ op = Idle /\ open_txn_count = 0
      /\ next.vid + Cardinality({p \in Pks : head[p] # 0}) <= MaxVid + 1
      /\ UNCHANGED <<catalog, ver, head, stored, sess, lags, lost, incarnation>>
      /\ next' = [next EXCEPT !.ts = @ + 1]
      /\ op' = [Idle EXCEPT !.pc = "close", !.old = catalog, !.neu = neu, !.drop = drop,
                            !.pks = {p \in Pks : head[p] # 0}, !.ts = next.ts]
  BY TableIsCatalog, ZenonT(30) DEF StartAlter, Gate, SchemaInv, durable, history
<1>2. /\ VersionsTyped /\ CountersInv /\ OwnerInv /\ ChainInv /\ RowsInv /\ 1 \notin lags
      /\ op.pc = "idle" /\ Quiet
  BY <1>1 DEF DataInv, Dropping, Idle, Quiet
<1>3. /\ op'.pc = "close" /\ op'.old = catalog /\ op'.ts = next.ts
      /\ op'.pks = {p \in Pks : head[p] # 0}
  BY <1>1 DEF Idle
<1>4. /\ next'.ts = next.ts + 1 /\ next'.vid = next.vid /\ next'.txn = next.txn
      /\ next.ts \in Nat \ {0} /\ next.vid \in Nat \ {0} /\ next.txn \in Nat \ {0}
  BY <1>1, <1>2 DEF GateInv, GateType, IsCounters, CountersInv
<1>5. Unfinished = {}
  BY <1>1, GateAlone
<1>6. OwnerInv' /\ Unfinished' = {}
  BY <1>1, <1>2, <1>3, <1>5, AloneOwners, ProvisionalKept
<1>7. VersionsTyped' /\ Alone' /\ op'.pc # "drop_versions" /\ 1 \notin lags' /\ RowsInv'
  BY <1>1, <1>2, <1>3, <1>6 DEF VersionsTyped, IsVersion, Alone, RowsInv
<1>8. CountersInv'
  <2>1. \A p \in Pks, v \in Vids : Exists(p, v) =>
          /\ v < next.vid /\ ver[p][v].start < next.ts + 1
          /\ ver[p][v].end < next.ts + 1 /\ ver[p][v].by < next.txn
    <3>1. \A p \in Pks, v \in Vids : ver[p][v].start \in Nat /\ ver[p][v].end \in Nat
      BY <1>2, Zenon DEF VersionsTyped, IsVersion
    <3>2. ASSUME NEW p \in Pks, NEW v \in Vids, Exists(p, v)
          PROVE  /\ v < next.vid /\ ver[p][v].start < next.ts
                 /\ ver[p][v].end < next.ts /\ ver[p][v].by < next.txn
      BY <1>2, <3>2, Zenon DEF CountersInv
    <3>3. \A m \in Nat : m < next.ts => m < next.ts + 1
      BY <1>4, SMT
    <3> QED BY <3>1, <3>2, <3>3, Zenon
  <2>2. stored = next
    BY <1>2 DEF CountersInv
  <2> QED BY <1>1, <1>3, <1>4, <1>6, <2>1, <2>2, SMTT(30) DEF CountersInv, Exists
<1>9. /\ \A p \in Pks : Newest(p)' = Newest(p) /\ ~Between(p) /\ ~Between(p)'
      /\ \A p \in Pks, v \in Vids : Open(p, v)' <=> Open(p, v)
  BY <1>1, <1>2, <1>3 DEF Newest, Committed, Between, Open
<1>10. ChainInv'
  BY <1>1, <1>2, <1>9, Zenon DEF ChainInv, Exists, Committed
<1>11. AlterInv'
  <2>1. ASSUME NEW p \in Pks, NEW v \in Vids, Open(p, v)
        PROVE  p \in op'.pks /\ Fits(ver[p][v], catalog)
    <3>1. v = Newest(p) /\ v # 0
      <4>1. v = Newest(p)
        BY <1>2, <1>9, <2>1, Zenon DEF ChainInv
      <4> QED BY <2>1, <4>1, SMT DEF Vids
    <3>2. head[p] # 0
      BY <3>1 DEF Newest
    <3> QED BY <1>2, <1>3, <2>1, <3>2, OpenFits, Zenon
  <2>3. ASSUME NEW p \in Pks, NEW v \in Vids, Open(p, v)'
        PROVE  Fits(ver[p][v], IF p \in op.pks /\ ~Between(p) THEN op.old ELSE op.neu)'
    <3>1. p \in op'.pks /\ Fits(ver[p][v], catalog) /\ ~Between(p)'
      BY <1>9, <2>1, <2>3, Zenon
    <3> QED BY <1>1, <1>3, <3>1 DEF Fits
  <2>4. next'.vid + Cardinality(op'.pks) <= MaxVid + 1
    BY <1>1, <1>3, <1>4
  <2> QED BY <1>3, <2>3, <2>4, ZenonT(30) DEF AlterInv
<1> QED BY <1>6, <1>7, <1>8, <1>10, <1>11, Zenon DEF DataInv

\* What an ALTER in progress may count on.
LEMMA AlterFacts ==
    ASSUME DataInv, GateInv, SchemaInv, Altering
    PROVE  /\ VersionsTyped /\ CountersInv /\ OwnerInv /\ ChainInv /\ AlterInv /\ Unfinished = {}
           /\ 1 \notin lags /\ IsOp(op) /\ IsCounters(next) /\ IsCounters(stored) /\ AlterPlan
           /\ \A p \in Pks : NewestCommitted(p) = Newest(p)
<1>1. /\ VersionsTyped /\ CountersInv /\ OwnerInv /\ ChainInv /\ AlterInv /\ Unfinished = {}
      /\ 1 \notin lags
  BY DEF DataInv, Dropping, Altering, Alone
<1>2. IsOp(op) /\ IsCounters(next) /\ IsCounters(stored) /\ AlterPlan
  BY DEF GateInv, GateType, SchemaInv
<1> QED BY <1>1, <1>2, NewestFound

\* The key that the loop is at, and those after it.
LEMMA CurrentKey ==
    ASSUME AlterPlan, Altering, op.pks # {}
    PROVE  /\ Current \in op.pks /\ Current \in Pks /\ IsFiniteSet(op.pks)
           /\ Cardinality(op.pks) \in Nat /\ Cardinality(op.pks) >= 1
           /\ Cardinality(Others) = Cardinality(op.pks) - 1
<1>1. op.pks \subseteq Pks /\ op.pks \subseteq Nat
  <2>1. op.pks \subseteq Pks
    BY DEF AlterPlan
  <2>2. Pks \subseteq Nat
    BY DdlBounds, FS_CardinalityType
  <2> QED BY <2>1, <2>2, Zenon
<1>2. \E p \in op.pks : \A q \in op.pks : p <= q
  BY <1>1, Least
<1>4. Current \in op.pks
  BY <1>2 DEF Current
<1>5. IsFiniteSet(op.pks)
  BY <1>1, DdlBounds, FS_Subset
<1>6. Cardinality(op.pks) \in Nat /\ Cardinality(Others) \in Nat
  BY <1>5, FS_CardinalityType, FS_RemoveElement DEF Others
<1>7. Cardinality(Others) = Cardinality(op.pks) - 1
  BY <1>4, <1>5, FS_RemoveElement DEF Others
<1> QED BY <1>1, <1>4, <1>5, <1>6, <1>7

\* Steps of an ALTER that touch no version and no head.
LEMMA AlterRests ==
    ASSUME DataInv, GateInv, SchemaInv, Altering, Altering',
           UNCHANGED <<ver, head, next, sess, lost, lags, incarnation>>,
           op'.ts = op.ts, op'.old = op.old, op'.neu = op.neu,
           op.pc \notin {"install", "head"}, op'.pc \notin {"install", "head"},
           op'.pc = "put_table" => stored' = next, stored'.txn = next.txn,
           op'.pc = "persist_vid" => stored'.ts = next.ts,
           \A p \in Pks, v \in Vids :
               Open(p, v) => Fits(ver[p][v], IF p \in op'.pks THEN op.old ELSE op.neu),
           op'.pc \in {"persist_ts", "persist_vid", "put_table"} => op'.pks = {},
           op'.pc = "close" => next.vid + Cardinality(op'.pks) <= MaxVid + 1
    PROVE  DataInv'
<1>1. /\ VersionsTyped /\ CountersInv /\ OwnerInv /\ ChainInv /\ Unfinished = {} /\ 1 \notin lags
  BY AlterFacts
<1>2. op'.pc \notin {"idle", "list", "drop_heads", "drop_versions"}
  BY ZenonT(30) DEF Altering
<1>3. OwnerInv' /\ Unfinished' = {}
  BY <1>1, <1>2, AloneOwners, ProvisionalKept, ZenonT(30)
<1>4. VersionsTyped' /\ Alone' /\ RowsInv' /\ 1 \notin lags'
  BY <1>1, <1>2, <1>3 DEF VersionsTyped, IsVersion, Alone, RowsInv
<1>5. CountersInv'
  BY <1>1, <1>2, <1>3, ZenonT(30) DEF CountersInv, Exists
<1>6. /\ \A p \in Pks : Newest(p)' = Newest(p) /\ ~Between(p) /\ ~Between(p)'
      /\ \A p \in Pks, v \in Vids : Open(p, v)' <=> Open(p, v)
  BY Zenon DEF Newest, Committed, Between, Open
<1>7. ChainInv'
  BY <1>1, <1>6, Zenon DEF ChainInv, Exists, Committed
<1>8. AlterInv'
  <2>1. ASSUME NEW p \in Pks, NEW v \in Vids, Open(p, v)'
        PROVE  Fits(ver[p][v], IF p \in op.pks /\ ~Between(p) THEN op.old ELSE op.neu)'
    <3>1. Open(p, v) /\ ~Between(p)'
      BY <1>6, <2>1, Zenon
    <3>2. Fits(ver[p][v], IF p \in op'.pks THEN op.old ELSE op.neu)
      BY <3>1, Zenon
    <3> QED BY <3>1, <3>2 DEF Fits
  <2> QED BY <2>1, Zenon DEF AlterInv
<1> QED BY <1>2, <1>3, <1>4, <1>5, <1>7, <1>8, Zenon DEF DataInv

\* The loop leaves a row alone only when it is deleted.
LEMMA RewrittenOrDeleted ==
    ASSUME DataInv, GateInv, SchemaInv, op.pc = "close", op.pks # {},
           Rewritten(Current) = 0, NEW v \in Vids, Open(Current, v)
    PROVE  ver[Current][v].row = <<>>
<1>1. /\ ChainInv /\ AlterInv /\ AlterPlan /\ Altering
      /\ \A p \in Pks : NewestCommitted(p) = Newest(p)
  BY AlterFacts DEF Altering
<1>2. Current \in op.pks /\ Current \in Pks
  BY <1>1, CurrentKey, ZenonT(30)
<1>3. v = Newest(Current) /\ v # 0 /\ ver[Current][v].end = 0 /\ ~Between(Current)
  BY <1>1, <1>2 DEF ChainInv, Between, Vids, Open
<1>4. Fits(ver[Current][v], op.old)
  BY <1>1, <1>2, <1>3, Zenon DEF AlterInv
<1>5. ver[Current][v].row = <<>> \/ Len(ver[Current][v].row) = Len(op.neu)
  BY <1>1, <1>2, <1>3, Zenon DEF Rewritten
<1> QED BY <1>1, <1>4, <1>5, ZenonT(30) DEF Fits, AlterPlan

\* Closing a row of an ALTER, or finding none to close, keeps DataInv.
LEMMA AlterCloseData ==
    ASSUME DataInv, GateInv, SchemaInv, AlterClose, ~interrupted'
    PROVE  DataInv'
<1>a. PICK p : p = Current
  OBVIOUS
<1>b. PICK v : v = Rewritten(p)
  OBVIOUS
<1> DEFINE x == [ver[p][v] EXCEPT !.end = op.ts]
<1>1. op.pc = "close" /\ Altering
  BY DEF AlterClose, Altering
<1>2. /\ VersionsTyped /\ CountersInv /\ OwnerInv /\ ChainInv /\ AlterInv /\ Unfinished = {}
      /\ 1 \notin lags /\ IsOp(op) /\ AlterPlan /\ \A q \in Pks : NewestCommitted(q) = Newest(q)
  BY <1>1, AlterFacts
<1>3. UNCHANGED <<head, next, stored, sess, lost, lags, incarnation>>
  BY Zenon DEF AlterClose
<1>4. stored.txn = next.txn /\ op.ts \in Nat \ {0} /\ op.ts < next.ts
  BY <1>1, <1>2 DEF CountersInv
<1>5. ASSUME op.pks = {}, op' = [op EXCEPT !.pc = "persist_ts"], ver' = ver
      PROVE  DataInv'
  <2>1. /\ op'.pc = "persist_ts" /\ op'.pks = op.pks /\ op'.old = op.old /\ op'.neu = op.neu
        /\ op'.ts = op.ts
    BY <1>2, <1>5, OpKeeps
  <2>2. \A q \in Pks, u \in Vids : Open(q, u) => Fits(ver[q][u], op.neu)
    BY <1>1, <1>2, <1>5 DEF AlterInv
  <2>3. Altering'
    BY <2>1 DEF Altering
  <2> QED BY <1>1, <1>3, <1>4, <1>5, <2>1, <2>2, <2>3, AlterRests, ZenonT(30)
<1>6. ASSUME op.pks # {}, v = 0, op' = [op EXCEPT !.pks = Others], ver' = ver
      PROVE  DataInv'
  <2>1. /\ op'.pc = "close" /\ op'.pks = Others /\ op'.old = op.old /\ op'.neu = op.neu
        /\ op'.ts = op.ts
    BY <1>1, <1>2, <1>6, OpKeeps
  <2>2. ASSUME NEW q \in Pks, NEW u \in Vids, Open(q, u)
        PROVE  Fits(ver[q][u], IF q \in Others THEN op.old ELSE op.neu)
    <3>1. CASE q = p
      BY <1>1, <1>a, <1>b, <1>6, <2>2, <3>1, RewrittenOrDeleted DEF Fits
    <3>2. CASE q # p
      BY <1>1, <1>2, <1>a, <2>2, <3>2, Zenon DEF AlterInv, Others, Between
    <3> QED BY <3>1, <3>2
  <2>3. Altering'
    BY <2>1 DEF Altering
  <2>4. next.vid + Cardinality(Others) <= MaxVid + 1
    <3>1. Cardinality(Others) = Cardinality(op.pks) - 1 /\ Cardinality(op.pks) \in Nat
      BY <1>1, <1>2, <1>6, CurrentKey
    <3>2. next.vid + Cardinality(op.pks) <= MaxVid + 1 /\ next.vid \in Nat
      BY <1>1, <1>2, Zenon DEF AlterInv, CountersInv
    <3> QED BY <3>1, <3>2, DdlBounds
  <2> QED BY <1>1, <1>3, <1>4, <1>6, <2>1, <2>2, <2>3, <2>4, AlterRests, ZenonT(30)
<1>7. ASSUME op.pks # {}, v # 0, ValidateAgainst(NewRow(ver[p][v].row), op.neu),
             ver' = [ver EXCEPT ![p][v].end = op.ts], op' = [op EXCEPT !.pc = "install"]
      PROVE  DataInv'
  <2>1. p \in op.pks /\ p \in Pks
    BY <1>1, <1>2, <1>7, <1>a, CurrentKey
  <2>2. v = Newest(p) /\ ver[p][v].row # <<>> /\ ver[p][v].end = 0
    BY <1>2, <1>7, <1>b, <2>1, Zenon DEF Rewritten
  <2>3. v \in Vids /\ Committed(p, v)
    BY <1>2, <1>7, <2>1, <2>2 DEF ChainInv
  <2>4. IsVersion(ver[p][v])
    BY <1>2, <2>1, <2>3 DEF VersionsTyped
  <2>5. /\ op'.pc = "install" /\ op'.pks = op.pks /\ op'.old = op.old /\ op'.neu = op.neu
        /\ op'.drop = op.drop /\ op'.ts = op.ts
    BY <1>2, <1>7, OpKeeps
  <2>6. Current' = p
    BY <1>a, <2>5 DEF Current
  <2>7. /\ x.start = ver[p][v].start /\ x.end = op.ts /\ x.row = ver[p][v].row
        /\ x.inc = ver[p][v].inc /\ x.by = ver[p][v].by /\ x.prev = ver[p][v].prev /\ IsVersion(x)
    <3>1. \A z : IsVersion(z) =>
             LET g == [z EXCEPT !.end = op.ts]
             IN  /\ g.start = z.start /\ g.end = op.ts /\ g.row = z.row /\ g.inc = z.inc
                 /\ g.by = z.by /\ g.prev = z.prev /\ IsVersion(g)
      BY <1>4 DEF IsVersion
    <3> QED BY <2>4, <3>1
  <2>8. ver' = [ver EXCEPT ![p][v] = x]
    BY <1>7
  <2> HIDE DEF x
  <2>9. PutVersion(p, v, x)
    BY <2>1, <2>3, <2>7, <2>8, Zenon DEF PutVersion
  <2>10. head' \in [Pks -> 0 .. MaxVid]
    BY <1>2, <1>3 DEF VersionsTyped
  <2>11. VersionsTyped' /\ OnlyPut(p, v, x)
    BY <1>2, <2>9, <2>10, VersionPut, Zenon
  <2>12. /\ ver'[p][v] = x
         /\ \A q \in Pks, u \in Vids : q # p \/ u # v => ver'[q][u] = ver[q][u]
    BY <2>11, Zenon DEF OnlyPut
  <2>13. Exists(p, v)
    BY <2>3, AbsentIsVersion, ZenonT(30) DEF Exists, Committed
  <2>14. /\ \A q \in Pks, u \in Vids : Committed(q, u)' <=> Committed(q, u)
         /\ \A q \in Pks, u \in Vids : Exists(q, u)' <=> Exists(q, u)
    <3>1. x # Absent /\ (x.start # 0 <=> ver[p][v].start # 0)
      BY <1>4, <2>7 DEF Absent
    <3> QED BY <2>1, <2>3, <2>12, <2>13, <3>1, ZenonT(30) DEF Committed, Exists
  <2>15. \A q \in Pks, u \in Vids : Exists(q, u)' /\ ~Committed(q, u)' =>
               ver'[q][u].by # 0 /\ ver'[q][u].end = 0
    <3> SUFFICES ASSUME NEW q \in Pks, NEW u \in Vids, Exists(q, u), ~Committed(q, u)
                 PROVE  ver'[q][u].by # 0 /\ ver'[q][u].end = 0
      BY <2>14, Zenon
    <3>1. ver'[q][u] = ver[q][u]
      BY <2>3, <2>12, Zenon
    <3>2. ver[q][u].by # 0 /\ ver[q][u].end = 0
      BY <1>2, Zenon DEF OwnerInv
    <3> QED BY <3>1, <3>2
  <2>16. OwnerInv' /\ Unfinished' = {}
    BY <1>2, <1>3, <2>5, <2>15, AloneOwners, Zenon
  <2>17. Altering' /\ Alone' /\ RowsInv' /\ 1 \notin lags' /\ op'.pc # "drop_versions"
    BY <1>2, <1>3, <2>5, <2>16, Zenon DEF Altering, Alone, RowsInv
  <2>18. CountersInv'
    <3>1. \A q \in Pks, u \in Vids : Exists(q, u) =>
            /\ u < next.vid /\ ver'[q][u].start < next.ts
            /\ ver'[q][u].end < next.ts /\ ver'[q][u].by < next.txn
      BY <1>2, <1>4, <2>7, <2>12, Zenon DEF CountersInv
    <3>2. next.ts \in Nat \ {0} /\ next.vid \in Nat \ {0} /\ next.txn \in Nat \ {0}
      BY <1>2, Zenon DEF CountersInv
    <3> QED BY <1>3, <1>4, <2>5, <2>14, <2>16, <3>1, <3>2, ZenonT(30) DEF CountersInv
  <2>19. \A q \in Pks : Newest(q)' = Newest(q)
    <3> SUFFICES ASSUME NEW q \in Pks PROVE Newest(q)' = Newest(q)
      OBVIOUS
    <3>1. head[q] # 0 => head[q] \in Vids
      BY <1>2, DdlBounds DEF VersionsTyped, Vids
    <3>2. head[q] # 0 => ver'[q][head[q]].prev = ver[q][head[q]].prev
      BY <2>7, <2>12, <3>1
    <3> QED BY <1>3, <2>14, <3>1, <3>2, Zenon DEF Newest
  <2>20. \A q \in Pks : /\ Between(q)' <=> q = p
                        /\ ~Between(q)
    BY <1>1, <2>5, <2>6 DEF Between
  <2>21. \A q \in Pks, u \in Vids : Open(q, u)' => q # p /\ Open(q, u) /\ ver'[q][u] = ver[q][u]
    <3> SUFFICES ASSUME NEW q \in Pks, NEW u \in Vids, Open(q, u)'
                 PROVE  q # p /\ Open(q, u) /\ ver'[q][u] = ver[q][u]
      OBVIOUS
    <3>1. q # p \/ u # v
      BY <1>4, <2>7, <2>12 DEF Open
    <3>2. ver'[q][u] = ver[q][u] /\ Open(q, u)
      BY <2>12, <3>1, ZenonT(30) DEF Open, Committed
    <3>3. u = Newest(q)
      BY <1>1, <1>2, <3>2, <2>20 DEF ChainInv
    <3> QED BY <2>2, <3>1, <3>2, <3>3, Zenon
  <2>22. ChainInv'
    <3>1. \A q \in Pks : head'[q] # 0 => Exists(q, head[q])'
      <4>1. \A q \in Pks : head[q] # 0 => head[q] \in Vids
        BY <1>2, DdlBounds, SMTT(30) DEF VersionsTyped, Vids
      <4> QED BY <1>2, <1>3, <2>14, <4>1, ZenonT(30) DEF ChainInv
    <3>2. ASSUME NEW q \in Pks, Newest(q)' # 0
          PROVE  /\ Newest(q)' \in Vids /\ Committed(q, Newest(q))'
                 /\ ~Between(q)' => ver'[q][Newest(q)'].end = 0
      <4>1. Newest(q)' = Newest(q) /\ Newest(q) \in Vids /\ Committed(q, Newest(q))
        BY <1>2, <2>19, <3>2 DEF ChainInv
      <4>2. Committed(q, Newest(q))'
        BY <2>14, <4>1, ZenonT(30)
      <4>3. ~Between(q)' => ver'[q][Newest(q)].end = 0
        BY <1>2, <2>12, <2>20, <3>2, <4>1, ZenonT(30) DEF ChainInv
      <4> QED BY <4>1, <4>2, <4>3, ZenonT(30)
    <3>3. ASSUME NEW q \in Pks, NEW u \in Vids, Open(q, u)' PROVE u = Newest(q)'
      BY <1>1, <1>2, <2>19, <2>20, <2>21, <3>3, Zenon DEF ChainInv
    <3> QED BY <2>5, <3>1, <3>2, <3>3, ZenonT(30) DEF ChainInv
  <2>23. AlterInv'
    <3>1. ASSUME NEW q \in Pks, NEW u \in Vids, Open(q, u)'
          PROVE  Fits(ver[q][u], IF q \in op.pks /\ ~Between(q) THEN op.old ELSE op.neu)'
      <4>1. q # p /\ Open(q, u) /\ ver'[q][u] = ver[q][u]
        BY <2>21, <3>1
      <4>2. Fits(ver[q][u], IF q \in op.pks THEN op.old ELSE op.neu)
        BY <1>1, <1>2, <2>20, <4>1, Zenon DEF AlterInv
      <4> QED BY <1>3, <2>5, <2>20, <4>1, <4>2, ZenonT(30) DEF Fits
    <3>2. Open(p, v)
      BY <2>2, <2>3 DEF Open
    <3>3. Fits(ver[p][v], op.old)
      BY <1>1, <1>2, <2>1, <2>3, <2>20, <3>2, Zenon DEF AlterInv
    <3>4. Current' = p /\ Newest(p)' = v
      BY <2>1, <2>2, <2>6, <2>19, ZenonT(30)
    <3>5. /\ ver'[p][v].end # 0 /\ ver'[p][v].row = ver[p][v].row /\ ver'[p][v].inc = ver[p][v].inc
      BY <1>4, <2>7, <2>12
    <3>6. Fits(ver'[p][v], op.old) /\ ValidateAgainst(NewRow(ver'[p][v].row), op.neu)
      BY <1>7, <3>3, <3>5, ZenonT(30) DEF Fits
    <3>7. \A y, c : /\ Fits(y, c) => Fits(y, c)'
                    /\ NewRow(y) = NewRow(y)' /\ (ValidateAgainst(y, c) <=> ValidateAgainst(y, c)')
      BY <1>3, <2>5 DEF Fits, NewRow, ValidateAgainst
    <3>8. next'.vid + Cardinality(op'.pks) <= MaxVid + 1
      BY <1>1, <1>2, <1>3, <2>5, Zenon DEF AlterInv
    <3>9. /\ Newest(Current)' # 0 /\ ver'[Current'][Newest(Current)'].end # 0
          /\ ver'[Current'][Newest(Current)'].row # <<>>
      BY <1>7, <2>2, <3>4, <3>5, Zenon
    <3> QED BY <1>7, <2>1, <2>5, <3>1, <3>4, <3>6, <3>7, <3>8, <3>9, ZenonT(30) DEF AlterInv
  <2> QED BY <2>11, <2>16, <2>17, <2>18, <2>22, <2>23, Zenon DEF DataInv
<1> QED BY <1>5, <1>6, <1>7, <1>a, <1>b, Zenon DEF AlterClose

\* The new version of the row fits the new schema; the head does not name it yet.
LEMMA AlterInstallData ==
    ASSUME DataInv, GateInv, SchemaInv, AlterInstall
    PROVE  DataInv'
<1>1. op.pc = "install" /\ Altering
  BY DEF AlterInstall, Altering
<1>2. /\ VersionsTyped /\ CountersInv /\ OwnerInv /\ ChainInv /\ AlterInv /\ Unfinished = {}
      /\ 1 \notin lags /\ IsOp(op) /\ IsCounters(next) /\ AlterPlan
      /\ \A q \in Pks : NewestCommitted(q) = Newest(q)
  BY <1>1, AlterFacts
<1>a. PICK p : p = Current
  OBVIOUS
<1>3. op.pks # {} /\ p \in op.pks /\ p \in Pks /\ Cardinality(op.pks) >= 1 /\ Cardinality(op.pks) \in Nat
  <2>1. op.pks # {}
    BY <1>1, <1>2, Zenon DEF AlterInv
  <2> QED BY <1>1, <1>2, <1>a, <2>1, CurrentKey
<1>b. PICK v : v = Newest(p)
  OBVIOUS
<1>c. PICK n : n = next.vid
  OBVIOUS
<1>d. PICK r : r = [start |-> op.ts, end |-> 0, prev |-> v, by |-> 0,
                    row |-> NewRow(ver[p][v].row), inc |-> incarnation]
  BY Zenon
<1>4. /\ ver' = [ver EXCEPT ![p][n] = r]
      /\ next' = [next EXCEPT !.vid = @ + 1] /\ op' = [op EXCEPT !.pc = "head"]
      /\ UNCHANGED <<head, stored, sess, lost, lags, incarnation>>
  BY <1>2, <1>3, <1>a, <1>b, <1>c, <1>d, ZenonT(30) DEF AlterInstall, history
<1>5. /\ v # 0 /\ ver[p][v].end # 0 /\ ver[p][v].row # <<>> /\ Fits(ver[p][v], op.old)
      /\ ValidateAgainst(NewRow(ver[p][v].row), op.neu)
      /\ n + Cardinality(op.pks) <= MaxVid + 1
  BY <1>1, <1>2, <1>a, <1>b, <1>c, Zenon DEF AlterInv
<1>6. /\ stored.txn = next.txn /\ op.ts \in Nat \ {0} /\ op.ts < next.ts
      /\ next.ts \in Nat \ {0} /\ n \in Nat \ {0} /\ next.txn \in Nat \ {0}
  BY <1>1, <1>2, <1>c DEF CountersInv
<1>7. n \in Vids /\ v \in 0 .. MaxVid
  <2>1. n <= MaxVid
    BY <1>3, <1>5, <1>6, DdlBounds, SMTT(30)
  <2>2. n \in Vids
    BY <1>6, <2>1, DdlBounds, SMTT(30) DEF Vids
  <2>3. v \in 0 .. MaxVid
    BY <1>2, <1>3, <1>b, NewestIn, Zenon
  <2> QED BY <2>2, <2>3, ZenonT(30)
<1>8. /\ r.start = op.ts /\ r.end = 0 /\ r.prev = v /\ r.by = 0 /\ r.inc = incarnation
      /\ r.row = NewRow(ver[p][v].row) /\ IsVersion(r) /\ r # Absent
  <2>1. /\ r.start = op.ts /\ r.end = 0 /\ r.prev = v /\ r.by = 0 /\ r.inc = incarnation
        /\ r.row = NewRow(ver[p][v].row)
    BY <1>d
  <2>2. r = [start |-> r.start, end |-> r.end, prev |-> r.prev, by |-> r.by, row |-> r.row, inc |-> r.inc]
    BY <1>d, <2>1
  <2> QED BY <1>6, <1>7, <2>1, <2>2, AbsentIsVersion, ZenonT(30) DEF IsVersion
<1>9. PutVersion(p, n, r)
  BY <1>3, <1>4, <1>7, <1>8, Zenon DEF PutVersion
<1>10. head' \in [Pks -> 0 .. MaxVid]
  BY <1>2, <1>4 DEF VersionsTyped
<1>11. VersionsTyped' /\ OnlyPut(p, n, r)
  BY <1>2, <1>9, <1>10, VersionPut, Zenon
<1>12. ver'[p][n] = r /\ \A q \in Pks, u \in Vids : q # p \/ u # n => ver'[q][u] = ver[q][u]
  BY <1>11, Zenon DEF OnlyPut
<1>13. /\ op'.pc = "head" /\ op'.pks = op.pks /\ op'.old = op.old /\ op'.neu = op.neu
       /\ op'.ts = op.ts
  BY <1>2, <1>4, OpKeeps
<1>14. Current' = p
  BY <1>a, <1>13 DEF Current
<1>15. next'.ts = next.ts /\ next'.vid = n + 1 /\ next'.txn = next.txn /\ next'.vid - 1 = n
  BY <1>2, <1>4, <1>6, <1>c, SMTT(30) DEF IsCounters
<1>16. \A q \in Pks : ~Exists(q, n)
  BY <1>2, <1>6, <1>7, <1>c DEF CountersInv
<1>17. \A q \in Pks, u \in Vids : Exists(q, u) => ver'[q][u] = ver[q][u] /\ u # n
  BY <1>12, <1>16, ZenonT(30) DEF Exists
<1>18. \A q \in Pks, u \in Vids : Exists(q, u)' /\ ~Committed(q, u)' =>
               ver'[q][u].by # 0 /\ ver'[q][u].end = 0
  <2> SUFFICES ASSUME NEW q \in Pks, NEW u \in Vids, ver'[q][u] # Absent, ver'[q][u].start = 0
               PROVE  ver'[q][u].by # 0 /\ ver'[q][u].end = 0
    BY DEF Exists, Committed
  <2>1. ver'[q][u] = ver[q][u]
    BY <1>6, <1>8, <1>12
  <2> QED BY <1>2, <2>1 DEF OwnerInv, Exists, Committed
<1>19. OwnerInv' /\ Unfinished' = {}
  BY <1>2, <1>4, <1>13, <1>18, AloneOwners
<1>20. Altering' /\ Alone' /\ RowsInv' /\ 1 \notin lags' /\ op'.pc # "drop_versions"
  BY <1>2, <1>4, <1>13, <1>19 DEF Altering, Alone, RowsInv
<1>21. CountersInv'
  <2>1. ASSUME NEW q \in Pks, NEW u \in Vids, ver'[q][u] # Absent
        PROVE  /\ u < n + 1 /\ ver'[q][u].start < next.ts
               /\ ver'[q][u].end < next.ts /\ ver'[q][u].by < next.txn
    <3>1. CASE q = p /\ u = n
      BY <1>6, <1>8, <1>12, <3>1, SMTT(30)
    <3>2. CASE q # p \/ u # n
      <4>1. ver'[q][u] = ver[q][u] /\ Exists(q, u) /\ u \in Nat
        BY <1>12, <2>1, <3>2, SMTT(30) DEF Exists, Vids
      <4>2. /\ u < n /\ ver[q][u].start < next.ts /\ ver[q][u].end < next.ts /\ ver[q][u].by < next.txn
        BY <1>2, <1>c, <4>1 DEF CountersInv
      <4> QED BY <1>6, <4>1, <4>2
    <3> QED BY <3>1, <3>2
  <2>2. n + 1 \in Nat \ {0}
    BY <1>6
  <2> QED BY <1>4, <1>6, <1>13, <1>15, <1>19, <2>1, <2>2, ZenonT(30) DEF CountersInv, Exists
<1>22. ASSUME NEW q \in Pks
       PROVE  /\ Newest(q)' = Newest(q)
              /\ head[q] # 0 => head[q] \in Vids /\ Exists(q, head[q])
  <2>1. head[q] # 0 => head[q] \in Vids
    BY <1>2, DdlBounds, SMTT(30) DEF VersionsTyped, Vids
  <2>2. head[q] # 0 => Exists(q, head[q])
    BY <1>2 DEF ChainInv
  <2>3. head[q] # 0 => ver'[q][head[q]] = ver[q][head[q]]
    BY <1>17, <2>1, <2>2
  <2>4. Newest(q)' = Newest(q)
    BY <1>4, <2>3 DEF Newest, Committed
  <2> QED BY <2>1, <2>2, <2>4
<1>23. \A q \in Pks : (Between(q) <=> q = p) /\ (Between(q)' <=> q = p)
  BY <1>1, <1>a, <1>13, <1>14, ZenonT(30) DEF Between
<1>24. \A u \in Vids : ~Open(p, u)
  <2> SUFFICES ASSUME NEW u \in Vids, Open(p, u) PROVE FALSE
    OBVIOUS
  <2>1. u = v
    BY <1>1, <1>2, <1>3, <1>b, Zenon DEF ChainInv
  <2> QED BY <1>5, <2>1 DEF Open
<1>25. ASSUME NEW q \in Pks, NEW u \in Vids, Open(q, u)'
       PROVE  (q = p /\ u = n) \/ (q # p /\ Open(q, u) /\ ver'[q][u] = ver[q][u])
  <2>1. q # p \/ u # n => ver'[q][u] = ver[q][u] /\ Open(q, u)
    BY <1>12, <1>25 DEF Open, Committed
  <2> QED BY <1>24, <2>1
<1>26. ChainInv'
  <2>1. ASSUME NEW q \in Pks, head'[q] # 0 PROVE ver'[q][head'[q]] # Absent
    BY <1>4, <1>17, <1>22, <2>1, ZenonT(30) DEF Exists
  <2>2. ASSUME NEW q \in Pks, Newest(q)' # 0
        PROVE  /\ Newest(q)' \in Vids /\ Committed(q, Newest(q))'
               /\ ~Between(q)' => ver'[q][Newest(q)'].end = 0
    <3>1. Newest(q)' = Newest(q) /\ Newest(q) \in Vids /\ Committed(q, Newest(q))
      BY <1>2, <1>22, <2>2, Zenon DEF ChainInv
    <3>2. Exists(q, Newest(q))
      BY <3>1, AbsentIsVersion DEF Exists, Committed
    <3>3. ver'[q][Newest(q)] = ver[q][Newest(q)]
      BY <1>17, <3>1, <3>2, ZenonT(30)
    <3>4. ~Between(q) => ver[q][Newest(q)].end = 0
      BY <1>2, <2>2, <3>1, ZenonT(30) DEF ChainInv
    <3> QED BY <1>23, <3>1, <3>3, <3>4 DEF Committed
  <2>3. ASSUME NEW q \in Pks, NEW u \in Vids, Open(q, u)'
        PROVE  u = (IF op.pc = "head" /\ Between(q) THEN next.vid - 1 ELSE Newest(q))'
    <3>1. CASE q = p /\ u = n
      BY <1>13, <1>15, <1>23, <3>1
    <3>2. CASE q # p /\ Open(q, u)
      <4>1. u = Newest(q)
        BY <1>1, <1>2, <1>23, <3>2, Zenon DEF ChainInv
      <4> QED BY <1>22, <1>23, <3>2, <4>1
    <3> QED BY <1>25, <2>3, <3>1, <3>2, ZenonT(30)
  <2> QED BY <2>1, <2>2, <2>3, Zenon DEF ChainInv, Exists
<1>27. Fits(r, op.neu)
  <2>1. op.neu # NoTable /\ Len(r.row) = Len(op.neu)
    BY <1>5, <1>8, ZenonT(30) DEF ValidateAgainst
  <2>2. lags \subseteq {0} => r.row = op.neu /\ r.inc = incarnation
    BY <1>1, <1>2, <1>5, <1>8 DEF Fits, AlterPlan
  <2> QED BY <2>1, <2>2, ZenonT(30) DEF Fits
<1>28. AlterInv'
  <2>1. ASSUME NEW q \in Pks, NEW u \in Vids, Open(q, u)'
        PROVE  Fits(ver[q][u], IF q \in op.pks /\ ~Between(q) THEN op.old ELSE op.neu)'
    <3>1. CASE q = p /\ u = n
      BY <1>4, <1>12, <1>13, <1>23, <1>27, <3>1 DEF Fits
    <3>2. CASE q # p /\ Open(q, u) /\ ver'[q][u] = ver[q][u]
      <4>1. Fits(ver[q][u], IF q \in op.pks THEN op.old ELSE op.neu)
        BY <1>1, <1>2, <1>23, <3>2, Zenon DEF AlterInv
      <4> QED BY <1>4, <1>13, <1>23, <3>2, <4>1, ZenonT(30) DEF Fits
    <3> QED BY <1>25, <2>1, <3>1, <3>2, Zenon
  <2>2. next'.vid - 1 \in Vids /\ Open(Current, next.vid - 1)'
    <3>1. ver'[p][n].start # 0 /\ ver'[p][n].end = 0
      BY <1>6, <1>8, <1>12
    <3>2. ver'[Current'][next'.vid - 1].start # 0 /\ ver'[Current'][next'.vid - 1].end = 0
      BY <1>14, <1>15, <3>1, SMTT(30)
    <3> QED BY <1>7, <1>15, <3>2, ZenonT(30) DEF Open, Committed
  <2>3. next'.vid + Cardinality(op'.pks) <= MaxVid + 2
    <3>1. PICK k : k = Cardinality(op.pks)
      OBVIOUS
    <3>2. k \in Nat /\ n + k <= MaxVid + 1 /\ Cardinality(op'.pks) = k /\ next'.vid = n + 1
      BY <1>3, <1>5, <1>13, <1>15, <3>1, Zenon
    <3>3. n + 1 + k <= MaxVid + 2
      BY <1>6, <3>2, DdlBounds, SMT
    <3> QED BY <3>2, <3>3, Zenon
  <2> QED BY <1>3, <1>13, <2>1, <2>2, <2>3, Zenon DEF AlterInv
<1> QED BY <1>11, <1>19, <1>20, <1>21, <1>26, <1>28, Zenon DEF DataInv

\* The head names the new version: the row is done.
LEMMA AlterSetHeadData ==
    ASSUME DataInv, GateInv, SchemaInv, AlterSetHead
    PROVE  DataInv'
<1>1. op.pc = "head" /\ Altering
  BY DEF AlterSetHead, Altering
<1>2. /\ VersionsTyped /\ CountersInv /\ OwnerInv /\ ChainInv /\ AlterInv /\ Unfinished = {}
      /\ 1 \notin lags /\ IsOp(op) /\ AlterPlan
  BY <1>1, AlterFacts
<1>a. PICK p : p = Current
  OBVIOUS
<1>b. PICK n : n = next.vid - 1
  OBVIOUS
<1>3. /\ op.pks # {} /\ n \in Vids /\ Open(p, n)
      /\ next.vid + Cardinality(op.pks) <= MaxVid + 2
  BY <1>1, <1>2, <1>a, <1>b, Zenon DEF AlterInv
<1>4. /\ p \in op.pks /\ p \in Pks /\ Cardinality(op.pks) \in Nat
      /\ Cardinality(Others) = Cardinality(op.pks) - 1
  BY <1>1, <1>2, <1>3, <1>a, CurrentKey
<1>5. /\ head' = [head EXCEPT ![p] = n] /\ op' = [op EXCEPT !.pc = "close", !.pks = Others]
      /\ UNCHANGED <<ver, stored, next, sess, lost, lags, incarnation>>
  BY <1>a, <1>b, Zenon DEF AlterSetHead, history
<1>6. n \in 0 .. MaxVid
  BY <1>3 DEF Vids
<1>7. /\ head' \in [Pks -> 0 .. MaxVid]
      /\ head'[p] = n /\ \A q \in Pks : q # p => head'[q] = head[q]
  BY <1>2, <1>4, <1>5, <1>6, HeadPut, Zenon
<1>8. VersionsTyped'
  BY <1>2, <1>5, <1>7, Zenon DEF VersionsTyped, IsVersion
<1>9. /\ op'.pc = "close" /\ op'.pks = Others /\ op'.old = op.old /\ op'.neu = op.neu
      /\ op'.ts = op.ts
  BY <1>2, <1>5, OpKeeps
<1>10. OwnerInv' /\ Unfinished' = {}
  BY <1>2, <1>5, <1>9, AloneOwners, ProvisionalKept
<1>11. Altering' /\ Alone' /\ RowsInv' /\ 1 \notin lags' /\ op'.pc # "drop_versions"
  BY <1>2, <1>5, <1>9, <1>10 DEF Altering, Alone, RowsInv
<1>12. CountersInv'
  BY <1>1, <1>2, <1>5, <1>9, <1>10, ZenonT(30) DEF CountersInv, Exists
<1>13. n # 0 /\ Committed(p, n) /\ ver[p][n].end = 0 /\ Exists(p, n)
  BY <1>3, AbsentIsVersion DEF Vids, Open, Committed, Exists
<1>14. \A q \in Pks : Newest(q)' = IF q = p THEN n ELSE Newest(q)
  BY <1>5, <1>7, <1>13, Zenon DEF Newest, Committed
<1>15. \A q \in Pks : ~Between(q)' /\ (Between(q) <=> q = p)
  BY <1>1, <1>a, <1>9 DEF Between
<1>16. \A q \in Pks, u \in Vids : Open(q, u)' <=> Open(q, u)
  BY <1>5 DEF Open, Committed
<1>17. ChainInv'
  <2>1. ASSUME NEW q \in Pks, head'[q] # 0 PROVE ver'[q][head'[q]] # Absent
    BY <1>2, <1>5, <1>7, <1>13, <2>1, ZenonT(30) DEF ChainInv, Exists
  <2>2. ASSUME NEW q \in Pks, Newest(q)' # 0
        PROVE  Newest(q)' \in Vids /\ Committed(q, Newest(q))' /\ ver'[q][Newest(q)'].end = 0
    <3>1. CASE q = p
      <4>1. Newest(q)' = n
        BY <1>14, <3>1
      <4> QED BY <1>3, <1>5, <1>13, <3>1, <4>1, Zenon DEF Committed
    <3>2. CASE q # p
      <4>1. Newest(q)' = Newest(q) /\ ~Between(q)
        BY <1>14, <1>15, <3>2, ZenonT(30)
      <4>2. Newest(q) \in Vids /\ Committed(q, Newest(q)) /\ ver[q][Newest(q)].end = 0
        BY <1>2, <2>2, <4>1 DEF ChainInv
      <4> QED BY <1>5, <4>1, <4>2, Zenon DEF Committed
    <3> QED BY <3>1, <3>2
  <2>3. ASSUME NEW q \in Pks, NEW u \in Vids, Open(q, u)' PROVE u = Newest(q)'
    BY <1>1, <1>2, <1>b, <1>14, <1>15, <1>16, <2>3, Zenon DEF ChainInv
  <2> QED BY <1>15, <2>1, <2>2, <2>3, Zenon DEF ChainInv, Exists
<1>18. AlterInv'
  <2>1. ASSUME NEW q \in Pks, NEW u \in Vids, Open(q, u)'
        PROVE  Fits(ver[q][u], IF q \in op.pks /\ ~Between(q) THEN op.old ELSE op.neu)'
    <3>1. Fits(ver[q][u], IF q \in op.pks /\ ~Between(q) THEN op.old ELSE op.neu)
      BY <1>1, <1>2, <1>16, <2>1, Zenon DEF AlterInv
    <3>2. q \in op'.pks <=> q \in op.pks /\ ~Between(q)
      BY <1>9, <1>15, <1>a DEF Others
    <3> QED BY <1>5, <1>9, <1>15, <3>1, <3>2 DEF Fits
  <2>2. next'.vid + Cardinality(op'.pks) <= MaxVid + 1
    <3>1. next.vid \in Nat
      BY <1>2 DEF CountersInv
    <3> QED BY <1>3, <1>4, <1>5, <1>9, <3>1, DdlBounds, SMTT(30)
  <2> QED BY <1>9, <2>1, <2>2, Zenon DEF AlterInv
<1> QED BY <1>8, <1>10, <1>11, <1>12, <1>17, <1>18, Zenon DEF DataInv

\* The end of an ALTER: counters, then the schema.
LEMMA AlterEndData ==
    ASSUME DataInv, GateInv, SchemaInv, AlterPersist \/ PutTable
    PROVE  DataInv'
<1>1. Altering /\ op.pc \in {"persist_ts", "persist_vid", "put_table"}
  BY DEF AlterPersist, PutTable, Altering
<1>2. /\ VersionsTyped /\ CountersInv /\ OwnerInv /\ ChainInv /\ AlterInv /\ Unfinished = {}
      /\ 1 \notin lags /\ IsOp(op) /\ IsCounters(next) /\ IsCounters(stored)
  BY <1>1, AlterFacts
<1>3. op.pks = {} /\ \A p \in Pks, v \in Vids : Open(p, v) => Fits(ver[p][v], op.neu)
  BY <1>1, <1>2, Zenon DEF AlterInv
<1>4. stored.txn = next.txn
  BY <1>1, <1>2 DEF CountersInv
<1>5. CASE AlterPersist
  <2>1. UNCHANGED <<ver, head, next, sess, lost, lags, incarnation>>
    BY <1>5, Zenon DEF AlterPersist, history
  <2>2. \A x, y : IsCounters(x) => /\ [x EXCEPT !.ts = y].txn = x.txn /\ [x EXCEPT !.ts = y].ts = y
                                   /\ [x EXCEPT !.vid = y].txn = x.txn
    BY SMTT(30) DEF IsCounters
  <2>3. CASE op.pc = "persist_ts"
    <3>1. stored' = [stored EXCEPT !.ts = next.ts] /\ op' = [op EXCEPT !.pc = "persist_vid"]
      BY <1>5, <2>3, Zenon DEF AlterPersist
    <3>2. /\ op'.pc = "persist_vid" /\ op'.pks = op.pks /\ op'.old = op.old /\ op'.neu = op.neu
          /\ op'.ts = op.ts
      BY <1>2, <3>1, OpKeeps
    <3>3. stored'.txn = next.txn /\ stored'.ts = next.ts
      BY <1>2, <1>4, <2>2, <3>1
    <3>4. Altering'
      BY <3>2, ZenonT(30) DEF Altering
    <3> QED BY <1>1, <1>3, <2>1, <3>2, <3>3, <3>4, AlterRests
  <2>4. CASE op.pc = "persist_vid"
    <3>1. stored' = [stored EXCEPT !.vid = next.vid] /\ op' = [op EXCEPT !.pc = "put_table"]
      BY <1>5, <2>4, Zenon DEF AlterPersist
    <3>2. /\ op'.pc = "put_table" /\ op'.pks = op.pks /\ op'.old = op.old /\ op'.neu = op.neu
          /\ op'.ts = op.ts
      BY <1>2, <3>1, OpKeeps
    <3>3. stored.ts = next.ts
      BY <1>2, <2>4, Zenon DEF CountersInv
    <3>4. \A x, y : IsCounters(x) /\ IsCounters(y) /\ x.ts = y.ts /\ x.txn = y.txn =>
                        [x EXCEPT !.vid = y.vid] = y
      BY DEF IsCounters
    <3>5. stored' = next
      BY <1>2, <1>4, <3>1, <3>3, <3>4
    <3>6. Altering'
      BY <3>2 DEF Altering
    <3> QED BY <1>1, <1>3, <2>1, <3>2, <3>5, <3>6, AlterRests
  <2> QED BY <1>5, <2>3, <2>4 DEF AlterPersist
<1>6. CASE PutTable
  <2>1. /\ op.pc = "put_table" /\ catalog' = op.neu /\ op' = Idle
        /\ UNCHANGED <<ver, head, stored, next, sess, lost, lags, incarnation>>
    BY <1>6, Zenon DEF PutTable
  <2>2. op'.pc = "idle" /\ stored = next
    BY <1>2, <2>1, Zenon DEF Idle, CountersInv
  <2>3. OwnerInv' /\ Unfinished' = {} /\ Live' = {} /\ Snapshots' = {next.ts - 1}
    BY <1>2, <2>1, <2>2, AloneOwners, ProvisionalKept, Zenon
  <2>4. VersionsTyped' /\ Alone' /\ AlterInv' /\ op'.pc # "drop_versions" /\ 1 \notin lags'
    BY <1>2, <2>1, <2>2, <2>3, Zenon DEF VersionsTyped, IsVersion, Alone, AlterInv, Altering
  <2>5. CountersInv'
    BY <1>2, <2>1, <2>2, <2>3, Zenon DEF CountersInv, Exists, Altering
  <2>6. /\ \A p \in Pks : Newest(p)' = Newest(p) /\ ~Between(p) /\ ~Between(p)'
        /\ \A p \in Pks, v \in Vids : Open(p, v)' <=> Open(p, v)
    BY <2>1, <2>2, Zenon DEF Newest, Committed, Between, Open
  <2>7. ChainInv'
    BY <1>2, <2>1, <2>6, Zenon DEF ChainInv, Exists, Committed
  <2>8. RowsInv'
    <3>1. ASSUME NEW p \in Pks, NEW v \in Vids, IsCommittedVisible(ver[p][v], next.ts - 1)
          PROVE  Fits(ver[p][v], op.neu)
      <4>1. IsVersion(ver[p][v]) /\ next.ts \in Nat
        BY <1>2 DEF VersionsTyped, CountersInv
      <4>2. ver[p][v].start # 0 /\ (ver[p][v].end # 0 => ver[p][v].end > next.ts - 1)
        BY <3>1, SMTT(30) DEF IsCommittedVisible, is_provisional
      <4>3. ver[p][v].end < next.ts
        BY <1>2, <4>2, AbsentIsVersion DEF CountersInv, Exists
      <4>4. ver[p][v].end = 0
        <5>1. PICK e, n : e = ver[p][v].end /\ n = next.ts
          OBVIOUS
        <5>2. e \in Nat /\ n \in Nat
          BY <4>1, <5>1, Zenon DEF IsVersion
        <5> QED BY <4>2, <4>3, <5>1, <5>2, SMT
      <4> QED BY <1>3, <4>2, <4>4 DEF Open, Committed
    <3>2. \A x : Fits(x, op.neu) => Fits(x, catalog)'
      BY <2>1, ZenonT(30) DEF Fits
    <3>3. ASSUME NEW p \in Pks, NEW v \in Vids, NEW ts \in Snapshots', IsCommittedVisible(ver'[p][v], ts)
          PROVE  Fits(ver[p][v], catalog)'
      <4>1. Fits(ver[p][v], op.neu)
        BY <2>1, <2>3, <3>1, <3>3
      <4> QED BY <2>1, <4>1 DEF Fits
    <3> QED BY <2>3, <3>3, ZenonT(30) DEF RowsInv, IsCommittedVisible, is_provisional
  <2> QED BY <2>3, <2>4, <2>5, <2>7, <2>8, Zenon DEF DataInv
<1> QED BY <1>5, <1>6

\* Every step that cuts no DDL statement short keeps DataInv.
LEMMA StepData == GateInv /\ SchemaInv /\ DataInv /\ [Next]_vars /\ ~interrupted' => DataInv'
<1> SUFFICES ASSUME GateInv, SchemaInv, DataInv, [Next]_vars, ~interrupted' PROVE DataInv'
  OBVIOUS
<1>1. CASE UNCHANGED vars
  <2>1. UNCHANGED <<catalog, ver, head, stored, next, sess, op, incarnation, lags, lost>>
    BY <1>1, Zenon DEF vars
  <2>2. Unfinished' = Unfinished /\ Live' = Live /\ Snapshots' = Snapshots
    BY <2>1, Zenon DEF Unfinished, Live, Snapshots
  <2>3. \A p, v : /\ Exists(p, v)' <=> Exists(p, v)
                  /\ Open(p, v)' <=> Open(p, v)
    BY <2>1, Zenon DEF Exists, Committed, Open
  <2>4. Current' = Current /\ \A p : Newest(p)' = Newest(p) /\ (Between(p)' <=> Between(p))
    BY <2>1, Zenon DEF Current, Newest, Between, Committed
  <2>5. \A x, c : /\ Fits(x, c)' <=> Fits(x, c)
                  /\ NewRow(x)' = NewRow(x) /\ (ValidateAgainst(x, c)' <=> ValidateAgainst(x, c))
    BY <2>1, Zenon DEF Fits, NewRow, ValidateAgainst
  <2>6. VersionsTyped' /\ Alone'
    BY <2>1, <2>2, Zenon DEF DataInv, VersionsTyped, IsVersion, Alone
  <2>7. CountersInv'
    <3>1. CountersInv
      BY DEF DataInv
    <3> QED BY <2>1, <2>2, <2>3, <3>1, Zenon DEF CountersInv, Altering
  <2>8. OwnerInv'
    <3>1. OwnerInv
      BY DEF DataInv
    <3> QED BY <2>1, <2>2, <3>1, Zenon DEF OwnerInv, Exists, Committed
  <2>9. ~Dropping' => ChainInv' /\ RowsInv' /\ AlterInv'
    <3> SUFFICES ASSUME ~Dropping PROVE ChainInv' /\ RowsInv' /\ AlterInv'
      BY <2>1 DEF Dropping
    <3>1. ChainInv /\ RowsInv /\ AlterInv
      BY DEF DataInv
    <3>2. ChainInv'
      <4>0. \A p \in Pks : head'[p] # 0 => ver'[p][head'[p]] # Absent
        BY <2>1, <3>1, Zenon DEF ChainInv, Exists
      <4>1. ASSUME NEW p \in Pks, NEW v \in Vids, Open(p, v)'
            PROVE  v = (IF op.pc = "head" /\ Between(p) THEN next.vid - 1 ELSE Newest(p))'
        <5>1. v = (IF op.pc = "head" /\ Between(p) THEN next.vid - 1 ELSE Newest(p))
          BY <2>3, <3>1, <4>1, Zenon DEF ChainInv
        <5>2. op' = op /\ next' = next /\ Newest(p)' = Newest(p) /\ (Between(p)' <=> Between(p))
          BY <2>1, <2>4, Zenon
        <5> QED BY <5>1, <5>2
      <4>2. \A p \in Pks : Newest(p)' # 0 =>
                /\ Newest(p)' \in Vids /\ ver'[p][Newest(p)'].start # 0
                /\ ~Between(p)' => ver'[p][Newest(p)'].end = 0
        BY <2>1, <2>4, <3>1, Zenon DEF ChainInv, Committed
      <4> QED BY <4>0, <4>1, <4>2, Zenon DEF ChainInv, Exists, Committed
    <3>3. RowsInv'
      BY <2>1, <2>2, <2>5, <3>1, Zenon DEF RowsInv, IsCommittedVisible, is_provisional
    <3>4. AlterInv'
      <4>1. op' = op /\ next' = next /\ ver' = ver
        BY <2>1
      <4>2. Newest(Current)' = Newest(Current)
        BY <2>1, SMTT(30) DEF Newest, Current, Committed
      <4>3. \A p \in Pks, v \in Vids : Altering /\ Open(p, v)' =>
               Fits(ver[p][v], IF p \in op.pks /\ ~Between(p) THEN op.old ELSE op.neu)'
        <5> SUFFICES ASSUME NEW p \in Pks, NEW v \in Vids, Altering, Open(p, v)'
                     PROVE  Fits(ver[p][v], IF p \in op.pks /\ ~Between(p) THEN op.old ELSE op.neu)'
          OBVIOUS
        <5>1. Fits(ver[p][v], IF p \in op.pks /\ ~Between(p) THEN op.old ELSE op.neu)
          BY <2>3, <3>1, Zenon DEF AlterInv
        <5>2. Between(p)' <=> Between(p)
          BY <2>4, Zenon
        <5> QED BY <2>1, <5>1, <5>2, ZenonT(30) DEF Fits
      <4>4. Altering /\ op.pc = "head" => next.vid - 1 \in Vids /\ Open(Current, next.vid - 1)'
        BY <2>1, <2>4, <3>1, <4>1, Zenon DEF AlterInv, Open, Committed
      <4>5. Altering /\ op.pc = "install" =>
              /\ Newest(Current)' # 0
              /\ ver'[Current'][Newest(Current)'].end # 0
              /\ ver'[Current'][Newest(Current)'].row # <<>>
              /\ Fits(ver[Current][Newest(Current)], op.old)'
              /\ ValidateAgainst(NewRow(ver[Current][Newest(Current)].row), op.neu)'
        BY <2>1, <2>4, <3>1, <4>1, <4>2, Zenon DEF AlterInv, Fits, NewRow, ValidateAgainst
      <4> QED BY <2>4, <3>1, <4>1, <4>3, <4>4, <4>5, Zenon DEF AlterInv, Altering
    <3> QED BY <3>2, <3>3, <3>4
  <2> QED BY <2>1, <2>6, <2>7, <2>8, <2>9, Zenon DEF DataInv
<1>2. ASSUME NEW s \in Sessions, LookupTable(s) \/ AbortTransaction(s) \/ AbortFails(s) PROVE DataInv'
  BY <1>2, QuietActions
<1>3. CASE WriteList \/ Crash
  BY <1>3, QuietActions
<1>4. ASSUME NEW s \in Sessions, Begin(s) \/ CommitTransaction(s) PROVE DataInv'
  BY <1>4, BeginData, CommitData
<1>5. ASSUME NEW s \in Sessions, NEW p \in Pks, Insert(s, p) \/ Delete(s, p) PROVE DataInv'
  BY <1>5, WriteActions
<1>6. ASSUME NEW s \in Sessions, NEW p \in Pks, NEW c \in Cols, Update(s, p, c) PROVE DataInv'
  BY <1>6, WriteActions
<1>7. ASSUME NEW c \in Cols, CreateTable(<<Id, c>>) PROVE DataInv'
  BY <1>7, CreateData
<1>8. ASSUME NEW c \in Cols, AlterTableAddColumn(c) \/ AlterTableDropColumn(c) PROVE DataInv'
  BY <1>8, StartAlterData DEF AlterTableAddColumn, AlterTableDropColumn
<1>9. CASE DropTable \/ DeleteHeads \/ DeleteVersions
  BY <1>9, DropData
<1>10. CASE AlterClose \/ AlterInstall \/ AlterSetHead \/ AlterPersist \/ PutTable
  BY <1>10, AlterCloseData, AlterInstallData, AlterSetHeadData, AlterEndData
<1>11. CASE DdlFails
  BY <1>11 DEF DdlFails
<1> QED BY <1>1, <1>2, <1>3, <1>4, <1>5, <1>6, <1>7, <1>8, <1>9, <1>10, <1>11, Zenon
        DEF Next, HandlerStep, DdlStep
-----------------------------------------------------------------------------
\* The theorems about schemas, rows and counters.

\* Once a DDL statement was cut short, that is remembered for ever.
LEMMA StaysInterrupted == [Next]_vars /\ ~interrupted' => ~interrupted
<1> SUFFICES ASSUME [Next]_vars, interrupted PROVE interrupted'
  OBVIOUS
<1>1. CASE UNCHANGED vars
  BY <1>1, Zenon DEF vars
<1>2. ASSUME NEW s \in Sessions, LookupTable(s) \/ Begin(s) \/ CommitTransaction(s) \/ AbortTransaction(s)
                                 \/ AbortFails(s)
      PROVE  interrupted'
  BY <1>2, Zenon DEF LookupTable, Begin, CommitTransaction, AbortTransaction, AbortFails, history
<1>3. ASSUME NEW s \in Sessions, NEW p, NEW row, Write(s, p, row) PROVE interrupted'
  BY <1>3, Zenon DEF Write, history
<1>4. ASSUME NEW s \in Sessions, NEW p, NEW c, Insert(s, p) \/ Delete(s, p) \/ Update(s, p, c)
      PROVE  interrupted'
  BY <1>3, <1>4, Zenon DEF Insert, Delete, Update
<1>5. ASSUME NEW c, CreateTable(<<Id, c>>) \/ DropTable PROVE interrupted'
  BY <1>5, Zenon DEF CreateTable, DropTable
<1>6. ASSUME NEW neu, NEW drop, StartAlter(neu, drop) PROVE interrupted'
  BY <1>6, Zenon DEF StartAlter, durable, history
<1>7. ASSUME NEW c, AlterTableAddColumn(c) \/ AlterTableDropColumn(c) PROVE interrupted'
  BY <1>6, <1>7, Zenon DEF AlterTableAddColumn, AlterTableDropColumn
<1>8. CASE PutTable \/ WriteList \/ DeleteHeads \/ DeleteVersions
  BY <1>8, Zenon DEF PutTable, WriteList, DeleteHeads, DeleteVersions, history
<1>9. CASE AlterClose
  BY <1>9, Zenon DEF AlterClose
<1>10. CASE AlterInstall \/ AlterSetHead \/ AlterPersist \/ DdlFails \/ Crash
  BY <1>10, Zenon DEF AlterInstall, AlterSetHead, AlterPersist, DdlFails, Crash, durable, history
<1> QED BY <1>1, <1>2, <1>4, <1>5, <1>7, <1>8, <1>9, <1>10, Zenon
        DEF Next, HandlerStep, DdlStep

\* The empty database satisfies the invariant.
LEMMA InitDdl == Init => SchemaInv /\ DataInv
<1> SUFFICES ASSUME Init PROVE SchemaInv /\ DataInv
  OBVIOUS
<1>1. /\ op = Idle /\ op.pc = "idle" /\ ~Altering /\ ~Dropping
      /\ Live = {} /\ Unfinished = {} /\ lags = {}
  BY Zenon DEF Init, Idle, Altering, Dropping, Live, Unfinished, NoSession
<1>2. \A p \in Pks, v \in Vids : ver[p][v] = Absent
  BY Zenon DEF Init
<1>3. \A p \in Pks : head[p] = 0
  BY Zenon DEF Init
<1>4. SchemaInv
  <2>1. NoTable \in Seq(Col)
    BY DEF NoTable
  <2>2. \A s \in Sessions : sess[s] = NoSession
    BY Zenon DEF Init
  <2>3. NoSession.seen = 0 /\ NoSession.schema = NoTable
    BY DEF NoSession
  <2>4. changes = 0 /\ incarnation = 0 /\ catalog = NoTable /\ cache = NoTable
    BY Zenon DEF Init
  <2>5. SchemaSeen
    BY <2>1, <2>2, <2>3, <2>4 DEF SchemaSeen
  <2> QED BY <1>1, <2>1, <2>4, <2>5 DEF SchemaInv, CacheCoherent, AlterPlan
<1>5. VersionsTyped
  <2>1. MaxVid \in Nat
    BY DdlBounds
  <2>2. \A p \in Pks, v \in Vids : IsVersion(ver[p][v])
    BY <1>2, AbsentIsVersion
  <2>3. head \in [Pks -> 0 .. MaxVid]
    BY <2>1 DEF Init
  <2>4. ver = [p \in Pks |-> [v \in Vids |-> ver[p][v]]]
    BY Zenon DEF Init
  <2> QED BY <2>2, <2>3, <2>4 DEF VersionsTyped
<1>6. CountersInv
  BY <1>1, <1>2, SMTT(30) DEF Init, CountersInv, Exists, Altering
<1>7. OwnerInv
  BY <1>1, <1>2, SMT DEF Init, OwnerInv, Exists, NoSession
<1>8. \A p \in Pks : Newest(p) = 0
  BY <1>3, Zenon DEF Newest
<1>9. \A p \in Pks, v \in Vids : ver[p][v].start = 0 /\ ver[p][v].row = <<>>
  BY <1>2, AbsentIsVersion, Zenon
<1>10. ChainInv
  BY <1>3, <1>8, <1>9, Zenon DEF ChainInv, Open, Committed
<1>11. RowsInv
  BY <1>1, <1>9, Zenon DEF RowsInv, Fits
<1>12. AlterInv
  BY <1>1, Zenon DEF AlterInv
<1> QED BY <1>1, <1>4, <1>5, <1>6, <1>7, <1>10, <1>11, <1>12, Zenon DEF DataInv, Alone

\* For every number of sessions, columns, keys, statements, crashes and engine
\* errors, schemas are what SchemaInv says, and so are rows, versions and counters
\* as long as no DDL statement was cut short.
THEOREM DdlInvariant == Spec => [](GateInv /\ DdlInv)
<1>1. Init => GateInv /\ DdlInv
  BY InitGate, InitDdl, Zenon DEF DdlInv
<1>2. GateInv /\ DdlInv /\ [Next]_vars => (GateInv /\ DdlInv)'
  <2> SUFFICES ASSUME GateInv, DdlInv, [Next]_vars PROVE GateInv' /\ DdlInv'
    OBVIOUS
  <2>1. GateInv' /\ SchemaInv /\ SchemaInv'
    BY StepGate, StepSchema, Zenon DEF DdlInv
  <2>2. ~interrupted' => DataInv'
    BY <2>1, StaysInterrupted, StepData, Zenon DEF DdlInv
  <2> QED BY <2>1, <2>2, Zenon DEF DdlInv
<1> QED BY <1>1, <1>2, PTL DEF Spec

\* Between statements the stored counters are ahead of every version id and every
\* timestamp on disk (mvcc.cpp persists them before it answers), so none is handed
\* out twice, after a restart either.
THEOREM CountersStayAhead == Spec => []CountersAhead
<1>1. DdlInv => CountersAhead
  <2> SUFFICES ASSUME DdlInv, op = Idle, ~interrupted,
                      NEW p \in Pks, NEW v \in Vids, ver[p][v] # Absent
               PROVE  v < stored.vid /\ ver[p][v].start < stored.ts
    BY Zenon DEF CountersAhead
  <2>1. CountersInv /\ op.pc = "idle"
    BY DEF DdlInv, DataInv, Idle
  <2> QED BY <2>1, Zenon DEF CountersInv, Exists
<1> QED BY <1>1, DdlInvariant, PTL

\* A statement that bound its columns before its transaction began is rejected if
\* the schema changed once in between: every DDL statement changes the number of
\* columns, which the check inside the transaction compares.
THEOREM OneChangeCaught == Spec => []OneChangeIsCaught
<1>1. DdlInv => OneChangeIsCaught
  BY Zenon DEF DdlInv, DataInv, OneChangeIsCaught
<1> QED BY <1>1, DdlInvariant, PTL

\* What a reader outside of any write sees is a committed version.
LEMMA ReaderSeesCommitted ==
    ASSUME DataInv, NEW p \in Pks, NEW ts, GetRow(p, ts, 0) # 0
    PROVE  LET v == GetRow(p, ts, 0)
           IN  v \in Vids /\ ver[p][v].row # <<>> /\ IsCommittedVisible(ver[p][v], ts)
<1> DEFINE v == GetRow(p, ts, 0)
<1>1. VersionsTyped /\ OwnerInv
  BY Zenon DEF DataInv
<1>2. v \in Vids /\ ver[p][v].row # <<>> /\ Answers(ver[p][v], ts, 0)
  BY <1>1, RowAnswers, Zenon
<1> HIDE DEF v
<1>3. Exists(p, v)
  BY <1>2 DEF Exists, Absent
<1>4. ~(is_provisional(ver[p][v]) /\ ver[p][v].by = 0)
  BY <1>1, <1>2, <1>3, Zenon DEF OwnerInv, Committed, is_provisional
<1>5. IsCommittedVisible(ver[p][v], ts)
  BY <1>2, <1>4, Zenon DEF Answers
<1> QED BY <1>2, <1>5, Zenon DEF v

\* Rows match the schema: when no DDL statement was cut short and no write used an
\* outdated schema, the row that any open or new transaction sees has the columns of
\* the catalog and belongs to this table (ALTER rewrites, DROP forgets).
THEOREM RowsAlwaysMatch == Spec => []RowsMatchSchema
<1>1. DdlInv => RowsMatchSchema
  <2> SUFFICES ASSUME DdlInv, op = Idle, ~interrupted, lags \subseteq {0},
                      NEW p \in Pks, NEW ts \in Snapshots, GetRow(p, ts, 0) # 0
               PROVE  /\ ver[p][GetRow(p, ts, 0)].row = catalog
                      /\ ver[p][GetRow(p, ts, 0)].inc = incarnation
    BY Zenon DEF RowsMatchSchema
  <2>1. PICK v : v = GetRow(p, ts, 0)
    OBVIOUS
  <2>2. DataInv /\ op.pc = "idle" /\ ~Dropping
    BY DEF DdlInv, Idle, Dropping
  <2>3. v \in Vids /\ ver[p][v].row # <<>> /\ IsCommittedVisible(ver[p][v], ts)
    BY <2>1, <2>2, ReaderSeesCommitted, Zenon
  <2>4. RowsInv
    BY <2>2, Zenon DEF DataInv
  <2>5. Fits(ver[p][v], catalog)
    BY <2>2, <2>3, <2>4, Zenon DEF RowsInv
  <2> QED BY <2>1, <2>3, <2>5, Zenon DEF Fits
<1> QED BY <1>1, DdlInvariant, PTL

\* The next transaction is served the newest committed version of every row: under
\* a head there is at most one provisional version, and the committed one after it
\* is open.
THEOREM RowsAlwaysServed == Spec => []RowsServed
<1>1. DdlInv => RowsServed
  <2> SUFFICES ASSUME DdlInv, op = Idle, ~interrupted, NEW p \in Pks,
                      NewestCommitted(p) # 0, ver[p][NewestCommitted(p)].row # <<>>
               PROVE  GetRow(p, next.ts - 1, 0) = NewestCommitted(p)
    BY Zenon DEF RowsServed
  <2>1. DataInv /\ op.pc = "idle" /\ ~Dropping /\ ~Between(p)
    BY DEF DdlInv, Idle, Dropping, Between
  <2>2. VersionsTyped /\ ChainInv /\ CountersInv /\ OwnerInv
    BY <2>1, Zenon DEF DataInv
  <2>3. PICK u : u = Newest(p)
    OBVIOUS
  <2>4. NewestCommitted(p) = u
    BY <2>2, <2>3, NewestFound, Zenon
  <2>5. u # 0 /\ u \in Vids /\ Committed(p, u) /\ ver[p][u].end = 0 /\ ver[p][u].row # <<>>
    BY <2>1, <2>2, <2>3, <2>4, Zenon DEF ChainInv
  <2>6. ver[p][u].start < next.ts /\ next.ts \in Nat /\ ver[p][u].start \in Nat
    <3>1. Exists(p, u)
      BY <2>5 DEF Exists, Absent
    <3> QED BY <2>2, <2>5, <3>1, Zenon DEF CountersInv, VersionsTyped, IsVersion
  <2>0. PICK ts : ts = next.ts - 1
    OBVIOUS
  <2>7. Answers(ver[p][u], ts, 0)
    <3>1. ver[p][u].start <= ts
      BY <2>0, <2>6, SMTT(30)
    <3> QED BY <2>5, <3>1, Zenon DEF Answers, IsCommittedVisible, is_provisional, Committed
  <2>13. PICK w : IsRowWalk(w, p, ts, 0) /\ GetRow(p, ts, 0) = w[MaxVid][head[p]]
    BY RowWalk, Zenon
  <2>8. /\ \A n, id \in 0 .. MaxVid :
             w[n][id] = IF id = 0 \/ n = 0 THEN 0
                        ELSE IF Answers(ver[p][id], ts, 0)
                        THEN IF ver[p][id].row = <<>> THEN 0 ELSE id
                        ELSE w[n - 1][ver[p][id].prev]
        /\ GetRow(p, ts, 0) = w[MaxVid][head[p]]
    BY <2>13, Zenon DEF IsRowWalk
  <2>9. head[p] \in 0 .. MaxVid /\ MaxVid \in Nat /\ u \in 0 .. MaxVid /\ head[p] # 0
    <3>1. head[p] # 0
      BY <2>3, <2>5, Zenon DEF Newest
    <3>2. head[p] \in 0 .. MaxVid
      BY <2>2, Zenon DEF VersionsTyped
    <3>3. MaxVid \in Nat
      BY DdlBounds, Zenon
    <3> QED BY <2>5, <3>1, <3>2, <3>3 DEF Vids
  <2>10. MaxVid # 0 /\ MaxVid \in 0 .. MaxVid /\ MaxVid - 1 \in 0 .. MaxVid
    BY <2>9
  <2>11. CASE head[p] = u
    <3>1. w[MaxVid][u] = u
      BY <2>5, <2>7, <2>8, <2>9, <2>10, Zenon
    <3> QED BY <2>0, <2>4, <2>8, <2>11, <3>1, Zenon
  <2>12. CASE head[p] # u
    <3>1. ~Committed(p, head[p]) /\ u = ver[p][head[p]].prev
      BY <2>3, <2>9, <2>12, Zenon DEF Newest
    <3>2. head[p] \in Vids /\ Exists(p, head[p])
      BY <2>2, <2>9 DEF Vids, ChainInv
    <3>3. ver[p][head[p]].by # 0
      BY <2>2, <3>1, <3>2, Zenon DEF OwnerInv
    <3>4. ~Answers(ver[p][head[p]], ts, 0)
      BY <3>1, <3>3, Zenon DEF Answers, IsCommittedVisible, is_provisional, Committed
    <3>5. w[MaxVid][head[p]] = w[MaxVid - 1][u]
      BY <2>8, <2>9, <2>10, <3>1, <3>4, Zenon
    <3>6. MaxVid - 1 # 0
      BY <2>5, <2>9, <2>12, <3>2 DEF Vids
    <3>7. w[MaxVid - 1][u] = u
      BY <2>5, <2>7, <2>8, <2>9, <2>10, <3>6, Zenon
    <3> QED BY <2>0, <2>4, <2>8, <3>5, <3>7, Zenon
  <2> QED BY <2>11, <2>12
<1> QED BY <1>1, DdlInvariant, PTL
=============================================================================
