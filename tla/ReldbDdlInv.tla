---------------------------- MODULE ReldbDdlInv ----------------------------
(***************************************************************************)
(* The inductive invariant of ReldbDdl as long as no DDL statement was cut *)
(* short: what every version, head, session and half-done ALTER looks      *)
(* like.                                                                   *)
(***************************************************************************)
EXTENDS ReldbDdl

\* --- Shapes of the state.

Col == Cols \cup {Id}

IsVersion(x) ==
    /\ x = [start |-> x.start, end |-> x.end, prev |-> x.prev, by |-> x.by,
            row |-> x.row, inc |-> x.inc]
    /\ x.start \in Nat /\ x.end \in Nat /\ x.prev \in 0 .. MaxVid /\ x.by \in Nat

VersionsTyped ==
    /\ ver = [p \in Pks |-> [v \in Vids |-> ver[p][v]]]
    /\ \A p \in Pks, v \in Vids : IsVersion(ver[p][v])
    /\ head \in [Pks -> 0 .. MaxVid]

\* --- Schemas.

\* A session that looked its schema up has seen all changes, or all but one, only
\* if its schema is the stored one, or differs from it in width: every statement
\* changes the number of columns.
SchemaSeen ==
    \A s \in Sessions :
        /\ sess[s].seen \in Nat /\ sess[s].seen <= changes
        /\ sess[s].schema \in Seq(Col)
        /\ sess[s].schema # NoTable /\ sess[s].seen = changes => sess[s].schema = catalog
        /\ sess[s].schema # NoTable /\ sess[s].seen + 1 = changes =>
              catalog = NoTable \/ Len(catalog) # Len(sess[s].schema)

Altering == op.pc \in {"close", "install", "head", "persist_ts", "persist_vid", "put_table"}
Dropping == op.pc \in {"drop_heads", "drop_versions"}

\* What an ALTER is about to do: the new schema is one column wider or narrower,
\* and is what rewriting makes of a row with the columns of the old one.
AlterPlan ==
    Altering =>
        /\ op.old = catalog /\ op.old \in Seq(Col) /\ op.neu \in Seq(Col)
        /\ op.old # NoTable /\ Len(op.neu) # Len(op.old)
        /\ op.neu = NewRow(op.old)
        /\ op.pks \subseteq Pks

SchemaInv ==
    /\ changes \in Nat /\ incarnation \in Nat
    /\ catalog \in Seq(Col) /\ CacheCoherent
    /\ op.pc \in {"idle", "list"} \/ Altering \/ Dropping
    /\ SchemaSeen /\ AlterPlan

\* --- Counters.

Exists(p, v) == ver[p][v] # Absent

\* Everything on disk is behind the counters in memory, and those are stored
\* whenever a crash would not cut a DDL statement short.
CountersInv ==
    /\ next.ts \in Nat \ {0} /\ next.vid \in Nat \ {0} /\ next.txn \in Nat \ {0}
    /\ \A p \in Pks, v \in Vids : Exists(p, v) =>
          /\ v < next.vid /\ ver[p][v].start < next.ts
          /\ ver[p][v].end < next.ts /\ ver[p][v].by < next.txn
    /\ op.pc \in {"idle", "list", "drop_heads", "drop_versions", "put_table"} => stored = next
    /\ Altering => stored.txn = next.txn /\ op.ts \in Nat \ {0} /\ op.ts < next.ts
    /\ op.pc = "persist_vid" => stored.ts = next.ts
    /\ \A t \in Unfinished : t.start \in Nat /\ t.start < next.ts

\* --- Versions and chains.

Committed(p, v) == ver[p][v].start # 0
Open(p, v) == Committed(p, v) /\ ver[p][v].end = 0

\* The newest committed version of a row is its head, or right under it.
Newest(p) ==
    IF head[p] = 0 THEN 0
    ELSE IF Committed(p, head[p]) THEN head[p]
    ELSE ver[p][head[p]].prev

\* The row that an ALTER has closed and not yet given its new head.
Between(p) == op.pc \in {"install", "head"} /\ p = Current

\* A row is open in its newest committed version and in no other.
ChainInv ==
    /\ \A p \in Pks : head[p] # 0 => Exists(p, head[p])
    /\ \A p \in Pks : Newest(p) # 0 => Newest(p) \in Vids /\ Committed(p, Newest(p))
    /\ \A p \in Pks : Newest(p) # 0 /\ ~Between(p) => ver[p][Newest(p)].end = 0
    /\ \A p \in Pks, v \in Vids : Open(p, v) =>
          v = (IF op.pc = "head" /\ Between(p) THEN next.vid - 1 ELSE Newest(p))

\* A provisional version belongs to a transaction; one that is not finished owns at
\* most the version that it remembers.
OwnerInv ==
    /\ \A p \in Pks, v \in Vids : Exists(p, v) /\ ~Committed(p, v) =>
          /\ ver[p][v].by # 0 /\ ver[p][v].end = 0
          /\ \A t \in Unfinished : ver[p][v].by = t.tid => t.pk = p /\ t.vid = v
    /\ \A t \in Unfinished : t.vid # 0 =>
          /\ t.pk \in Pks /\ t.vid \in Vids
          /\ ver[t.pk][t.vid].by = t.tid /\ ~Committed(t.pk, t.vid)
    /\ \A t \in Unfinished : t.listed => t.vid # 0
    /\ \A s \in Sessions : sess[s].tid = 0 => sess[s].vid = 0 /\ ~sess[s].listed
    /\ op.pc = "list" => op.s \in Sessions /\ sess[op.s].vid # 0

\* --- Rows.

\* A row fits a schema: it is deleted, or has as many cells; and it is the schema's
\* row, of this table, when no write ever used an outdated schema.
Fits(rec, schema) ==
    rec.row # <<>> =>
        /\ schema # NoTable /\ Len(rec.row) = Len(schema)
        /\ lags \subseteq {0} => rec.row = schema /\ rec.inc = incarnation

\* Between DDL statements, whatever a snapshot sees fits the catalog, and so does
\* what live transactions wrote.
RowsInv ==
    op.pc \in {"idle", "list"} =>
        /\ \A p \in Pks, v \in Vids, ts \in Snapshots :
              IsCommittedVisible(ver[p][v], ts) => Fits(ver[p][v], catalog)
        /\ \A s \in Live : sess[s].vid # 0 => Fits(ver[sess[s].pk][sess[s].vid], catalog)

\* During an ALTER the rows still to come fit the old schema, the others the new.
AlterInv ==
    Altering =>
        /\ \A p \in Pks, v \in Vids : Open(p, v) =>
              Fits(ver[p][v], IF p \in op.pks /\ ~Between(p) THEN op.old ELSE op.neu)
        /\ op.pc \in {"install", "head"} => op.pks # {}
        /\ op.pc = "install" =>
              /\ Newest(Current) # 0
              /\ ver[Current][Newest(Current)].end # 0
              /\ ver[Current][Newest(Current)].row # <<>>
              /\ Fits(ver[Current][Newest(Current)], op.old)
              /\ ValidateAgainst(NewRow(ver[Current][Newest(Current)].row), op.neu)
        /\ op.pc = "head" =>
              /\ next.vid - 1 \in Vids /\ Open(Current, next.vid - 1)
        /\ op.pc \in {"persist_ts", "persist_vid", "put_table"} => op.pks = {}
        /\ op.pc \in {"close", "install"} => next.vid + Cardinality(op.pks) <= MaxVid + 1
        /\ op.pc = "head" => next.vid + Cardinality(op.pks) <= MaxVid + 2

\* No transaction, live or lost, is around while a DDL statement works.
Alone == op.pc \notin {"idle", "list"} => Unfinished = {}

DataInv ==
    /\ VersionsTyped /\ CountersInv /\ OwnerInv /\ Alone
    /\ op.pc = "drop_versions" => \A p \in Pks : head[p] = 0
    /\ ~Dropping => ChainInv /\ RowsInv /\ AlterInv
    /\ 1 \notin lags

\* Schema change invariant.
DdlInv == SchemaInv /\ (~interrupted => DataInv)
=============================================================================
