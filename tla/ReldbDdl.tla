------------------------------ MODULE ReldbDdl ------------------------------
(***************************************************************************)
(* Schema changes of one table: CreateTable, DropTable and ALTER of        *)
(* Database (database.cpp), the Catalog with its cache (catalog.cpp), the  *)
(* gate that keeps transactions out (open_txn_count_, ddl_in_progress_),   *)
(* and sessions (sql_session.cpp) that look a schema up before they begin  *)
(* the transaction that uses it.                                           *)
(*                                                                         *)
(* A DDL handler holds Database::mu_ from beginning to end; `op' is the    *)
(* handler inside mu_ and a step is one Put or Delete of the engine.  A    *)
(* row is the sequence of its cells, a cell is the column it was written   *)
(* for: values are left out, types are kept.  Transactions are reduced to  *)
(* what ReldbTxn shows of them: a transaction writes at most one row,      *)
(* commits in one step, and a crash is followed by an Open that aborts     *)
(* what was open.                                                          *)
(***************************************************************************)
EXTENDS Naturals, Sequences, FiniteSets

CONSTANTS
    Sessions,   \* clients; each has at most one transaction
    Pks,        \* primary keys, in key order
    Id,         \* the primary key column
    Cols,       \* names of the other columns
    TypeOf,     \* ColumnDef::type of a column
    MaxVid,     \* bound: version ids are 1..MaxVid
    MaxTs,      \* bound: timestamps are 1..MaxTs
    MaxTxn,     \* bound: transaction ids are 1..MaxTxn
    MaxDdl,     \* bound: DDL statements admitted by the gate
    MaxCrashes, \* bound: process crashes
    MaxFaults   \* bound: engine calls that fail

NoTable == <<>>
Vids == 1 .. MaxVid
Absent == [start |-> 0, end |-> 0, prev |-> 0, by |-> 0, row |-> <<>>, inc |-> 0]

ASSUME DdlBounds ==
    /\ MaxVid \in Nat /\ MaxTs \in Nat /\ MaxTxn \in Nat
    /\ MaxDdl \in Nat /\ MaxCrashes \in Nat /\ MaxFaults \in Nat
    /\ Pks = 1 .. Cardinality(Pks) /\ IsFiniteSet(Pks) /\ Id \notin Cols /\ IsFiniteSet(Sessions)

VARIABLES
    \* --- durable
    catalog,   \* c/t/<name>: the columns, NoTable when the key is absent
    ver,       \* v/<name>/<pk>/<vid>, Absent when the key is absent
    head,      \* d/<name>/<pk>, 0 when the key is absent
    stored,    \* persisted counters
    \* --- in memory
    cache,     \* Catalog::cache_: at most the one table
    next,      \* next_ts_, next_version_id_, next_txn_id_
    open_txn_count,
    sess,      \* what a session's statement and transaction hold
    op,        \* the handler inside mu_
    \* --- history
    changes,      \* schema changes so far
    incarnation,  \* CREATEs so far
    interrupted,  \* a DDL statement failed or crashed half way
    lags,         \* how outdated the schemas of accepted writes were
    lost,         \* transactions whose Abort failed in ~Transaction
    ddls, crashes, faults

durable == <<catalog, ver, head, stored>>
history == <<changes, incarnation, interrupted, lags, lost>>
bounds == <<ddls, crashes, faults>>
vars == <<catalog, ver, head, stored, cache, next, open_txn_count, sess, op,
          changes, incarnation, interrupted, lags, lost, ddls, crashes, faults>>

\* A session: schema as the statement looked it up, the number of schema changes
\* then, and its transaction (tid 0: none), the row it wrote and whether the
\* write list on disk names it.
NoSession == [schema |-> NoTable, seen |-> 0, tid |-> 0, start |-> 0, pk |-> 0,
              vid |-> 0, listed |-> FALSE]
Idle == [pc |-> "idle", s |-> NoTable, old |-> NoTable, neu |-> NoTable, pks |-> {},
         ts |-> 0, drop |-> 0]
Live == {s \in Sessions : sess[s].tid # 0}
\* The transactions whose record on disk says Open: live ones, and those that an
\* engine error kept ~Transaction from aborting.
Unfinished == {sess[s] : s \in Live} \cup lost

Init ==
    /\ catalog = NoTable
    /\ ver = [p \in Pks |-> [v \in Vids |-> Absent]]
    /\ head = [p \in Pks |-> 0]
    /\ stored = [ts |-> 1, vid |-> 1, txn |-> 1]
    /\ cache = NoTable
    /\ next = stored
    /\ open_txn_count = 0
    /\ sess = [s \in Sessions |-> NoSession]
    /\ op = Idle
    /\ changes = 0 /\ incarnation = 0 /\ interrupted = FALSE /\ lags = {}
    /\ lost = {} /\ ddls = 0 /\ crashes = 0 /\ faults = 0

-----------------------------------------------------------------------------
\* Rows and versions.

\* Row::ValidateAgainst: as many cells as columns, of their types.
ValidateAgainst(row, schema) ==
    /\ schema # NoTable /\ Len(row) = Len(schema)
    /\ \A i \in 1 .. Len(row) : TypeOf[row[i]] = TypeOf[schema[i]]

is_provisional(rec) == rec.start = 0

IsCommittedVisible(rec, snapshot) ==
    /\ ~is_provisional(rec) /\ rec.start <= snapshot
    /\ rec.end # 0 => rec.end > snapshot

\* The version that ends the walk of GetRow: the reader's own, or a visible one.
Answers(rec, snapshot, tid) ==
    \/ is_provisional(rec) /\ rec.by = tid
    \/ IsCommittedVisible(rec, snapshot)

\* MvccStore::GetRow: the version that transaction tid sees at a snapshot, 0 when
\* there is none.  The owner of another provisional version is open or aborted.
\* The number of steps is bounded by the number of versions of the row.
GetRow(p, snapshot, tid) ==
    LET walk[n \in 0 .. MaxVid] ==
            [id \in 0 .. MaxVid |->
                IF id = 0 \/ n = 0 THEN 0
                ELSE IF Answers(ver[p][id], snapshot, tid)
                THEN IF ver[p][id].row = <<>> THEN 0 ELSE id
                ELSE walk[n - 1][ver[p][id].prev]]
    IN  walk[MaxVid][head[p]]

\* The newest committed version under a head, 0 when there is none.
NewestCommitted(p) ==
    LET walk[n \in 0 .. MaxVid] ==
            [id \in 0 .. MaxVid |->
                IF id = 0 \/ n = 0 THEN 0
                ELSE IF is_provisional(ver[p][id]) THEN walk[n - 1][ver[p][id].prev] ELSE id]
    IN  walk[MaxVid][head[p]]

\* A chain that leads back to itself (a version id was handed out twice): the
\* loops of GetRow, Write and ALTER never leave it.
Endless(p) ==
    LET walk[n \in 0 .. MaxVid] ==
            [id \in 0 .. MaxVid |->
                IF n = 0 THEN id ELSE IF id = 0 THEN 0 ELSE walk[n - 1][ver[p][id].prev]]
    IN  walk[MaxVid][head[p]] # 0

-----------------------------------------------------------------------------
\* Catalog::GetTable: the cached schema, else the stored one, which is cached.
GetTable == IF cache # NoTable THEN cache ELSE catalog

\* SqlSession::LookupTable through Database::GetTable: takes mu_ for a moment.
LookupTable(s) ==
    /\ op = Idle
    /\ GetTable # NoTable
    /\ cache' = GetTable
    /\ sess' = [sess EXCEPT ![s].schema = GetTable, ![s].seen = changes]
    /\ UNCHANGED <<catalog, ver, head, stored, next, open_txn_count, op, history, bounds>>

\* Database::Begin.
Begin(s) ==
    /\ op = Idle
    /\ sess[s].tid = 0 /\ next.txn <= MaxTxn
    /\ next' = [next EXCEPT !.txn = @ + 1]
    /\ stored' = next'
    /\ sess' = [sess EXCEPT ![s].tid = next.txn, ![s].start = next.ts - 1]
    /\ open_txn_count' = open_txn_count + 1
    /\ UNCHANGED <<catalog, ver, head, cache, op, history, bounds>>

\* Transaction::Write after the checks of its caller: conflicts, then the version
\* and the head.  The write list is the next step (WriteList), inside mu_.
Write(s, p, row) ==
    LET rec == ver[p][head[p]]
        mine == sess[s].tid
        taken == head[p] # 0 /\ is_provisional(rec)
    IN  /\ sess[s].vid = 0 /\ next.vid <= MaxVid
        /\ ~Endless(p)
        /\ taken => rec.by \notin {t.tid : t \in Unfinished}
        /\ NewestCommitted(p) # 0 => ver[p][NewestCommitted(p)].start <= sess[s].start
        /\ next' = [next EXCEPT !.vid = @ + 1]
        /\ stored' = next'
        /\ ver' = [ver EXCEPT ![p][next.vid] =
               [start |-> 0, end |-> 0, prev |-> IF taken THEN rec.prev ELSE head[p],
                by |-> mine, row |-> row, inc |-> incarnation]]
        /\ head' = [head EXCEPT ![p] = next.vid]
        /\ sess' = [sess EXCEPT ![s].pk = p, ![s].vid = next.vid]
        /\ op' = [Idle EXCEPT !.pc = "list", !.s = s]
        /\ cache' = GetTable
        /\ lags' = lags \cup {changes - sess[s].seen}
        /\ UNCHANGED <<catalog, open_txn_count, changes, incarnation, interrupted,
                       lost, bounds>>

\* Mutant: Transaction::Insert trusts the validation of its caller.
InsertTrusting(s, p) ==
    /\ op = Idle /\ sess[s].tid # 0 /\ sess[s].schema # NoTable /\ GetTable # NoTable
    /\ GetRow(p, sess[s].start, sess[s].tid) = 0
    /\ Write(s, p, sess[s].schema)

\* RunInsert and Transaction::Insert: the row has the shape of the schema that was
\* looked up, and is validated again against the schema of now.
Insert(s, p) ==
    /\ op = Idle /\ sess[s].tid # 0 /\ sess[s].schema # NoTable
    /\ ValidateAgainst(sess[s].schema, GetTable)
    /\ GetRow(p, sess[s].start, sess[s].tid) = 0
    /\ Write(s, p, sess[s].schema)

\* RunUpdate, UpdateOp and Transaction::Update: column c is set at the index it had
\* in the schema that was looked up.  The old row must fit that schema
\* (PrimaryKey), the new one the schema of now.
Update(s, p, c) ==
    LET seen == sess[s].schema
        v == GetRow(p, sess[s].start, sess[s].tid)
    IN  /\ op = Idle /\ sess[s].tid # 0
        /\ v # 0 /\ ValidateAgainst(ver[p][v].row, seen)
        /\ \E i \in 1 .. Len(seen) :
               /\ seen[i] = c /\ c # Id
               /\ ValidateAgainst([ver[p][v].row EXCEPT ![i] = c], GetTable)
               /\ Write(s, p, [ver[p][v].row EXCEPT ![i] = c])

\* RunDelete, DeleteOp and Transaction::Delete: the table must still exist.
Delete(s, p) ==
    LET v == GetRow(p, sess[s].start, sess[s].tid)
    IN  /\ op = Idle /\ sess[s].tid # 0 /\ GetTable # NoTable
        /\ v # 0 /\ ValidateAgainst(ver[p][v].row, sess[s].schema)
        /\ Write(s, p, <<>>)

\* The durable write list, at the end of Transaction::Write.
WriteList ==
    /\ op.pc = "list"
    /\ sess' = [sess EXCEPT ![op.s].listed = TRUE]
    /\ op' = Idle
    /\ UNCHANGED <<catalog, ver, head, stored, cache, next, open_txn_count, history, bounds>>

\* Database::RestoreHeads: a head goes back to what the version under it names,
\* if it is still the one that a transaction of txns wrote and listed.
RestoreHeads(txns) ==
    [p \in Pks |-> IF \E t \in txns : t.listed /\ t.pk = p /\ t.vid = head[p]
                   THEN ver[p][head[p]].prev ELSE head[p]]

\* Database::CommitTransaction: the version is stamped, its predecessor closed.
CommitTransaction(s) ==
    LET w == sess[s]
        prev == ver[w.pk][w.vid].prev
        stamped == [ver EXCEPT ![w.pk][w.vid].start = next.ts]
        closes == prev # 0 /\ ~is_provisional(ver[w.pk][prev]) /\ ver[w.pk][prev].end = 0
    IN  /\ op = Idle /\ w.tid # 0 /\ next.ts <= MaxTs
        /\ w.vid # 0 => w.listed /\ head[w.pk] = w.vid
        /\ ver' = IF w.vid = 0 THEN ver
                  ELSE IF closes THEN [stamped EXCEPT ![w.pk][prev].end = next.ts]
                  ELSE stamped
        /\ next' = [next EXCEPT !.ts = @ + 1]
        /\ stored' = next'
        /\ open_txn_count' = open_txn_count - 1
        /\ sess' = [sess EXCEPT ![s] = NoSession]
        /\ UNCHANGED <<catalog, head, cache, op, history, bounds>>

\* Database::AbortTransaction: also what Commit does when the head moved.
AbortTransaction(s) ==
    /\ op = Idle /\ sess[s].tid # 0
    /\ head' = RestoreHeads({sess[s]})
    /\ open_txn_count' = open_txn_count - 1
    /\ sess' = [sess EXCEPT ![s] = NoSession]
    /\ UNCHANGED <<catalog, ver, stored, cache, next, op, history, bounds>>

\* ~Transaction when the engine fails inside Abort: the error is dropped, the
\* object is gone and the counter keeps it.  The call that failed is the one that
\* restores the head or the one that records the abort.
AbortFails(s) ==
    /\ op = Idle /\ sess[s].tid # 0
    /\ faults < MaxFaults
    /\ head' \in {head, RestoreHeads({sess[s]})}
    /\ sess' = [sess EXCEPT ![s] = NoSession]
    /\ lost' = lost \cup {sess[s]}
    /\ faults' = faults + 1
    /\ UNCHANGED <<catalog, ver, stored, cache, next, open_txn_count, op, changes, incarnation,
                   interrupted, lags, ddls, crashes>>

-----------------------------------------------------------------------------
\* DDL.  The gate is the same for the four statements: no open transaction, and
\* no DDL in progress, which under mu_ is op = Idle.

\* Mutant: the gate looks at other sessions only when they wrote something.
GateIgnoresReaders == op = Idle /\ ddls < MaxDdl /\ \A s \in Live : sess[s].vid = 0

Gate == op = Idle /\ ddls < MaxDdl /\ open_txn_count = 0

Changed == changes' = changes + 1

\* Database::CreateTable and Catalog::CreateTable: one Put, then the cache.
CreateTable(schema) ==
    /\ Gate
    /\ GetTable = NoTable
    /\ catalog' = schema /\ cache' = schema
    /\ incarnation' = incarnation + 1
    /\ Changed /\ ddls' = ddls + 1
    /\ UNCHANGED <<ver, head, stored, next, open_txn_count, sess, op, interrupted, lags,
                   lost, crashes, faults>>

\* Mutant: the cached schema survives a DROP.
DropKeepsCache ==
    /\ Gate
    /\ GetTable # NoTable
    /\ catalog' = NoTable /\ cache' = GetTable
    /\ op' = [Idle EXCEPT !.pc = "drop_heads"]
    /\ Changed /\ ddls' = ddls + 1
    /\ UNCHANGED <<ver, head, stored, next, open_txn_count, sess, incarnation,
                   interrupted, lags, lost, crashes, faults>>

\* Database::DropTable: the catalog key first, then heads, then versions.
DropTable ==
    /\ Gate
    /\ GetTable # NoTable
    /\ catalog' = NoTable /\ cache' = NoTable
    /\ op' = [Idle EXCEPT !.pc = "drop_heads"]
    /\ Changed /\ ddls' = ddls + 1
    /\ UNCHANGED <<ver, head, stored, next, open_txn_count, sess, incarnation,
                   interrupted, lags, lost, crashes, faults>>

\* Mutant: the loop of DeleteKeyPrefix waits for a key that nobody deletes.
KeepHeads ==
    /\ op.pc = "drop_heads"
    /\ \A p \in Pks : head[p] = 0
    /\ op' = [op EXCEPT !.pc = "drop_versions"]
    /\ UNCHANGED <<durable, cache, next, open_txn_count, sess, history, bounds>>

\* DeleteKeyPrefix of d/<name>/: the collected keys, one Delete each, in key order.
DeleteHeads ==
    /\ op.pc = "drop_heads"
    /\ \/ \E p \in Pks :
             /\ head[p] # 0 /\ \A q \in Pks : q < p => head[q] = 0
             /\ head' = [head EXCEPT ![p] = 0]
             /\ op' = op
       \/ /\ \A p \in Pks : head[p] = 0
          /\ op' = [op EXCEPT !.pc = "drop_versions"]
          /\ head' = head
    /\ UNCHANGED <<catalog, ver, stored, cache, next, open_txn_count, sess, history, bounds>>

\* DeleteKeyPrefix of v/<name>/; the keys of one row go in one step, which is as
\* good as one by one: without a head no version is reached.
DeleteVersions ==
    /\ op.pc = "drop_versions"
    /\ \/ \E p \in Pks :
             /\ \E v \in Vids : ver[p][v] # Absent
             /\ \A q \in Pks : q < p => \A v \in Vids : ver[q][v] = Absent
             /\ ver' = [ver EXCEPT ![p] = [v \in Vids |-> Absent]]
             /\ op' = op
       \/ /\ \A p \in Pks, v \in Vids : ver[p][v] = Absent
          /\ op' = Idle
          /\ ver' = ver
    /\ UNCHANGED <<catalog, head, stored, cache, next, open_txn_count, sess, history, bounds>>

\* Up to the first write of an ALTER: the gate, the new schema, the keys of the
\* row heads in key order, one timestamp for all rows.
StartAlter(neu, drop) ==
    /\ Gate
    /\ GetTable # NoTable
    /\ next.ts <= MaxTs /\ next.vid + Cardinality({p \in Pks : head[p] # 0}) <= MaxVid + 1
    /\ cache' = GetTable
    /\ next' = [next EXCEPT !.ts = @ + 1]
    /\ op' = [Idle EXCEPT !.pc = "close", !.old = GetTable, !.neu = neu, !.drop = drop,
                          !.pks = {p \in Pks : head[p] # 0}, !.ts = next.ts]
    /\ ddls' = ddls + 1
    /\ UNCHANGED <<durable, open_txn_count, sess, history, crashes, faults>>

\* Database::AlterTableAddColumn and AlterTableDropColumn: the checks.
AlterTableAddColumn(c) ==
    /\ \A i \in 1 .. Len(GetTable) : GetTable[i] # c
    /\ StartAlter(Append(GetTable, c), 0)

RemoveAt(s, i) == SubSeq(s, 1, i - 1) \o SubSeq(s, i + 1, Len(s))

AlterTableDropColumn(c) ==
    \E i \in 1 .. Len(GetTable) :
        /\ GetTable[i] = c /\ c # Id
        /\ StartAlter(RemoveAt(GetTable, i), i)

\* The key that the loop of ALTER is at: the collected keys are taken in order.
Current == CHOOSE p \in op.pks : \A q \in op.pks : p <= q
Others == op.pks \ {Current}

\* Mutant: a row whose head is a leftover of a crashed write is passed over.
RewrittenHeadOnly(p) ==
    LET v == head[p]
    IN  IF \/ v = 0 \/ is_provisional(ver[p][v])
           \/ ver[p][v].row = <<>> \/ ver[p][v].end # 0
           \/ Len(ver[p][v].row) = Len(op.neu)
        THEN 0 ELSE v

\* The version of a row that ALTER rewrites: the newest committed one, unless it is
\* deleted, already closed or already as wide as the new schema; 0 when none.
Rewritten(p) ==
    LET v == NewestCommitted(p)
    IN  IF \/ v = 0
           \/ ver[p][v].row = <<>> \/ ver[p][v].end # 0
           \/ Len(ver[p][v].row) = Len(op.neu)
        THEN 0 ELSE v

NewRow(row) == IF op.drop = 0 THEN Append(row, op.neu[Len(op.neu)]) ELSE RemoveAt(row, op.drop)

\* The first half of a row's rewriting: its version is closed.  A row of another
\* width, or whose cells do not fit the new schema, ends the statement.
AlterClose ==
    /\ op.pc = "close"
    /\ \/ /\ op.pks = {}
          /\ op' = [op EXCEPT !.pc = "persist_ts"]
          /\ UNCHANGED <<ver, interrupted>>
       \/ /\ op.pks # {} /\ ~Endless(Current)
          /\ LET p == Current
                 v == Rewritten(p)
                 fits == /\ Len(ver[p][v].row) = Len(op.old)
                         /\ ValidateAgainst(NewRow(ver[p][v].row), op.neu)
             IN  \/ /\ v = 0
                    /\ op' = [op EXCEPT !.pks = Others]
                    /\ UNCHANGED <<ver, interrupted>>
                 \/ /\ v # 0 /\ ~fits
                    /\ op' = Idle /\ interrupted' = TRUE
                    /\ UNCHANGED ver
                 \/ /\ v # 0 /\ fits
                    /\ ver' = [ver EXCEPT ![p][v].end = op.ts]
                    /\ op' = [op EXCEPT !.pc = "install"]
                    /\ UNCHANGED interrupted
    /\ UNCHANGED <<catalog, head, stored, cache, next, open_txn_count, sess, changes,
                   incarnation, lags, lost, bounds>>

\* The second half: the new version, stamped at once, then the head (SetHead).
AlterInstall ==
    /\ op.pc = "install"
    /\ LET p == Current
           v == NewestCommitted(p)
       IN  ver' = [ver EXCEPT ![p][next.vid] =
                      [start |-> op.ts, end |-> 0, prev |-> v, by |-> 0,
                       row |-> NewRow(ver[p][v].row), inc |-> incarnation]]
    /\ next' = [next EXCEPT !.vid = @ + 1]
    /\ op' = [op EXCEPT !.pc = "head"]
    /\ UNCHANGED <<catalog, head, stored, cache, open_txn_count, sess, history, bounds>>

\* Mutant: the new version is written and the head forgotten.
SkipSetHead ==
    /\ op.pc = "head"
    /\ op' = [op EXCEPT !.pc = "close", !.pks = Others]
    /\ UNCHANGED <<durable, cache, next, open_txn_count, sess, history, bounds>>

AlterSetHead ==
    /\ op.pc = "head"
    /\ head' = [head EXCEPT ![Current] = next.vid - 1]
    /\ op' = [op EXCEPT !.pc = "close", !.pks = Others]
    /\ UNCHANGED <<catalog, ver, stored, cache, next, open_txn_count, sess, history, bounds>>

\* Mutant: ALTER persists its timestamp but not its version ids.
PersistTsOnly ==
    /\ op.pc = "persist_ts"
    /\ stored' = [stored EXCEPT !.ts = next.ts]
    /\ op' = [op EXCEPT !.pc = "put_table"]
    /\ UNCHANGED <<catalog, ver, head, cache, next, open_txn_count, sess, history, bounds>>

\* PersistOracles at the end of an ALTER (the transaction counter did not move).
AlterPersist ==
    /\ \/ /\ op.pc = "persist_ts"
          /\ stored' = [stored EXCEPT !.ts = next.ts]
          /\ op' = [op EXCEPT !.pc = "persist_vid"]
       \/ /\ op.pc = "persist_vid"
          /\ stored' = [stored EXCEPT !.vid = next.vid]
          /\ op' = [op EXCEPT !.pc = "put_table"]
    /\ UNCHANGED <<catalog, ver, head, cache, next, open_txn_count, sess, history, bounds>>

\* Catalog::PutTable: the schema, then the cache.
PutTable ==
    /\ op.pc = "put_table"
    /\ catalog' = op.neu /\ cache' = op.neu
    /\ op' = Idle
    /\ Changed
    /\ UNCHANGED <<ver, head, stored, next, open_txn_count, sess, incarnation,
                   interrupted, lags, lost, bounds>>

-----------------------------------------------------------------------------
DdlStep == \/ DeleteHeads \/ DeleteVersions \/ AlterClose \/ AlterInstall
           \/ AlterSetHead \/ AlterPersist \/ PutTable
HandlerStep == WriteList \/ DdlStep

\* An engine call of a DDL handler fails: the handler returns where it is.
DdlFails ==
    /\ op.pc \notin {"idle", "list"}
    /\ faults < MaxFaults
    /\ op' = Idle /\ interrupted' = TRUE /\ faults' = faults + 1
    /\ UNCHANGED <<durable, cache, next, open_txn_count, sess, changes, incarnation,
                   lags, lost, ddls, crashes>>

\* The process dies and Database::Open recovers: open transactions are aborted as
\* far as their write lists name their rows.
Crash ==
    /\ crashes < MaxCrashes
    /\ head' = RestoreHeads(Unfinished)
    /\ next' = stored
    /\ cache' = NoTable
    /\ open_txn_count' = 0 /\ lost' = {}
    /\ sess' = [s \in Sessions |-> NoSession]
    /\ op' = Idle
    /\ interrupted' = (interrupted \/ op.pc \notin {"idle", "list"})
    /\ crashes' = crashes + 1
    /\ UNCHANGED <<catalog, ver, stored, changes, incarnation, lags, ddls, faults>>

Next ==
    \/ \E s \in Sessions :
          \/ LookupTable(s) \/ Begin(s) \/ CommitTransaction(s) \/ AbortTransaction(s)
          \/ AbortFails(s)
          \/ \E p \in Pks : Insert(s, p) \/ Delete(s, p) \/ \E c \in Cols : Update(s, p, c)
    \/ \E c \in Cols : CreateTable(<<Id, c>>) \/ AlterTableAddColumn(c) \/ AlterTableDropColumn(c)
    \/ DropTable
    \/ HandlerStep
    \/ DdlFails
    \/ Crash

Spec == Init /\ [][Next]_vars
FairSpec == Spec /\ WF_vars(HandlerStep)

-----------------------------------------------------------------------------
\* The gate counts exactly the live transactions and those whose Abort failed in
\* ~Transaction (txn.cpp:31): while a DDL handler runs nobody has a transaction,
\* and a lost one keeps the gate shut until a restart.
GateExact ==
    /\ open_txn_count = Cardinality(Live) + Cardinality(lost)
    /\ op.pc \notin {"idle", "list"} => Live = {}

\* The cache never answers a schema that is not the stored one, wherever DDL
\* statements fail or the process dies (catalog.cpp writes the engine first).
CacheCoherent == cache = NoTable \/ cache = catalog

\* Snapshots a reader can have now: those of open transactions and that of the
\* next Begin.
Snapshots == {sess[s].start : s \in Live} \cup {next.ts - 1}

\* When no DDL statement was cut short and no write used an outdated schema, every
\* row that any open or new transaction sees has the columns of the catalog, and
\* was written to this table, not to one dropped before it: no transaction spans a
\* schema change, ALTER rewrites all rows and DROP forgets all.
RowsMatchSchema ==
    op = Idle /\ ~interrupted /\ lags \subseteq {0} =>
        \A p \in Pks, ts \in Snapshots :
            LET v == GetRow(p, ts, 0)
            IN  v # 0 => /\ ver[p][v].row = catalog
                         /\ ver[p][v].inc = incarnation

\* When no DDL statement was cut short, the next transaction sees of every row the
\* newest committed version: rewriting and dropping leave no row whose versions are
\* all closed.
RowsServed ==
    op = Idle /\ ~interrupted =>
        \A p \in Pks :
            LET v == NewestCommitted(p)
            IN  v # 0 /\ ver[p][v].row # <<>> => GetRow(p, next.ts - 1, 0) = v

\* A statement binds its columns before its transaction begins.  The validation
\* inside the transaction rejects it after any single schema change in between;
\* a write with an outdated schema needs two changes, or rows that a DDL statement
\* that was cut short left behind.
OneChangeIsCaught == ~interrupted => 1 \notin lags

\* Counters are ahead of everything on disk unless a DDL statement was cut short:
\* no version id and no timestamp is handed out twice.
CountersAhead ==
    op = Idle /\ ~interrupted =>
        \A p \in Pks, v \in Vids :
            ver[p][v] # Absent => v < stored.vid /\ ver[p][v].start < stored.ts

\* Every handler inside mu_ ends, so waiting Begins and lookups get the lock, as
\* long as no DDL statement was cut short (a reused version id can close a chain
\* into a ring, which ALTER then walks for ever).
DdlEnds == op # Idle /\ ~interrupted ~> op = Idle
=============================================================================
