---------------------------- MODULE StorageCheck ----------------------------
(***************************************************************************)
(* The storage formats against their reference: memtables and tables,      *)
(* iterators over several of them, damaged logs and MANIFESTs, records.    *)
(***************************************************************************)
EXTENDS TableFormat, LogFormat, RecordFormat, Cases
LOCAL INSTANCE SequencesExt

CONSTANTS
    Users,          \* user keys in ascending order
    Stores,         \* [writes, heights, opt]: a write is [user, type], user an index of Users
    Scans,          \* [writes, cuts, opt, bad]: writes spread over a memtable and two tables
    Logs, Edits,    \* sequences of batches, sequences of version edits
    Records,        \* [op, x]: rows, schemas, versions, transaction records
    RowKeys         \* [table, pk, id]

-----------------------------------------------------------------------------
\* Writes as entries; the i-th one has sequence number i and value <<i>>.
EntryOf(writes, i) == Entry(MakeInternalKey(Users[writes[i].user], i, writes[i].type), <<i>>)
MemTable(writes, heights, first) ==
    LET added[i \in first - 1 .. Len(writes)] ==
            IF i < first THEN NewList ELSE Insert(added[i - 1], EntryOf(writes, i), heights[i])
    IN  added[Len(writes)]
Ones(n) == [i \in 1 .. n |-> 1]
RowsOf(writes, first, last) == ListRows(MemTable(SubSeq(writes, 1, last), Ones(last), first))

\* Every user key and a snapshot.
Lookups(writes) == (1 .. Len(Users)) \X (0 .. Len(writes))
LookupKey(l) == MakeLookupKey(Users[l[1]], l[2])

StoreStep ==
    Step("store", LET list == MemTable(input.writes, input.heights, 1)
                  IN  [list |-> list, table |-> BuildTable(ListRows(list), input.opt, {})])

\* The layers of a database: writes up to cuts[1] in a table of level 1, up to cuts[2]
\* in one of level 0, the others in mem_.  bad is [table, blocks]; a table that does
\* not open leaves status_ not OK.
TableOf(c, k) ==
    LET first == IF k = 1 THEN 1 ELSE c.cuts[1] + 1
    IN  BuildTable(RowsOf(c.writes, first, c.cuts[k]), c.opt, IF c.bad.table = k THEN c.bad.blocks ELSE {})
ScanStep ==
    Step("scan",
         LET list == MemTable(input.writes, Ones(Len(input.writes)), input.cuts[2] + 1)
             l0 == TableOf(input, 2)
             l1 == TableOf(input, 1)
             compacted == BuildTable(CompactMerge(<<TableFirst(l0), TableFirst(l1)>>), input.opt, {})
             children(ikey) == <<Cursor(ListSeek(list, ikey), TRUE), TableSeek(l0, ikey), TableSeek(l1, ikey)>>
             newest == Len(input.writes)
         IN  [rows |-> [l \in Lookups(input.writes) |->
                           AdvanceToNextVisibleKey(children(LookupKey(l)), l[2], input.opens)],
              first |-> AdvanceToNextVisibleKey(<<Cursor(ListRows(list), TRUE), TableFirst(l0), TableFirst(l1)>>,
                                                newest, input.opens),
              compacted |-> AdvanceToNextVisibleKey(<<Cursor(ListRows(list), TRUE), TableFirst(compacted)>>,
                                                    newest, TRUE)])

\* damage: the number of bytes left of the file, or the byte that changed.
LogFile(batches) ==
    LET file[i \in 0 .. Len(batches)] ==
            IF i = 0 THEN <<>>
            ELSE AddRecord(file[i - 1], EncodeWriteBatch(batches[i].seq, batches[i].entries))
    IN  file
Flipped(file, i) == IF i = 0 THEN file ELSE [file EXCEPT ![i] = (@ + 1) % 256]
LogStep ==
    Step("log", RecoverLogFile(Flipped(SubSeq(LogFile(input.log)[Len(input.log)], 1, input.cut), input.flip)))

ManifestFile(edits) ==
    LET file[i \in 0 .. Len(edits)] ==
            IF i = 0 THEN FrameEdit(SnapshotEdit(NewDB)) ELSE file[i - 1] \o FrameEdit(edits[i])
    IN  file
ManifestStep == Step("manifest", Recover(SubSeq(ManifestFile(input.edits)[Len(input.edits)], 1, input.cut)))

Encode(op, x) == CASE op = "row" -> EncodeRow(x) [] op = "schema" -> EncodeSchema(x)
                   [] op = "version" -> EncodeVersion(x) [] op = "meta" -> EncodeTxnMeta(x)
Decode(op, s) == CASE op = "row" -> DecodeRow(s) [] op = "schema" -> DecodeSchema(s)
                   [] op = "version" -> DecodeVersion(s) [] op = "meta" -> DecodeTxnMeta(s)
RecordStep == \E op \in {"row", "schema", "version", "meta"} : Step(op, Encode(op, input.x))
KeyStep == Step("keys", [k \in {"a", "b"} |->
                            [head |-> RowHeadKey(input[k].table, EncodePkForKey(input[k].pk)),
                             version |-> VersionKey(input[k].table, EncodePkForKey(input[k].pk), input[k].id),
                             txn |-> TxnKey(input[k].id), pk |-> DecodePkFromKey(EncodePkForKey(input[k].pk))]])

StorageInit ==
    /\ Fresh
    /\ \/ \E s \in Stores : input = [op |-> "store", writes |-> s.writes, heights |-> s.heights, opt |-> s.opt]
       \/ \E s \in Scans, opens \in BOOLEAN :
             input = [op |-> "scan", writes |-> s.writes, cuts |-> s.cuts, opt |-> s.opt, bad |-> s.bad,
                      opens |-> opens]
       \/ \E log \in Logs : \E cut \in 0 .. Len(LogFile(log)[Len(log)]), flip \in {0, 5, 9} :
             flip <= cut /\ input = [op |-> "log", log |-> log, cut |-> cut, flip |-> flip]
       \/ \E edits \in Edits : \E cut \in 0 .. Len(ManifestFile(edits)[Len(edits)]) :
             input = [op |-> "manifest", edits |-> edits, cut |-> cut]
       \/ \E r \in Records : input = r
       \/ \E a, b \in RowKeys : input = [op |-> "keys", a |-> a, b |-> b]
StorageNext == StoreStep \/ ScanStep \/ LogStep \/ ManifestStep \/ RecordStep \/ KeyStep

-----------------------------------------------------------------------------
\* Reference: what the writes mean, by their numbers.
Newest(writes, u, snapshot) ==
    LET mine == {i \in 1 .. Len(writes) : writes[i].user = u /\ i <= snapshot}
    IN  IF mine = {} THEN 0 ELSE CHOOSE i \in mine : \A j \in mine : j <= i
IsLive(writes, i) == i # 0 /\ writes[i].type = kTypeValue

\* The writes from a lookup on: by user key, the latest first.
InOrder(writes, l) ==
    LET hits == {i \in 1 .. Len(writes) :
                    writes[i].user > l[1] \/ (writes[i].user = l[1] /\ i <= l[2])}
        order == SetToSortSeq(hits, LAMBDA i, j :
                     writes[i].user < writes[j].user \/ (writes[i].user = writes[j].user /\ i > j))
    IN  [k \in 1 .. Len(order) |-> EntryOf(writes, order[k])]
AnswerAt(writes, l) ==
    LET i == Newest(writes, l[1], l[2])
    IN  [ok |-> TRUE, found |-> i # 0, live |-> IsLive(writes, i), value |-> IF IsLive(writes, i) THEN <<i>> ELSE <<>>]

\* The live user keys from u on at a snapshot, with their values.
Visible(writes, u, snapshot) ==
    LET users == SelectSeq([k \in 1 .. Len(Users) |-> k],
                           LAMBDA k : k >= u /\ IsLive(writes, Newest(writes, k, snapshot)))
    IN  [k \in 1 .. Len(users) |-> Entry(Users[users[k]], <<Newest(writes, users[k], snapshot)>>)]

-----------------------------------------------------------------------------
\* The skip list and the table written from it hold the writes in order and find, for
\* every user key and snapshot, the newest write the snapshot covers: prefix
\* compression, restart points, index keys and both binary searches together.
StoreExact ==
    Answered("store") =>
        LET w == input.writes
        IN  /\ \A l \in Lookups(w) :
                   /\ ListSeek(out.list, LookupKey(l)) = InOrder(w, l)
                   /\ TableSeek(out.table, LookupKey(l)) = Cursor(InOrder(w, l), TRUE)
                   /\ MemTableGet(out.list, Users[l[1]], l[2]) = AnswerAt(w, l)
                   /\ TableGet(out.table, LookupKey(l)) = AnswerAt(w, l)
            /\ TableFirst(out.table) = Cursor(InOrder(w, <<0, 0>>), TRUE)

\* A DBIterator delivers the live keys of its snapshot in order.  When a block is bad
\* or a table does not open, what it delivers is the beginning of that, and it ends
\* with OK only if nothing is missing.  A compaction of sound tables does not change
\* what the newest snapshot sees.
ScanExact ==
    Answered("scan") =>
        LET w == input.writes
            exact(c, u, snapshot) ==
                /\ IsPrefix(c.rows, Visible(w, u, snapshot))
                /\ c.ok => c.rows = Visible(w, u, snapshot)
            sound == input.bad.blocks = {}
        IN  /\ \A l \in Lookups(w) : exact(out.rows[l], l[1], l[2])
            /\ exact(out.first, 1, Len(w))
            /\ sound /\ input.opens => out.first.ok
            /\ sound => out.compacted = Cursor(Visible(w, 1, Len(w)), TRUE)

\* Of a log or MANIFEST that was cut or changed, reading yields the whole records before
\* the damage, and OK exactly if there is none: a tail is never taken for a record, nor
\* for the end of the file.  A sound MANIFEST gives back the VersionSet that wrote it.
FilesRecovered ==
    /\ Answered("log") =>
           LET file == LogFile(input.log)
               whole == CHOOSE i \in 0 .. Len(input.log) :
                           /\ Len(file[i]) <= input.cut
                           /\ i < Len(input.log) => Len(file[i + 1]) > input.cut
           IN  IF input.flip # 0 THEN out = [batches |-> <<>>, ok |-> FALSE]
               ELSE out = [batches |-> SubSeq(input.log, 1, whole), ok |-> Len(file[whole]) = input.cut]
    /\ Answered("manifest") =>
           LET file == ManifestFile(input.edits)
               memory[i \in 0 .. Len(input.edits)] ==
                   IF i = 0 THEN NewDB ELSE ApplyEdit(memory[i - 1], input.edits[i])
               ends == {i \in 0 .. Len(input.edits) : Len(file[i]) = input.cut}
           IN  /\ out.ok = (ends # {} \/ input.cut = 0)
               /\ \A i \in ends : out.v = memory[i]

\* A record decodes to what was encoded and no part of it decodes, but for a transaction
\* record cut to its legacy form; keys of different rows, versions, tables or
\* transactions differ, and the prefix that DROP TABLE deletes is that of one table.
RecordsDecode ==
    /\ \A op \in {"row", "schema", "version", "meta"} :
           Answered(op) =>
               /\ Decode(op, out).ok /\ Decode(op, out).v = input.x
               /\ \A n \in 0 .. Len(out) - 1 :
                      Decode(op, SubSeq(out, 1, n)).ok => op = "meta" /\ n = 9
    /\ Answered("keys") =>
           LET a == input.a
               b == input.b
               row == a.table = b.table /\ a.pk = b.pk
           IN  /\ (out["a"].head = out["b"].head) = row
               /\ (out["a"].version = out["b"].version) = (row /\ a.id = b.id)
               /\ IsPrefix(RowHeadPrefix(a.table), out["b"].head) = (a.table = b.table)
               /\ IsPrefix(VersionPrefix(a.table), out["b"].version) = (a.table = b.table)
               /\ (out["a"].txn = out["b"].txn) = (a.id = b.id)
               /\ out["a"].pk.ok /\ out["a"].pk.v = a.pk
=============================================================================
