---------------------------- MODULE TableFormat ----------------------------
(***************************************************************************)
(* Where entries are kept in key order: the skip list of a memtable        *)
(* (skiplist.h, memtable.cpp), prefix-compressed blocks with restart       *)
(* points (block.cpp), tables with an index block (sstable.cpp), and the   *)
(* iterators that merge them (db_iter.cpp, compaction.cpp).                *)
(*                                                                         *)
(* An entry is [key, value], key an internal key.  A block is a sequence   *)
(* of encoded entries [shared, delta, value] and its restart points; an    *)
(* offset is the number of an entry.  A cursor is what it will still       *)
(* deliver: [rows, ok], where ~ok means that it then stops with an error.  *)
(***************************************************************************)
EXTENDS InternalKey
LOCAL INSTANCE SequencesExt

Entry(k, v) == [key |-> k, value |-> v]
Cursor(rows, ok) == [rows |-> rows, ok |-> ok]
Highest(x, y) == IF x >= y THEN x ELSE y

\* The rows from the first one that is not before target.
SkipBefore(rows, target) ==
    LET hits == {i \in 1 .. Len(rows) : ~KeyBefore(rows[i].key, target)}
    IN  IF hits = {} THEN <<>> ELSE Drop(rows, Least(hits))

\* What a lookup answers: [ok, found, live, value].
Absent == [ok |-> TRUE, found |-> FALSE, live |-> FALSE, value |-> <<>>]
Corrupt == [Absent EXCEPT !.ok = FALSE]
AnswerOf(rows, ikey) ==
    IF \/ rows = <<>> \/ ExtractUserKey(rows[1].key) # ExtractUserKey(ikey)
       \/ ExtractSequence(rows[1].key) > ExtractSequence(ikey)
    THEN Absent
    ELSE IF ExtractValueType(rows[1].key) = kTypeDeletion THEN [Absent EXCEPT !.found = TRUE]
    ELSE [ok |-> TRUE, found |-> TRUE, live |-> TRUE, value |-> rows[1].value]

-----------------------------------------------------------------------------
\* SkipList.  Nodes are numbered in order of insertion and 0 is head_; next[n][l] is
\* the successor of n on level l, 0 for nullptr.
kMaxHeight == 3
NewList == [nodes |-> <<>>, next |-> [n \in 0 .. 0 |-> [l \in 1 .. kMaxHeight |-> 0]], max_height |-> 1]

FindGreaterOrEqual(list, key) ==
    LET right(x, l) == LET n == list.next[x][l]
                       IN  IF n # 0 /\ KeyBefore(list.nodes[n].key, key) THEN n ELSE x
        left[l \in 1 .. kMaxHeight] ==     \* the node where the search leaves level l
            LET x == IF l = list.max_height THEN 0 ELSE left[l + 1]
                walk[k \in 0 .. Len(list.nodes)] == IF k = 0 THEN x ELSE right(walk[k - 1], l)
            IN  walk[Len(list.nodes)]
    IN  [node |-> list.next[left[1]][1],
         prev |-> [l \in 1 .. kMaxHeight |-> IF l <= list.max_height THEN left[l] ELSE 0]]

Insert(list, e, height) ==
    LET f == FindGreaterOrEqual(list, e.key)
        x == Len(list.nodes) + 1
    IN  IF f.node # 0 /\ ~KeyBefore(e.key, list.nodes[f.node].key)
        THEN [list EXCEPT !.nodes[f.node] = e]
        ELSE [nodes |-> Append(list.nodes, e), max_height |-> Highest(list.max_height, height),
              next |-> [n \in 0 .. x |-> [l \in 1 .. kMaxHeight |->
                           IF l > height THEN IF n = x THEN 0 ELSE list.next[n][l]
                           ELSE IF n = x THEN list.next[f.prev[l]][l]
                           ELSE IF n = f.prev[l] THEN x ELSE list.next[n][l]]]]

\* SkipList::Iterator from node n on, the lowest level.
RECURSIVE IterateFrom(_, _)
IterateFrom(list, n) == IF n = 0 THEN <<>> ELSE <<list.nodes[n]>> \o IterateFrom(list, list.next[n][1])
ListRows(list) == IterateFrom(list, list.next[0][1])
ListSeek(list, ikey) == IterateFrom(list, FindGreaterOrEqual(list, ikey).node)

MemTableGet(list, user, snapshot) ==
    LET ikey == MakeLookupKey(user, snapshot)
        f == FindGreaterOrEqual(list, ikey).node
    IN  AnswerOf(IF f = 0 THEN <<>> ELSE <<list.nodes[f]>>, ikey)

-----------------------------------------------------------------------------
\* BlockBuilder and Block.
EmptyBlock == [entries |-> <<>>, restarts |-> <<1>>, last |-> <<>>, counter |-> 0, bytes |-> 0]
SharedPrefix(a, b) ==
    CHOOSE i \in 0 .. Len(a) :
        /\ i <= Len(b) /\ \A j \in 1 .. i : a[j] = b[j]
        /\ i = Len(a) \/ i = Len(b) \/ a[i + 1] # b[i + 1]

\* Mutant: the key at a restart point is compressed like any other.
AddSharing(b, e, interval) ==
    LET restart == b.counter >= interval
        shared == SharedPrefix(b.last, e.key)
    IN  [entries |-> Append(b.entries, [shared |-> shared, delta |-> Drop(e.key, shared + 1), value |-> e.value]),
         restarts |-> IF restart THEN Append(b.restarts, Len(b.entries) + 1) ELSE b.restarts,
         last |-> e.key, counter |-> IF restart THEN 1 ELSE b.counter + 1, bytes |-> b.bytes]

Add(b, e, interval) ==
    LET restart == b.counter >= interval
        shared == IF restart THEN 0 ELSE SharedPrefix(b.last, e.key)
        delta == Drop(e.key, shared + 1)
    IN  [entries |-> Append(b.entries, [shared |-> shared, delta |-> delta, value |-> e.value]),
         restarts |-> IF restart THEN Append(b.restarts, Len(b.entries) + 1) ELSE b.restarts,
         last |-> e.key, counter |-> IF restart THEN 1 ELSE b.counter + 1,
         bytes |-> b.bytes + 3 + Len(delta) + Len(e.value)]
CurrentSizeEstimate(b) == b.bytes + 4 * Len(b.restarts) + 4

\* ParseNext from entry r on with an empty key_buf_; it stops at an entry that shares
\* more than key_buf_ holds.
ParseFrom(b, r) ==
    LET n == Len(b.entries)
        key[i \in r - 1 .. n] ==
            IF i < r THEN <<>>
            ELSE SubSeq(key[i - 1], 1, b.entries[i].shared) \o b.entries[i].delta
        bad == {i \in r .. n : b.entries[i].shared > Len(key[i - 1])} \cup {n + 1}
    IN  [k \in 1 .. Least(bad) - r |-> Entry(key[r + k - 1], b.entries[r + k - 1].value)]

SeekToFirst(b) == ParseFrom(b, b.restarts[1])

\* Block::Iterator::Seek: a binary search for the last restart key before target,
\* then a scan.
Seek(b, target) ==
    LET n == Len(b.restarts)
        restartKey(k) == b.entries[b.restarts[k + 1]].delta
        search[lr \in (0 .. n) \X (0 .. n)] ==
            LET mid == (lr[1] + lr[2]) \div 2
            IN  IF lr[1] + 1 >= lr[2] THEN lr[1]
                ELSE IF KeyBefore(restartKey(mid), target) THEN search[<<mid, lr[2]>>]
                ELSE search[<<lr[1], mid>>]
    IN  SkipBefore(ParseFrom(b, b.restarts[search[<<0, n>>] + 1]), target)

-----------------------------------------------------------------------------
\* SSTableBuilder; opt is [size, interval].  A handle is the number of a block.
NewBuilder == [blocks |-> <<>>, data |-> EmptyBlock, index |-> EmptyBlock, pending |-> <<>>]
WritePending(t) ==
    IF t.pending = <<>> THEN t
    ELSE [t EXCEPT !.index = Add(@, Entry(t.pending[1], <<Len(t.blocks)>>), 1), !.pending = <<>>]
FlushDataBlock(t) ==
    IF t.data.entries = <<>> THEN t
    ELSE [t EXCEPT !.blocks = Append(@, t.data), !.data = EmptyBlock, !.pending = <<t.data.last>>]
AddToTable(t, e, opt) ==
    LET u == [WritePending(t) EXCEPT !.data = Add(@, e, opt.interval)]
    IN  IF CurrentSizeEstimate(u.data) >= opt.size THEN FlushDataBlock(u) ELSE u

\* Add for every row and Finish, as BuildTableFromMemTable does; bad is the set of
\* blocks whose checksum does not match, 0 for the index.
BuildTable(rows, opt, bad) ==
    LET added[i \in 0 .. Len(rows)] ==
            IF i = 0 THEN NewBuilder ELSE AddToTable(added[i - 1], rows[i], opt)
        t == WritePending(FlushDataBlock(added[Len(rows)]))
    IN  [blocks |-> t.blocks, index |-> t.index, bad |-> bad]

TableGet(t, ikey) ==
    LET handle == Seek(t.index, ikey)
    IN  IF 0 \in t.bad THEN Corrupt
        ELSE IF handle = <<>> THEN Absent
        ELSE IF handle[1].value[1] \in t.bad THEN Corrupt
        ELSE AnswerOf(Seek(t.blocks[handle[1].value[1]], ikey), ikey)

\* SSTable::Iterator: index positions, and what the first block is read with.
TableCursor(t, handles, Start(_)) ==
    LET from[k \in 1 .. Len(handles) + 1] ==
            LET n == handles[k].value[1]
                rows == IF k = 1 THEN Start(t.blocks[n]) ELSE SeekToFirst(t.blocks[n])
            IN  IF k > Len(handles) THEN Cursor(<<>>, TRUE)
                ELSE IF n \in t.bad THEN Cursor(<<>>, FALSE)
                ELSE IF rows = <<>> THEN Cursor(<<>>, TRUE)
                ELSE [from[k + 1] EXCEPT !.rows = rows \o @]
    IN  IF 0 \in t.bad THEN Cursor(<<>>, FALSE) ELSE from[1]
TableFirst(t) == TableCursor(t, SeekToFirst(t.index), SeekToFirst)
TableSeek(t, ikey) == TableCursor(t, Seek(t.index, ikey), LAMBDA b : Seek(b, ikey))

-----------------------------------------------------------------------------
\* MergingInternalIter over cursors.
Live(cs) == {i \in 1 .. Len(cs) : cs[i].rows # <<>>}
MergeOk(cs) == \A i \in 1 .. Len(cs) : cs[i].rows # <<>> \/ cs[i].ok
FindSmallest(cs) ==
    CHOOSE i \in Live(cs) : \A j \in Live(cs) :
        \/ KeyBefore(cs[i].rows[1].key, cs[j].rows[1].key)
        \/ i <= j /\ ~KeyBefore(cs[j].rows[1].key, cs[i].rows[1].key)
MergeNext(cs) == [cs EXCEPT ![FindSmallest(cs)].rows = Tail(@)]
Current(cs) == cs[FindSmallest(cs)].rows[1]

RECURSIVE SkipUserKey(_, _)
SkipUserKey(cs, user) ==
    IF Live(cs) = {} \/ ExtractUserKey(Current(cs).key) # user THEN cs
    ELSE SkipUserKey(MergeNext(cs), user)

\* DBIterator over cursors, read to its end: the live keys and values it delivers and
\* its final status; ok is status_ so far.  Each round of AdvanceToNextVisibleKey
\* first looks at the status of the merge.
\* Mutant: a deletion hides itself but not the older writes of its key.
RECURSIVE ScanTombstones(_, _, _)
ScanTombstones(cs, snapshot, ok) ==
    LET e == Current(cs)
        user == ExtractUserKey(e.key)
    IN  IF Live(cs) = {} \/ ~ok \/ ~MergeOk(cs) THEN Cursor(<<>>, ok /\ MergeOk(cs))
        ELSE IF ExtractSequence(e.key) > snapshot \/ ExtractValueType(e.key) = kTypeDeletion
        THEN ScanTombstones(MergeNext(cs), snapshot, ok)
        ELSE LET more == ScanTombstones(SkipUserKey(MergeNext(cs), user), snapshot, ok)
             IN  [more EXCEPT !.rows = <<Entry(user, e.value)>> \o @]

RECURSIVE AdvanceToNextVisibleKey(_, _, _)
AdvanceToNextVisibleKey(cs, snapshot, ok) ==
    LET e == Current(cs)
        user == ExtractUserKey(e.key)
        more == AdvanceToNextVisibleKey(SkipUserKey(MergeNext(cs), user), snapshot, ok)
    IN  IF Live(cs) = {} \/ ~ok \/ ~MergeOk(cs) THEN Cursor(<<>>, ok /\ MergeOk(cs))
        ELSE IF ExtractSequence(e.key) > snapshot
        THEN AdvanceToNextVisibleKey(MergeNext(cs), snapshot, ok)
        ELSE IF ExtractValueType(e.key) = kTypeDeletion THEN more
        ELSE [more EXCEPT !.rows = <<Entry(user, e.value)>> \o @]

\* The merge of CompactLevel0: the newest entry of each user key, deletions too.  It
\* does not look at the status of its inputs.
RECURSIVE CompactMerge(_)
CompactMerge(cs) ==
    LET e == Current(cs)
    IN  IF Live(cs) = {} THEN <<>>
        ELSE <<e>> \o CompactMerge(SkipUserKey(MergeNext(cs), ExtractUserKey(e.key)))
=============================================================================
