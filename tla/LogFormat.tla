----------------------------- MODULE LogFormat -----------------------------
(***************************************************************************)
(* The two files that are appended to: the write-ahead log (wal.cpp) and   *)
(* the MANIFEST (version.cpp), as bytes.  A file may be cut anywhere by    *)
(* the death of the process.                                               *)
(***************************************************************************)
EXTENDS InternalKey
LOCAL INSTANCE SequencesExt

-----------------------------------------------------------------------------
\* MaskCrc(Crc32(data)), as a checksum that any one changed byte changes.
Crc32(data) ==
    LET sum[lh \in (1 .. Len(data)) \X (1 .. Len(data))] ==
            LET mid == (lh[1] + lh[2]) \div 2
            IN  IF lh[1] = lh[2] THEN lh[1] * data[lh[1]] ELSE sum[<<lh[1], mid>>] + sum[<<mid + 1, lh[2]>>]
    IN  IF data = <<>> THEN 0 ELSE Len(data) + sum[<<1, Len(data)>>]

AddRecord(file, data) == file \o PutFixed32(Len(data)) \o PutFixed32(Crc32(data)) \o data

\* Mutant: a record cut short is taken for the end of the log.
ReadRecordLenient(s) ==
    LET len == GetFixed32(s)
        crc == GetFixed32(len.rest)
        data == SubSeq(crc.rest, 1, len.v)
    IN  IF Len(s) < 8 \/ Len(crc.rest) < len.v THEN [status |-> "eof", v |-> <<>>, rest |-> <<>>]
        ELSE [status |-> "ok", v |-> data, rest |-> Drop(crc.rest, len.v + 1)]

\* WalReader::ReadRecord: [status, v, rest].
ReadRecord(s) ==
    LET bad == [status |-> "corruption", v |-> <<>>, rest |-> <<>>]
        len == GetFixed32(s)
        crc == GetFixed32(len.rest)
        data == SubSeq(crc.rest, 1, len.v)
    IN  IF s = <<>> THEN [bad EXCEPT !.status = "eof"]
        ELSE IF Len(s) < 8 THEN bad
        ELSE IF Len(crc.rest) < len.v \/ Crc32(data) # crc.v THEN bad
        ELSE [status |-> "ok", v |-> data, rest |-> Drop(crc.rest, len.v + 1)]

\* A batch is its first sequence number and entries [type, key, value].
EncodeWriteBatch(seq, entries) ==
    PutFixed64(seq) \o PutFixed32(Len(entries))
    \o FlattenSeq([i \in 1 .. Len(entries) |->
           <<entries[i].type>> \o PutLengthPrefixedSlice(entries[i].key)
                               \o PutLengthPrefixedSlice(entries[i].value)])

GetEntry(s) ==
    After(GetByte(s), LAMBDA type :
    After(GetLengthPrefixedSlice(type.rest), LAMBDA key :
    After(GetLengthPrefixedSlice(key.rest), LAMBDA value :
        Read([type |-> type.v, key |-> key.v, value |-> value.v], value.rest))))

DecodeWriteBatch(record) ==
    After(GetFixed64(record), LAMBDA seq :
    After(GetFixed32(seq.rest), LAMBDA count :
    After(GetMany(count.rest, count.v, GetEntry), LAMBDA entries :
        Read([seq |-> seq.v, entries |-> entries.v], entries.rest))))

\* DBImpl::RecoverLogFile: the batches put into the memtable, and whether it
\* answers OK.
RECURSIVE RecoverLogFile(_)
RecoverLogFile(file) ==
    LET r == ReadRecord(file)
        batch == DecodeWriteBatch(r.v)
        more == RecoverLogFile(r.rest)
    IN  IF r.status = "ok" /\ batch.ok THEN [more EXCEPT !.batches = <<batch.v>> \o @]
        ELSE [batches |-> <<>>, ok |-> r.status = "eof"]

-----------------------------------------------------------------------------
\* VersionEdit: optional counters (<<>> or <<n>>), deleted and added files.  Its
\* records are tagged fields.
Field(tag, x) == IF x = <<>> THEN <<>> ELSE PutVarint(tag) \o PutVarint(x[1])
EncodeEdit(e) ==
    Field(1, e.next) \o Field(2, e.last) \o Field(3, e.log)
    \o FlattenSeq([i \in 1 .. Len(e.deleted) |->
           PutVarint(5) \o PutVarint(e.deleted[i].level) \o PutVarint(e.deleted[i].number)])
    \o FlattenSeq([i \in 1 .. Len(e.added) |->
           LET f == e.added[i]
           IN  PutVarint(4) \o PutVarint(f.level) \o PutVarint(f.number) \o PutVarint(f.size)
               \o PutLengthPrefixedSlice(f.smallest) \o PutLengthPrefixedSlice(f.largest)])
FrameEdit(e) == PutFixed32(Len(EncodeEdit(e))) \o EncodeEdit(e)

NoEdit == [next |-> <<>>, last |-> <<>>, log |-> <<>>, deleted |-> <<>>, added |-> <<>>]

\* One field of an edit, and the rest of the input.
GetField(s, e) ==
    After(GetVarint32(s), LAMBDA tag :
    After(IF tag.v \in {1, 2, 3} THEN GetVarint64(tag.rest) ELSE GetVarint32(tag.rest), LAMBDA a :
        CASE tag.v = 1 -> Read([e EXCEPT !.next = <<a.v>>], a.rest)
          [] tag.v = 2 -> Read([e EXCEPT !.last = <<a.v>>], a.rest)
          [] tag.v = 3 -> Read([e EXCEPT !.log = <<a.v>>], a.rest)
          [] tag.v = 5 ->
                 After(GetVarint64(a.rest), LAMBDA number :
                     Read([e EXCEPT !.deleted = Append(@, [level |-> a.v, number |-> number.v])], number.rest))
          [] tag.v = 4 ->
                 After(GetVarint64(a.rest), LAMBDA number :
                 After(GetVarint64(number.rest), LAMBDA size :
                 After(GetLengthPrefixedSlice(size.rest), LAMBDA smallest :
                 After(GetLengthPrefixedSlice(smallest.rest), LAMBDA largest :
                     Read([e EXCEPT !.added = Append(@, [level |-> a.v, number |-> number.v, size |-> size.v,
                                                         smallest |-> smallest.v, largest |-> largest.v])],
                          largest.rest)))))
          [] OTHER -> Short))

RECURSIVE DecodeFrom(_, _)
DecodeFrom(s, e) ==
    IF s = <<>> THEN Read(e, <<>>) ELSE After(GetField(s, e), LAMBDA f : DecodeFrom(f.rest, f.v))

-----------------------------------------------------------------------------
\* VersionSet: counters and the files of levels 0 and 1.
BySmallest(files) ==
    SortSeq(files, LAMBDA f, g : Less(ExtractUserKey(f.smallest), ExtractUserKey(g.smallest)))
OfLevel(files, l) == SelectSeq(files, LAMBDA f : f.level = l)
WithoutDeleted(files, l, e) ==
    SelectSeq(files, LAMBDA f : \A i \in 1 .. Len(e.deleted) : e.deleted[i] # [level |-> l, number |-> f.number])
Greater(x, y) == IF x >= y THEN x ELSE y
Given(n, x) == IF x = <<>> THEN n ELSE x[1]

ApplyFileEdits(files, l, e) == WithoutDeleted(files, l, e) \o OfLevel(e.added, l)

\* LogAndApply in memory; it appends FrameEdit(e) to the MANIFEST.
ApplyEdit(v, e) ==
    [next |-> Greater(v.next, Given(0, e.next)), last |-> Greater(v.last, Given(0, e.last)),
     log |-> Given(v.log, e.log),
     l0 |-> ApplyFileEdits(v.l0, 0, e), l1 |-> BySmallest(ApplyFileEdits(v.l1, 1, e))]

\* NewDB and WriteSnapshot: the first frame of the MANIFEST.
NewDB == [next |-> 2, last |-> 0, log |-> 0, l0 |-> <<>>, l1 |-> <<>>]
SnapshotEdit(v) == [NoEdit EXCEPT !.next = <<v.next>>, !.last = <<v.last>>, !.log = <<v.log>>,
                                  !.added = v.l0 \o v.l1]

\* VersionSet::Recover: [ok, v].
RECURSIVE ReplayManifest(_, _)
ReplayManifest(file, v) ==
    LET frame == After(GetFixed32(file), LAMBDA len :
                     IF Len(len.rest) < len.v THEN Short
                     ELSE After(DecodeFrom(SubSeq(len.rest, 1, len.v), NoEdit), LAMBDA e :
                              Read(e.v, Drop(len.rest, len.v + 1))))
        applied(e) == [next |-> Given(v.next, e.next), last |-> Given(v.last, e.last), log |-> Given(v.log, e.log),
                       l0 |-> ApplyFileEdits(v.l0, 0, e), l1 |-> ApplyFileEdits(v.l1, 1, e)]
        replay(f) == IF f.ok THEN ReplayManifest(f.rest, applied(f.v)) ELSE [ok |-> FALSE, v |-> v]
    IN  IF file = <<>> THEN [ok |-> TRUE, v |-> v] ELSE replay(frame)
Recover(file) ==
    LET r == ReplayManifest(file, NewDB)
    IN  [r EXCEPT !.v.l1 = BySmallest(@)]
=============================================================================
