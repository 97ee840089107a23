---------------------------- MODULE RecordFormat ----------------------------
(***************************************************************************)
(* The records and keys that reldb stores in the engine, as bytes: cells   *)
(* and rows (row.cpp), schemas (schema.cpp), versions and keys (mvcc.cpp), *)
(* transaction records (database.cpp).                                     *)
(*                                                                         *)
(* A value is [type, v] with v a sequence: <<n>>, <<0>> or <<1>>, the      *)
(* bytes of a string, <<>> for Null.  A decoder answers [ok, v, rest].     *)
(***************************************************************************)
EXTENDS Encoding
LOCAL INSTANCE SequencesExt

ColumnTypes == <<"Null", "Int64", "String", "Bool">>
TypeCode(t) == CHOOSE c \in 0 .. 3 : ColumnTypes[c + 1] = t

Slash == 47

-----------------------------------------------------------------------------
\* Row::AppendValue, and ConsumeValue.
EncodeValue(x) ==
    <<TypeCode(x.type)>> \o CASE x.type = "Null" -> <<>>
                              [] x.type = "Int64" -> PutFixed64(x.v[1])
                              [] x.type = "String" -> PutLengthPrefixedSlice(x.v)
                              [] x.type = "Bool" -> x.v

ConsumeValue(s) ==
    LET value(type, v, rest) == Read([type |-> type, v |-> v], rest)
    IN  After(GetByte(s), LAMBDA t :
            CASE t.v = 0 -> value("Null", <<>>, t.rest)
              [] t.v = 1 -> After(GetFixed64(t.rest), LAMBDA x : value("Int64", <<x.v>>, x.rest))
              [] t.v = 2 -> After(GetLengthPrefixedSlice(t.rest), LAMBDA x : value("String", x.v, x.rest))
              [] t.v = 3 -> After(GetByte(t.rest), LAMBDA x : value("Bool", <<IF x.v # 0 THEN 1 ELSE 0>>, x.rest))
              [] OTHER -> Short)
DecodeValue(s) == Whole(ConsumeValue(s))

\* Row::Encode, Row::Decode: a row is a sequence of values.
EncodeRow(row) == PutVarint(Len(row)) \o FlattenSeq([i \in 1 .. Len(row) |-> EncodeValue(row[i])])
DecodeRow(s) ==
    After(GetVarint32(s), LAMBDA n : Whole(GetMany(n.rest, n.v, ConsumeValue)))

\* TableSchema: [name, columns], a column is [name, type, pk].
Validate(t) ==
    LET names == [i \in 1 .. Len(t.columns) |-> t.columns[i].name]
    IN  /\ t.name # <<>> /\ t.columns # <<>>
        /\ \A i \in 1 .. Len(names) : names[i] # <<>> /\ t.columns[i].type # "Null"
        /\ \A i, j \in 1 .. Len(names) : names[i] = names[j] => i = j
        /\ Cardinality({i \in 1 .. Len(names) : t.columns[i].pk}) = 1

EncodeSchema(t) ==
    LET column(c) == PutLengthPrefixedSlice(c.name) \o <<TypeCode(c.type), IF c.pk THEN 1 ELSE 0, 0>>
    IN  <<1>> \o PutLengthPrefixedSlice(t.name) \o PutVarint(Len(t.columns))
        \o FlattenSeq([i \in 1 .. Len(t.columns) |-> column(t.columns[i])])

GetColumn(s) ==
    After(GetLengthPrefixedSlice(s), LAMBDA name :
        IF Len(name.rest) < 3 THEN Short
        ELSE IF name.rest[3] # 0 THEN Short
        ELSE Read([name |-> name.v, type |-> ColumnTypes[name.rest[1] + 1], pk |-> name.rest[2] # 0],
                  Drop(name.rest, 4)))
DecodeSchema(s) ==
    After(GetByte(s), LAMBDA version : IF version.v # 1 THEN Short ELSE
    After(GetLengthPrefixedSlice(version.rest), LAMBDA name :
    After(GetVarint32(name.rest), LAMBDA n :
    After(GetMany(n.rest, n.v, GetColumn), LAMBDA columns :
        Whole(Read([name |-> name.v, columns |-> columns.v], columns.rest))))))

\* VersionRecord: five numbers, the tombstone flag and the payload.
EncodeVersion(r) ==
    FlattenSeq([i \in 1 .. 5 |-> PutFixed64(r.numbers[i])])
    \o <<IF r.is_tombstone THEN 1 ELSE 0>> \o PutLengthPrefixedSlice(r.payload)
DecodeVersion(s) ==
    After(GetMany(s, 5, GetFixed64), LAMBDA numbers :
    After(GetByte(numbers.rest), LAMBDA flag :
    After(GetLengthPrefixedSlice(flag.rest), LAMBDA payload :
        Whole(Read([numbers |-> numbers.v, is_tombstone |-> flag.v # 0, payload |-> payload.v], payload.rest)))))

-----------------------------------------------------------------------------
\* Keys.
Nibble(n) == IF n < 10 THEN 48 + n ELSE 87 + n
ToHex(s) == [i \in 1 .. 2 * Len(s) |->
                LET b == s[(i + 1) \div 2] IN Nibble(IF i % 2 = 1 THEN b \div 16 ELSE b % 16)]
FromHex(h) ==
    LET digits == {Nibble(n) : n \in 0 .. 15} \cup 65 .. 70
        nibble(c) == IF c < 58 THEN c - 48 ELSE IF c < 71 THEN c - 55 ELSE c - 87
    IN  IF Len(h) % 2 = 1 \/ \E i \in 1 .. Len(h) : h[i] \notin digits THEN Short
        ELSE Read([i \in 1 .. Len(h) \div 2 |-> nibble(h[2 * i - 1]) * 16 + nibble(h[2 * i])], <<>>)
Fixed64BE(v) == [i \in 1 .. 8 |-> ByteOf(v, 9 - i)]

EncodePkForKey(pk) == ToHex(EncodeValue(pk))
DecodePkFromKey(h) == After(FromHex(h), LAMBDA x : DecodeValue(x.v))

\* "d/", "v/" and "m/txn/" are 100, 118 and 109 before a slash.
RowHeadPrefix(table) == <<100, Slash>> \o table \o <<Slash>>
VersionPrefix(table) == <<118, Slash>> \o table \o <<Slash>>
RowHeadKey(table, pk_key) == RowHeadPrefix(table) \o pk_key
VersionKey(table, pk_key, id) == VersionPrefix(table) \o pk_key \o <<Slash>> \o Fixed64BE(id)
TxnKey(id) == <<109, Slash, 116, 120, 110, Slash>> \o Fixed64BE(id)

-----------------------------------------------------------------------------
\* TxnMeta: [state, commit_ts, writes]; a write is [table, pk, version_id].
EncodeTxnMeta(m) ==
    <<m.state>> \o PutFixed64(m.commit_ts)
    \o IF m.writes = <<>> THEN <<>>
       ELSE PutFixed32(Len(m.writes))
            \o FlattenSeq([i \in 1 .. Len(m.writes) |->
                   PutLengthPrefixedSlice(m.writes[i].table)
                   \o PutLengthPrefixedSlice(EncodePkForKey(m.writes[i].pk))
                   \o PutFixed64(m.writes[i].version_id)])

GetWrite(s) ==
    After(GetLengthPrefixedSlice(s), LAMBDA table :
    After(GetLengthPrefixedSlice(table.rest), LAMBDA pk_hex :
    After(GetFixed64(pk_hex.rest), LAMBDA id :
    After(DecodePkFromKey(pk_hex.v), LAMBDA pk :
        Read([table |-> table.v, pk |-> pk.v, version_id |-> id.v], id.rest)))))
DecodeTxnMeta(s) ==
    After(GetByte(s), LAMBDA state :
    After(GetFixed64(state.rest), LAMBDA ts :
        LET meta(w) == [state |-> state.v, commit_ts |-> ts.v, writes |-> w]
        IN  IF ts.rest = <<>> THEN Read(meta(<<>>), <<>>)
            ELSE After(GetFixed32(ts.rest), LAMBDA n :
                 After(GetMany(n.rest, n.v, GetWrite), LAMBDA writes :
                     Whole(Read(meta(writes.v), writes.rest))))))
=============================================================================
