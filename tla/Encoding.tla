------------------------------ MODULE Encoding ------------------------------
(***************************************************************************)
(* encoding.cpp: fixed-width integers, varints and length-prefixed slices  *)
(* over bytes.  A reader answers [ok, v, rest]; rest is what it leaves of  *)
(* its input.  Integers are below 2^31, so that the upper bytes of a       *)
(* 64-bit field are zero, or all ones for a negative one.                  *)
(***************************************************************************)
EXTENDS Integers, Sequences, FiniteSets

Drop(s, i) == SubSeq(s, i, Len(s))
Read(v, rest) == [ok |-> TRUE, v |-> v, rest |-> rest]
Short == [ok |-> FALSE, v |-> <<>>, rest |-> <<>>]
Least(S) == CHOOSE x \in S : \A y \in S : x <= y

\* Byte i of the two's complement of v, the least significant first.
ByteOf(v, i) == IF i <= 4 THEN (v \div 256 ^ (i - 1)) % 256 ELSE IF v < 0 THEN 255 ELSE 0
PutFixed32(v) == [i \in 1 .. 4 |-> ByteOf(v, i)]
PutFixed64(v) == [i \in 1 .. 8 |-> ByteOf(v, i)]
DecodeFixed(s) ==
    LET high == IF s[4] >= 128 THEN s[4] - 256 ELSE s[4]
    IN  s[1] + 256 * s[2] + 65536 * s[3] + 16777216 * high
GetFixed32(s) == IF Len(s) < 4 THEN Short ELSE Read(DecodeFixed(s), Drop(s, 5))
GetFixed64(s) == IF Len(s) < 8 THEN Short ELSE Read(DecodeFixed(s), Drop(s, 9))

\* Mutant: 128 is taken to fit in one byte.
PutVarintWide(v) == IF v <= 128 THEN <<v>> ELSE <<128 + (v % 128), v \div 128>>
PutVarint(v) ==
    LET put[x \in Nat] == IF x < 128 THEN <<x>> ELSE <<128 + (x % 128)>> \o put[x \div 128]
    IN  put[v]

\* GetVarint32Ptr reads at most 5 bytes, GetVarint64Ptr at most 10.
GetVarint(s, most) ==
    LET ends == {k \in 1 .. Len(s) : k <= most /\ s[k] < 128}
        sum[i \in 0 .. Len(s)] == IF i = 0 THEN 0 ELSE sum[i - 1] + (s[i] % 128) * 128 ^ (i - 1)
    IN  IF ends = {} THEN Short ELSE Read(sum[Least(ends)], Drop(s, Least(ends) + 1))
GetVarint32(s) == GetVarint(s, 5)
GetVarint64(s) == GetVarint(s, 10)

\* The rest of a record after its first field; readers return false at the first
\* field that is not there.
After(r, Rest(_)) == IF r.ok THEN Rest(r) ELSE Short

PutLengthPrefixedSlice(x) == PutVarint(Len(x)) \o x
GetLengthPrefixedSlice(s) ==
    After(GetVarint32(s), LAMBDA n :
        IF Len(n.rest) < n.v THEN Short ELSE Read(SubSeq(n.rest, 1, n.v), Drop(n.rest, n.v + 1)))

GetByte(s) == IF s = <<>> THEN Short ELSE Read(s[1], Tail(s))

\* n fields read by Get one after the other.
GetMany(s, n, Get(_)) ==
    LET upTo[i \in 0 .. n] ==
            IF i = 0 THEN Read(<<>>, s)
            ELSE After(upTo[i - 1], LAMBDA u :
                     After(Get(u.rest), LAMBDA x : Read(Append(u.v, x.v), x.rest)))
    IN  upTo[n]

\* A record is its fields and nothing after them.
Whole(r) == IF r.ok /\ r.rest = <<>> THEN r ELSE Short
=============================================================================
