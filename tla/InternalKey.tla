---------------------------- MODULE InternalKey ----------------------------
(* internal_key.cpp: a user key followed by its packed sequence number and type. *)
EXTENDS Encoding

kTypeDeletion == 0
kTypeValue == 1

MakeInternalKey(user, seq, t) == user \o PutFixed64(seq * 256 + t)
MakeLookupKey(user, seq) == MakeInternalKey(user, seq, kTypeValue)

Packed(ikey) == DecodeFixed(Drop(ikey, Len(ikey) - 7))
ExtractUserKey(ikey) == IF Len(ikey) < 8 THEN ikey ELSE SubSeq(ikey, 1, Len(ikey) - 8)
ExtractSequence(ikey) == IF Len(ikey) < 8 THEN 0 ELSE Packed(ikey) \div 256
ExtractValueType(ikey) == IF Len(ikey) < 8 THEN kTypeValue ELSE Packed(ikey) % 256

\* Slice::compare(a, b) < 0.
Less(a, b) ==
    \E i \in 0 .. Len(a) :
        /\ i < Len(b) /\ \A j \in 1 .. i : a[j] = b[j]
        /\ i = Len(a) \/ a[i + 1] < b[i + 1]

\* CompareInternalKey(a, b) < 0: user keys ascend, sequence numbers descend.
KeyBefore(a, b) ==
    IF Len(a) < 8 \/ Len(b) < 8 THEN Less(a, b)
    ELSE \/ Less(ExtractUserKey(a), ExtractUserKey(b))
         \/ ExtractUserKey(a) = ExtractUserKey(b) /\ Packed(a) > Packed(b)
=============================================================================
