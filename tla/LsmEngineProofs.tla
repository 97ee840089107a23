-------------------------- MODULE LsmEngineProofs ---------------------------
(****************************************************************************)
(* The engine for any number of keys, writers, readers, files, crashes and  *)
(* failing operations: the facts about the operators of LsmEngine and about *)
(* what each of its steps changes, and that types, control state and file   *)
(* numbers stay as BaseInv says (LsmEngineInv); one step per action.        *)
(****************************************************************************)
EXTENDS LsmEngineInv, FiniteSetTheorems, TLAPS

\* Zenon proves every leaf that names no other prover.
USE Zenon

\* A set of natural numbers that is not empty has a least member.
LEMMA LeastNat ==
    ASSUME NEW T \in SUBSET Nat, T # {}
    PROVE  \E x \in T : \A y \in T : x <= y
<1>1. \E x \in T : \A y \in T : <<y, x>> \notin OpToRel(<, Nat)
  BY NatLessThanWellFounded, WFMin
<1>2. \A x, y \in Nat : <<y, x>> \notin OpToRel(<, Nat) => x <= y
  BY SMT DEF OpToRel
<1> QED BY <1>1, <1>2

\* A finite set of natural numbers that is not empty has a greatest member.
LEMMA GreatestNat ==
    ASSUME NEW S \in SUBSET Nat, S # {}, IsFiniteSet(S)
    PROVE  \E x \in S : \A y \in S : y <= x
<1> DEFINE Bad == {T \in SUBSET S : T # {} /\ ~\E x \in T : \A y \in T : y <= x}
           B == {n \in Nat : \E T \in Bad : Cardinality(T) = n}
<1> SUFFICES ASSUME Bad # {} PROVE FALSE
  OBVIOUS
<1>1. B # {} /\ B \in SUBSET Nat
  <2>1. PICK T \in Bad : TRUE
    OBVIOUS
  <2>2. Cardinality(T) \in Nat
    BY FS_Subset, FS_CardinalityType
  <2> QED BY <2>2
<1> HIDE DEF B
<1>2. PICK n \in B : \A m \in B : n <= m
  BY <1>1, LeastNat
<1>3. PICK T \in Bad : Cardinality(T) = n
  BY <1>2 DEF B
<1>4. IsFiniteSet(T)
  BY FS_Subset
<1>5. PICK z \in T : TRUE
  OBVIOUS
<1>6. /\ Cardinality(T \ {z}) = n - 1 /\ Cardinality(T \ {z}) \in Nat
      /\ T \ {z} \in SUBSET S
  BY <1>3, <1>4, FS_RemoveElement, FS_CardinalityType
<1>7. T \ {z} \notin Bad
  <2> SUFFICES ASSUME T \ {z} \in Bad PROVE FALSE
    OBVIOUS
  <2>1. n - 1 \in B
    BY <1>6 DEF B
  <2> QED BY <2>1, <1>2, <1>1, SMT
<1>8. CASE T \ {z} = {}
  BY <1>8, <1>5, SMT
<1>9. CASE T \ {z} # {}
  <2>1. PICK x \in T \ {z} : \A y \in T \ {z} : y <= x
    BY <1>7, <1>6, <1>9
  <2>2. x \in Nat /\ z \in Nat /\ \A y \in T : y \in Nat
    OBVIOUS
  <2>3. CASE x <= z
    BY <2>1, <2>2, <2>3, SMT
  <2>4. CASE z <= x
    BY <2>1, <2>2, <2>4
  <2> QED BY <2>2, <2>3, <2>4, SMT
<1> QED BY <1>8, <1>9

\* Max of a nonempty finite set of numbers is its greatest member.
LEMMA MaxOf ==
    ASSUME NEW S \in SUBSET Nat, S # {}, IsFiniteSet(S)
    PROVE  Max(S) \in S /\ \A y \in S : y <= Max(S)
<1>1. \E x \in S : \A y \in S : x >= y
  BY GreatestNat
<1> QED BY <1>1 DEF Max

\* Min of a nonempty set of numbers is its least member.
LEMMA MinOf ==
    ASSUME NEW S \in SUBSET Nat, S # {}
    PROVE  Min(S) \in S /\ \A y \in S : Min(S) <= y
<1>1. \E x \in S : \A y \in S : x =< y
  BY LeastNat
<1> QED BY <1>1 DEF Min

-----------------------------------------------------------------------------
\* Sequence numbers are bounded, so every nonempty set of them has a greatest
\* one.
LEMMA SeqBounds ==
    ASSUME NEW S \in SUBSET (0 .. MaxSeq), S # {}
    PROVE  Max(S) \in S /\ \A y \in S : y <= Max(S)
<1>1. IsFiniteSet(0 .. MaxSeq)
  BY EngineBounds, FS_Interval, SMT
<1>2. IsFiniteSet(S)
  BY <1>1, FS_Subset
<1>3. S \in SUBSET Nat
  BY EngineBounds, SMT
<1> QED BY <1>2, <1>3, MaxOf

\* The keys are finitely many numbers: a nonempty set of them has both ends, the
\* smallest and largest of a table.
LEMMA KeyBounds ==
    ASSUME NEW S \in SUBSET Keys, S # {}
    PROVE  /\ Max(S) \in S /\ \A y \in S : y <= Max(S)
           /\ Min(S) \in S /\ \A y \in S : Min(S) <= y
<1>1. IsFiniteSet(S)
  BY KeysAssumption, FS_Subset
<1>2. S \in SUBSET Nat
  BY KeysAssumption
<1> QED BY <1>1, <1>2, MaxOf, MinOf

\* What an entry is made of.
LEMMA EntryFields ==
    ASSUME NEW e \in Entry
    PROVE  /\ e.seq \in 1 .. MaxSeq /\ e.seq \in Nat /\ e.seq # 0 /\ e.key \in Keys /\ e.key \in Nat
           /\ e = Write_(e.seq, e.key)
<1>1. e.seq \in 1 .. MaxSeq /\ e.key \in Keys
  BY DEF Entry
<1>2. e = Write_(e.seq, e.key)
  BY DEF Entry, Write_
<1>3. e.seq \in Nat /\ e.seq # 0
  BY <1>1, EngineBounds, SMT
<1>4. e.key \in Nat
  BY <1>1, KeysAssumption
<1> QED BY <1>1, <1>2, <1>3, <1>4

\* What NewestSeq finds.
LEMMA NewestFacts ==
    ASSUME NEW E \in SUBSET Entry, NEW k, NEW s \in Nat
    PROVE  /\ NewestSeq(E, k, s) \in 0 .. MaxSeq
           /\ NewestSeq(E, k, s) <= s
           /\ NewestSeq(E, k, s) # 0 => Write_(NewestSeq(E, k, s), k) \in E
           /\ \A e \in E : e.key = k /\ e.seq <= s => e.seq <= NewestSeq(E, k, s)
<1> DEFINE V == {e.seq : e \in {x \in E : x.key = k /\ x.seq <= s}}
           S == {0} \cup V
<1>1. S \in SUBSET (0 .. MaxSeq) /\ S # {}
  BY EngineBounds, SMT DEF Entry
<1>2. NewestSeq(E, k, s) = Max(S)
  BY DEF NewestSeq
<1>3. Max(S) \in S /\ \A y \in S : y <= Max(S)
  BY <1>1, SeqBounds
<1>4. Max(S) \in 0 .. MaxSeq /\ Max(S) <= s
  BY <1>1, <1>3, EngineBounds, SMT
<1>5. ASSUME Max(S) # 0 PROVE Write_(Max(S), k) \in E
  <2>1. PICK e \in E : e.key = k /\ e.seq = Max(S)
    BY <1>3, <1>5
  <2> QED BY <2>1, EntryFields
<1>6. \A e \in E : e.key = k /\ e.seq <= s => e.seq <= Max(S)
  BY <1>3
<1> QED BY <1>2, <1>4, <1>5, <1>6

\* An entry of the key up to the bound with nothing newer beside it is what
\* NewestSeq finds.
LEMMA NewestIs ==
    ASSUME NEW E \in SUBSET Entry, NEW k, NEW s \in Nat, NEW n \in Nat,
           Write_(n, k) \in E, n <= s, \A e \in E : e.key = k /\ e.seq <= s => e.seq <= n
    PROVE  NewestSeq(E, k, s) = n
<1>1. Write_(n, k).seq = n /\ Write_(n, k).key = k
  BY DEF Write_
<1>2. n <= NewestSeq(E, k, s) /\ n # 0
  BY <1>1, NewestFacts, EntryFields, SMT
<1>3. NewestSeq(E, k, s) \in Nat /\ NewestSeq(E, k, s) # 0
  BY <1>2, NewestFacts, EngineBounds, SMT
<1>4. Write_(NewestSeq(E, k, s), k) \in E /\ NewestSeq(E, k, s) <= s
  BY <1>3, NewestFacts
<1>5. NewestSeq(E, k, s) <= n
  BY <1>4 DEF Write_
<1> QED BY <1>2, <1>3, <1>5, SMT

\* NewestSeq answers 0 exactly when the key has no entry up to the bound.
LEMMA NewestNone ==
    ASSUME NEW E \in SUBSET Entry, NEW k, NEW s \in Nat
    PROVE  NewestSeq(E, k, s) = 0 <=> \A e \in E : e.key = k => e.seq > s
<1>1. ASSUME NewestSeq(E, k, s) # 0 PROVE \E e \in E : e.key = k /\ e.seq <= s
  <2>1. Write_(NewestSeq(E, k, s), k) \in E /\ NewestSeq(E, k, s) <= s
    BY <1>1, NewestFacts
  <2> QED BY <2>1 DEF Write_
<1>2. ASSUME NEW e \in E, e.key = k, ~(e.seq > s), NewestSeq(E, k, s) = 0 PROVE FALSE
  BY <1>2, NewestFacts, EntryFields, SMT
<1>3. \A e \in E : e.seq \in Nat
  BY EntryFields
<1> QED BY <1>1, <1>2, <1>3, SMT

\* Merged keeps the newest entry of every key.
LEMMA MergedFacts ==
    ASSUME NEW E \in SUBSET Entry
    PROVE  /\ Merged(E) \subseteq E
           /\ \A e \in E : \E x \in Merged(E) : x.key = e.key /\ x.seq >= e.seq
<1>1. Merged(E) \subseteq E
  BY DEF Merged
<1>2. ASSUME NEW e \in E PROVE \E x \in Merged(E) : x.key = e.key /\ x.seq >= e.seq
  <2> DEFINE n == NewestSeq(E, e.key, MaxSeq)
  <2>1. e.seq \in Nat /\ e.seq <= MaxSeq /\ e.seq # 0
    BY EntryFields, EngineBounds, SMT
  <2>2. e.seq <= n /\ n \in Nat /\ n # 0
    BY <2>1, NewestFacts, EngineBounds, SMT
  <2>3. Write_(n, e.key) \in E
    BY <2>2, NewestFacts, EngineBounds
  <2>4. \A x \in E : x.key = e.key => x.seq <= n
    BY NewestFacts, EntryFields, EngineBounds, SMT
  <2>5. Write_(n, e.key) \in Merged(E)
    BY <2>3, <2>4 DEF Merged, Write_
  <2> QED BY <2>2, <2>5 DEF Write_
<1> QED BY <1>1, <1>2

\* The metadata of a table: its number and the range of its keys.
LEMMA MetaFacts ==
    ASSUME NEW n \in Files, NEW E \in SUBSET Entry, E # {}
    PROVE  /\ Meta(n, E) \in FileMetaData /\ Meta(n, E).number = n
           /\ \A e \in E : Meta(n, E).lo <= e.key /\ e.key <= Meta(n, E).hi
           /\ \E e \in E : e.key = Meta(n, E).lo
           /\ \E e \in E : e.key = Meta(n, E).hi
<1> DEFINE S == {e.key : e \in E}
<1>1. S \in SUBSET Keys /\ S # {}
  BY EntryFields, SMT
<1>2. /\ Max(S) \in S /\ \A y \in S : y <= Max(S)
      /\ Min(S) \in S /\ \A y \in S : Min(S) <= y
  BY <1>1, KeyBounds
<1> HIDE DEF S
<1>3. Meta(n, E) = [number |-> n, lo |-> Min(S), hi |-> Max(S)]
  BY DEF Meta, S
<1>4. Meta(n, E) \in FileMetaData
  BY <1>1, <1>2, <1>3, SMT DEF FileMetaData
<1>5. \A e \in E : e.key \in S
  BY DEF S
<1>6. \A y \in S : \E e \in E : e.key = y
  BY DEF S
<1> QED BY <1>2, <1>3, <1>4, <1>5, <1>6, SMT

\* The interval from 1 to n has n members.
LEMMA Count ==
    ASSUME NEW n \in Nat
    PROVE  Cardinality(1 .. n) = n
<1>1. Cardinality(1 .. n) = IF 1 > n THEN 0 ELSE n - 1 + 1
  BY FS_Interval, SMT
<1> QED BY <1>1, SMT

\* Kept with nothing and with everything deleted.
LEMMA KeptNone ==
    ASSUME NEW s \in Seq(FileMetaData)
    PROVE  Kept(s, {}) = s
<1> DEFINE K == {i \in 1 .. Len(s) : s[i].number \notin {}}
<1>1. K = 1 .. Len(s) /\ Len(s) \in Nat
  BY SMT
<1>2. Cardinality(K) = Len(s)
  BY <1>1, Count
<1>3. \A i \in 1 .. Len(s) : Cardinality({j \in K : j <= i}) = i
  <2> TAKE i \in 1 .. Len(s)
  <2>1. {j \in K : j <= i} = 1 .. i
    BY <1>1, SMT
  <2>2. i \in Nat
    BY SMT
  <2> QED BY <2>1, <2>2, Count
<1>4. \A n \in 1 .. Len(s) : (CHOOSE i \in K : Cardinality({j \in K : j <= i}) = n) = n
  BY <1>1, <1>3
<1>5. Kept(s, {}) = [n \in 1 .. Cardinality(K) |-> s[CHOOSE i \in K : Cardinality({j \in K : j <= i}) = n]]
  BY DEF Kept
<1> HIDE DEF K
<1>6. Kept(s, {}) = [n \in 1 .. Len(s) |-> s[n]]
  BY <1>2, <1>4, <1>5
<1> QED BY <1>6, SMT

\* Removing every file of a level leaves the empty sequence.
LEMMA KeptAll ==
    ASSUME NEW s \in Seq(FileMetaData), NEW del, \A i \in 1 .. Len(s) : s[i].number \in del
    PROVE  Kept(s, del) = <<>>
<1> DEFINE K == {i \in 1 .. Len(s) : s[i].number \notin del}
<1>1. K = {}
  OBVIOUS
<1>2. Cardinality(K) = 0
  BY <1>1, FS_EmptySet
<1>3. Kept(s, del) = [n \in 1 .. Cardinality(K) |-> s[CHOOSE i \in K : Cardinality({j \in K : j <= i}) = n]]
  BY DEF Kept
<1> HIDE DEF K
<1>4. Kept(s, del) = [n \in 1 .. 0 |-> s[CHOOSE i \in K : Cardinality({j \in K : j <= i}) = n]]
  BY <1>2, <1>3
<1>5. Kept(s, del) \in Seq(FileMetaData) /\ Len(Kept(s, del)) = 0
  BY <1>4, SMT
<1> QED BY <1>5, SMT

-----------------------------------------------------------------------------
\* Types of the parts.

\* What a version is made of: its three counters and two levels.
LEMMA VersionFields ==
    ASSUME NEW v \in VersionType
    PROVE  /\ v.next \in Nat /\ v.next >= 2 /\ v.next <= MaxFile + 1
           /\ v.seq \in 0 .. MaxSeq /\ v.seq \in Nat /\ v.log \in 0 .. MaxFile /\ v.log \in Nat
           /\ v.l0 \in Seq(FileMetaData) /\ v.l1 \in SUBSET FileMetaData
BY EngineBounds, SMT DEF VersionType

\* What the metadata of a file is made of.
LEMMA FileFields ==
    ASSUME NEW f \in FileMetaData
    PROVE  f.number \in Files /\ f.lo \in Keys /\ f.hi \in Keys /\ f.lo \in Nat /\ f.hi \in Nat
<1>1. f.number \in Files /\ f.lo \in Keys /\ f.hi \in Keys
  BY DEF FileMetaData
<1> QED BY <1>1, KeysAssumption

\* What a log file is made of.
LEMMA LogFields ==
    ASSUME NEW l \in LogFile
    PROVE  l.recs \in Seq(Entry) /\ l.flushed \in Nat /\ l.torn \in BOOLEAN /\ Len(l.recs) \in Nat
BY SMT DEF LogFile

\* A log cut after n records has exactly its first n records, all of them out of
\* the buffer.
LEMMA PrefixFacts ==
    ASSUME NEW l \in LogFile, NEW n \in Nat, n <= Len(l.recs)
    PROVE  /\ Prefix(l, n) \in LogFile
           /\ Prefix(l, n).flushed = n /\ Len(Prefix(l, n).recs) = n
           /\ \A i \in 1 .. n : Prefix(l, n).recs[i] = l.recs[i]
           /\ Range(Prefix(l, n).recs) \subseteq Range(l.recs)
           /\ Prefix(l, n).torn = l.torn
<1>1. l.recs \in Seq(Entry) /\ Len(l.recs) \in Nat /\ l.torn \in BOOLEAN
  BY LogFields
<1>2. \A i \in 1 .. n : l.recs[i] \in Entry
  BY <1>1, SMT
<1>3. /\ SubSeq(l.recs, 1, n) \in Seq(Entry) /\ Len(SubSeq(l.recs, 1, n)) = n
      /\ \A i \in 1 .. n : SubSeq(l.recs, 1, n)[i] = l.recs[i]
  BY <1>1, <1>2, SMT
<1>4. Prefix(l, n).recs = SubSeq(l.recs, 1, n) /\ Prefix(l, n).flushed = n /\ Prefix(l, n).torn = l.torn
  BY DEF Prefix
<1>5. Prefix(l, n) \in LogFile
  BY <1>1, <1>3 DEF Prefix, LogFile
<1>6. Range(SubSeq(l.recs, 1, n)) \subseteq Range(l.recs)
  BY <1>1, <1>3, SMT DEF Range
<1> QED BY <1>3, <1>4, <1>5, <1>6

\* What closing a log leaves is a prefix of it.
LEMMA ClosedFacts ==
    ASSUME NEW l \in LogFile, l.flushed <= Len(l.recs), NEW c \in Closed(l)
    PROVE  \E n \in Nat : n <= Len(l.recs) /\ c = Prefix(l, n)
<1>1. Len(l.recs) \in Nat /\ l.flushed \in Nat
  BY LogFields
<1>2. PICK n \in (IF db.wal THEN Len(l.recs) ELSE l.flushed) .. Len(l.recs) : c = Prefix(l, n)
  BY DEF Closed
<1>3. n \in Nat /\ n <= Len(l.recs)
  BY <1>1, <1>2, SMT
<1> QED BY <1>2, <1>3

\* The records of a log are entries.
LEMMA RangeOfRecs ==
    ASSUME NEW q \in Seq(Entry)
    PROVE  Range(q) \subseteq Entry
BY SMT DEF Range

-----------------------------------------------------------------------------
\* Edits.

\* The empty edit sets no counter and touches no file.
LEMMA NoEditFields ==
    /\ NoEdit.next = 0 /\ NoEdit.seq = 0 /\ NoEdit.log = 0 /\ NoEdit.del0 = {} /\ NoEdit.del1 = {}
    /\ NoEdit.add0 = <<>> /\ NoEdit.add1 = {}
BY DEF NoEdit

\* An edit without files leaves the files alone.
LEMMA CounterEdit ==
    ASSUME NEW v \in VersionType, NEW edit,
           edit.del0 = {}, edit.del1 = {}, edit.add0 = <<>>, edit.add1 = {}
    PROVE  ApplyFiles(v, edit) = v
<1>1. v.l0 \in Seq(FileMetaData) /\ v.l1 \in SUBSET FileMetaData
  BY VersionFields
<1>2. Kept(v.l0, {}) \o <<>> = v.l0
  BY <1>1, KeptNone, SMT
<1>3. {f \in v.l1 : f.number \notin {}} \cup {} = v.l1
  OBVIOUS
<1>4. ApplyFiles(v, edit) = [v EXCEPT !.l0 = v.l0, !.l1 = v.l1]
  BY <1>2, <1>3 DEF ApplyFiles
<1> QED BY <1>4 DEF VersionType

\* The writers inside Write.
Busy(W) == {w \in Writers : W[w].pc # "idle"}

\* There are finitely many writers, so those inside a call can be counted.
LEMMA BusyFacts ==
    ASSUME NEW W
    PROVE  IsFiniteSet(Busy(W)) /\ Cardinality(Busy(W)) \in Nat /\ InFlight = Busy(wr)
<1>1. Busy(W) \in SUBSET Writers
  BY DEF Busy
<1>2. IsFiniteSet(Busy(W))
  BY <1>1, EngineBounds, FS_Subset
<1> QED BY <1>2, FS_CardinalityType DEF Busy, InFlight

\* Waking the writers on the condition variable moves nobody into or out of a
\* call, nor to the append.
LEMMA WokenFacts ==
    ASSUME NEW W \in [Writers -> WriterType]
    PROVE  /\ Woken(W) \in [Writers -> WriterType] /\ Busy(Woken(W)) = Busy(W)
           /\ \A w \in Writers : Woken(W)[w].key = W[w].key /\ (W[w].pc = "idle" <=> Woken(W)[w].pc = "idle")
           /\ \A w \in Writers : W[w].pc = "write" <=> Woken(W)[w].pc = "write"
<1>1. ASSUME NEW w \in Writers
      PROVE  /\ Woken(W)[w] \in WriterType /\ Woken(W)[w].key = W[w].key
             /\ W[w].pc = "idle" <=> Woken(W)[w].pc = "idle"
             /\ W[w].pc = "write" <=> Woken(W)[w].pc = "write"
  BY DEF Woken, WriterType
<1>2. Woken(W) = [w \in Writers |-> Woken(W)[w]]
  BY DEF Woken
<1> QED BY <1>1, <1>2 DEF Busy

-----------------------------------------------------------------------------
\* BaseInv, action by action.

\* Before the first Open, the base of the invariant holds.
LEMMA InitBase == Init => BaseInv
<1> SUFFICES ASSUME Init PROVE BaseInv
  OBVIOUS
<1>1. TypeOK
  <2>1. EmptyLog \in LogFile /\ EmptyLog.flushed <= Len(EmptyLog.recs)
    BY SMT DEF EmptyLog, LogFile
  <2>2. NoFile \in TableFile /\ NoDB \in DBType /\ NoJob \in JobType
    BY EngineBounds, SMT DEF NoFile, TableFile, NoDB, DBType, NoJob, JobType
  <2>3. manifest \in VersionType
    BY EngineBounds, SMT DEF Init, VersionType
  <2>4. IdleWriter \in WriterType /\ IdleReader \in ReaderType
    BY EngineBounds, SMT DEF IdleWriter, IdleReader, WriterType, ReaderType
  <2>5. synced \in [Keys -> 0 .. MaxSeq] /\ mine \in [Keys -> 0 .. MaxSeq]
    BY EngineBounds, SMT DEF Init
  <2>6. log \in [Files -> LogFile] /\ \A n \in Files : log[n].flushed <= Len(log[n].recs)
    BY <2>1 DEF Init
  <2> QED BY <2>2, <2>3, <2>4, <2>5, <2>6 DEF Init, TypeOK
<1>2. ControlInv
  <2>1. InFlight = {}
    BY DEF Init, InFlight, IdleWriter
  <2>2. Cardinality(InFlight) = 0
    BY <2>1, FS_EmptySet
  <2>3. versions.seq + Cardinality(InFlight) <= MaxSeq
    BY <2>2, EngineBounds, SMT DEF Init
  <2> QED BY <2>1, <2>3 DEF Init, ControlInv, NoJob, NoDB
<1>3. NumberInv
  <2>1. \A r \in Readers : rd[r].mem = 0 /\ rd[r].imm = 0
    BY DEF Init, IdleReader
  <2> QED BY <2>1, SMT DEF Init, NumberInv, NoJob, NoDB
<1> QED BY <1>1, <1>2, <1>3 DEF BaseInv

\* The bounds on counters and file numbers that the provers ask for again and
\* again.
LEMMA BaseFields ==
    ASSUME BaseInv
    PROVE  /\ versions \in VersionType /\ manifest \in VersionType /\ job \in JobType /\ db \in DBType
           /\ versions.next \in Nat /\ versions.next >= 2 /\ versions.next <= MaxFile + 1
           /\ versions.seq \in Nat /\ versions.seq <= MaxSeq
           /\ db.mem \in Nat /\ db.imm \in Nat /\ job.number \in Nat /\ MaxFile \in Nat /\ MaxSeq \in Nat
           /\ db.mem <= MaxFile /\ db.imm <= MaxFile /\ job.number <= MaxFile
           /\ closer # "down" => db.mem \in Files
           /\ db.imm # 0 => db.imm \in Files
           /\ job.seq \in Nat /\ job.seq <= MaxSeq
           /\ Cardinality(InFlight) \in Nat
<1>1. versions \in VersionType /\ manifest \in VersionType /\ job \in JobType /\ db \in DBType
  BY DEF BaseInv, TypeOK
<1>2. db.mem \in 0 .. MaxFile /\ db.imm \in 0 .. MaxFile
  BY <1>1 DEF DBType
<1>3. job.number \in 0 .. MaxFile /\ job.seq \in 0 .. MaxSeq
  BY <1>1 DEF JobType
<1>4. versions.next \in 2 .. MaxFile + 1 /\ versions.seq \in 0 .. MaxSeq
  BY <1>1 DEF VersionType
<1>5. closer # "down" => db.mem # 0
  BY DEF BaseInv, ControlInv
<1>6. Cardinality(InFlight) \in Nat
  BY BusyFacts
<1> QED BY <1>1, <1>2, <1>3, <1>4, <1>5, <1>6, EngineBounds, SMT DEF Files

\* The fields of the thread with no job.
LEMMA NoJobFields ==
    /\ NoJob.pc = "none" /\ NoJob.what = "flush" /\ NoJob.ok = TRUE /\ NoJob.table = 0 /\ NoJob.number = 0
    /\ NoJob.seq = 0 /\ NoJob.in0 = <<>> /\ NoJob.in1 = {} /\ NoJob.data = {} /\ NoJob \in JobType
BY EngineBounds, SMT DEF NoJob, JobType

\* A job that was just given out has no table, no number and no sequence number
\* yet.
LEMMA NewJob ==
    ASSUME NEW what \in {"flush", "compaction"}, NEW pc \in {"take", "pick"},
           NEW j, j = [NoJob EXCEPT !.what = what, !.pc = pc] \/ (what = "flush" /\ j = [NoJob EXCEPT !.pc = pc])
    PROVE  j \in JobType /\ j.pc = pc /\ j.number = 0 /\ j.table = 0 /\ j.seq = 0
BY NoJobFields DEF JobType, NoJob

\* A log that was closed has nothing left in its buffer.
LEMMA ClosedLog ==
    ASSUME TypeOK, NEW m \in Files, NEW c \in Closed(log[m])
    PROVE  c \in LogFile /\ c.flushed <= Len(c.recs) /\ c.flushed = Len(c.recs)
<1>1. log[m] \in LogFile /\ log[m].flushed <= Len(log[m].recs)
  BY DEF TypeOK
<1>2. PICK n \in Nat : n <= Len(log[m].recs) /\ c = Prefix(log[m], n)
  BY <1>1, ClosedFacts
<1> QED BY <1>1, <1>2, PrefixFacts, SMT

\* What is left of a log when the process dies.
LEMMA CrashedLog ==
    ASSUME NEW l \in LogFile, l.flushed <= Len(l.recs), NEW n \in l.flushed .. Len(l.recs), NEW t \in BOOLEAN
    PROVE  LET c == [Prefix(l, n) EXCEPT !.torn = @ \/ t]
           IN  /\ c \in LogFile /\ c.flushed = n /\ Len(c.recs) = n /\ c.flushed <= Len(c.recs)
               /\ c.recs = Prefix(l, n).recs
               /\ \A i \in 1 .. n : c.recs[i] = l.recs[i]
               /\ Range(c.recs) \subseteq Range(l.recs)
<1>1. l.flushed \in Nat /\ Len(l.recs) \in Nat /\ n \in Nat /\ n <= Len(l.recs)
  BY LogFields, SMT
<1> DEFINE p == Prefix(l, n)
<1>2. /\ p \in LogFile /\ p.flushed = n /\ Len(p.recs) = n /\ Range(p.recs) \subseteq Range(l.recs)
      /\ \A i \in 1 .. n : p.recs[i] = l.recs[i]
  BY <1>1, PrefixFacts
<1> HIDE DEF p
<1> DEFINE c == [p EXCEPT !.torn = @ \/ t]
<1>3. c \in LogFile /\ c.flushed = p.flushed /\ c.recs = p.recs
  BY <1>2 DEF LogFile
<1> HIDE DEF c
<1>4. /\ c \in LogFile /\ c.flushed = n /\ Len(c.recs) = n /\ c.flushed <= Len(c.recs)
      /\ \A i \in 1 .. n : c.recs[i] = l.recs[i]
      /\ Range(c.recs) \subseteq Range(l.recs) /\ c.recs = p.recs
  BY <1>1, <1>2, <1>3, SMT
<1> QED BY <1>4 DEF c, p

-----------------------------------------------------------------------------
\* LogAndApply leaves the version set and the MANIFEST with the same levels when
\* it started from the same ones, and the counters of the edit.
LEMMA Applied ==
    ASSUME NEW v, manifest \in VersionType, NEW edit, LogAndApply(v, edit), NEW a, NEW b,
           a = ApplyFiles(v, edit), b = ApplyFiles(manifest, edit), a \in VersionType, b \in VersionType,
           edit.next \in {0} \cup 2 .. MaxFile + 1, edit.seq \in 0 .. MaxSeq, edit.log \in 0 .. MaxFile
    PROVE  /\ versions' \in VersionType /\ manifest' \in VersionType
           /\ versions'.l0 = a.l0 /\ versions'.l1 = a.l1 /\ manifest'.l0 = b.l0 /\ manifest'.l1 = b.l1
           /\ versions'.next = Larger(a.next, edit.next) /\ versions'.seq = Larger(a.seq, edit.seq)
           /\ manifest'.next = (IF edit.next # 0 THEN edit.next ELSE b.next)
           /\ manifest'.seq = (IF edit.seq # 0 THEN edit.seq ELSE b.seq)
           /\ manifest'.log = (IF edit.log # 0 THEN edit.log ELSE b.log)
           /\ versions'.log = (IF edit.log # 0 THEN edit.log ELSE a.log)
<1>1. versions' = [a EXCEPT !.next = Larger(a.next, edit.next), !.seq = Larger(a.seq, edit.seq),
                            !.log = IF edit.log # 0 THEN edit.log ELSE a.log]
  BY DEF LogAndApply
<1>2. manifest' = [b EXCEPT !.next = IF edit.next # 0 THEN edit.next ELSE b.next,
                            !.seq = IF edit.seq # 0 THEN edit.seq ELSE b.seq,
                            !.log = IF edit.log # 0 THEN edit.log ELSE b.log]
  BY DEF LogAndApply
<1>3. /\ a.next \in 2 .. MaxFile + 1 /\ a.seq \in 0 .. MaxSeq /\ a.log \in 0 .. MaxFile
      /\ b.next \in 2 .. MaxFile + 1 /\ b.seq \in 0 .. MaxSeq /\ b.log \in 0 .. MaxFile
  BY DEF VersionType
<1>4. Larger(a.next, edit.next) \in 2 .. MaxFile + 1 /\ Larger(a.seq, edit.seq) \in 0 .. MaxSeq
  BY <1>3, EngineBounds, SMT DEF Larger
<1>5. /\ (IF edit.next # 0 THEN edit.next ELSE b.next) \in 2 .. MaxFile + 1
      /\ (IF edit.seq # 0 THEN edit.seq ELSE b.seq) \in 0 .. MaxSeq
      /\ (IF edit.log # 0 THEN edit.log ELSE b.log) \in 0 .. MaxFile
      /\ (IF edit.log # 0 THEN edit.log ELSE a.log) \in 0 .. MaxFile
  BY <1>3
<1>6. versions' \in VersionType
  BY <1>1, <1>4, <1>5 DEF VersionType
<1>7. manifest' \in VersionType
  BY <1>2, <1>5 DEF VersionType
<1>8. /\ versions'.l0 = a.l0 /\ versions'.l1 = a.l1 /\ versions'.next = Larger(a.next, edit.next)
      /\ versions'.seq = Larger(a.seq, edit.seq) /\ versions'.log = (IF edit.log # 0 THEN edit.log ELSE a.log)
  BY <1>1 DEF VersionType
<1>9. /\ manifest'.l0 = b.l0 /\ manifest'.l1 = b.l1
      /\ manifest'.next = (IF edit.next # 0 THEN edit.next ELSE b.next)
      /\ manifest'.seq = (IF edit.seq # 0 THEN edit.seq ELSE b.seq)
      /\ manifest'.log = (IF edit.log # 0 THEN edit.log ELSE b.log)
  BY <1>2 DEF VersionType
<1> QED BY <1>6, <1>7, <1>8, <1>9

\* What Open makes of the MANIFEST and its log.
OldLog == IF manifest.log = 0 THEN EmptyLog ELSE log[manifest.log]

\* What Open does to the counters, the files and the memtable.
LEMMA OpenFacts ==
    ASSUME BaseInv, Open
    PROVE  LET n == manifest.next
               E == Range(OldLog.recs)
           IN  /\ n \in Nat /\ n >= 2 /\ n < MaxFile /\ n \in Files /\ closer = "down" /\ closer' = "none"
               /\ E \in SUBSET Entry /\ E = LogData /\ ~OldLog.torn
               /\ versions' \in VersionType /\ manifest' \in VersionType
               /\ versions'.next = n + 2 /\ manifest'.next = n + 1 /\ versions'.log = n /\ manifest'.log = n
               /\ versions'.l0 = manifest.l0 /\ versions'.l1 = manifest.l1
               /\ manifest'.l0 = manifest.l0 /\ manifest'.l1 = manifest.l1
               /\ manifest'.seq = manifest.seq /\ versions'.seq \in {manifest.seq} \cup Seqs(E)
               /\ \A s \in {manifest.seq} \cup Seqs(E) : s <= versions'.seq
               /\ tables' = [tables EXCEPT ![n] = E]
               /\ db' = [NoDB EXCEPT !.mem = n, !.wal = TRUE]
               /\ hist' = E \cup UNION {sst[f.number].data : f \in Range(manifest.l0) \cup manifest.l1}
               /\ reused' = (reused \/ log[n].recs # <<>>)
<1> DEFINE n == manifest.next
           E == Range(OldLog.recs)
           S == {manifest.seq} \cup Seqs(E)
           v == [manifest EXCEPT !.next = n + 2, !.seq = Max(S)]
           edit == [NoEdit EXCEPT !.log = n, !.next = n + 1]
<1>1. /\ closer = "down" /\ closer' = "none" /\ n < MaxFile /\ ~OldLog.torn
      /\ LogAndApply(v, edit)
      /\ tables' = [tables EXCEPT ![n] = E]
      /\ db' = [NoDB EXCEPT !.mem = n, !.wal = TRUE]
      /\ hist' = E \cup UNION {sst[f.number].data : f \in Range(manifest.l0) \cup manifest.l1}
      /\ reused' = (reused \/ log[n].recs # <<>>)
  BY DEF Open, OldLog
<1>2. manifest \in VersionType /\ TypeOK
  BY DEF BaseInv, TypeOK
<1>3. n \in Nat /\ n >= 2 /\ n \in Files /\ manifest.seq \in 0 .. MaxSeq /\ manifest.log \in 0 .. MaxFile
  BY <1>1, <1>2, VersionFields, EngineBounds, SMT DEF Files
<1>4. OldLog.recs \in Seq(Entry) /\ E = LogData
  <2>1. CASE manifest.log = 0
    BY <2>1, SMT DEF OldLog, LogData, EmptyLog, Range
  <2>2. CASE manifest.log # 0
    <3>1. manifest.log \in Files
      BY <1>3, <2>2, EngineBounds, SMT DEF Files
    <3>2. log[manifest.log] \in LogFile
      BY <3>1, <1>2 DEF TypeOK
    <3> QED BY <3>2, <2>2, LogFields DEF OldLog, LogData
  <2> QED BY <2>1, <2>2
<1>5. E \in SUBSET Entry
  BY <1>4, RangeOfRecs
<1> HIDE DEF E
<1>6. S \in SUBSET (0 .. MaxSeq) /\ S # {}
  <2>1. \A e \in E : e.seq \in 0 .. MaxSeq
    BY <1>5, EntryFields, EngineBounds, SMT
  <2> QED BY <2>1, <1>3 DEF Seqs
<1>7. Max(S) \in S /\ \A s \in S : s <= Max(S)
  BY <1>6, SeqBounds
<1>8. v \in VersionType /\ v.next = n + 2 /\ v.seq = Max(S) /\ v.l0 = manifest.l0 /\ v.l1 = manifest.l1
  <2>1. n + 2 \in 2 .. MaxFile + 1
    BY <1>1, <1>3, EngineBounds, SMT
  <2>2. Max(S) \in 0 .. MaxSeq
    BY <1>6, <1>7
  <2> DEFINE m == n + 2
             q == Max(S)
  <2>3. v = [manifest EXCEPT !.next = m, !.seq = q]
    OBVIOUS
  <2>4. m \in 2 .. MaxFile + 1 /\ q \in 0 .. MaxSeq
    BY <2>1, <2>2
  <2> HIDE DEF v, S, m, q
  <2>5. v \in VersionType /\ v.next = m /\ v.seq = q /\ v.l0 = manifest.l0 /\ v.l1 = manifest.l1
    BY <2>3, <2>4, <1>2 DEF VersionType
  <2> QED BY <2>5 DEF m, q
<1>9. /\ edit.next = n + 1 /\ edit.log = n /\ edit.seq = 0 /\ edit.del0 = {} /\ edit.del1 = {}
      /\ edit.add0 = <<>> /\ edit.add1 = {}
  BY DEF NoEdit
<1> HIDE DEF edit, v, S
<1>10. ApplyFiles(v, edit) = v /\ ApplyFiles(manifest, edit) = manifest
  BY <1>2, <1>8, <1>9, CounterEdit
<1>11. edit.next \in {0} \cup 2 .. MaxFile + 1 /\ edit.seq \in 0 .. MaxSeq /\ edit.log \in 0 .. MaxFile
  BY <1>9, <1>1, <1>3, EngineBounds, SMT
<1>12. /\ versions' \in VersionType /\ manifest' \in VersionType
       /\ versions'.l0 = v.l0 /\ versions'.l1 = v.l1 /\ manifest'.l0 = manifest.l0 /\ manifest'.l1 = manifest.l1
       /\ versions'.next = Larger(v.next, edit.next) /\ versions'.seq = Larger(v.seq, edit.seq)
       /\ manifest'.next = (IF edit.next # 0 THEN edit.next ELSE manifest.next)
       /\ manifest'.seq = (IF edit.seq # 0 THEN edit.seq ELSE manifest.seq)
       /\ manifest'.log = (IF edit.log # 0 THEN edit.log ELSE manifest.log)
       /\ versions'.log = (IF edit.log # 0 THEN edit.log ELSE v.log)
  BY <1>1, <1>2, <1>8, <1>10, <1>11, Applied, SMT
<1>13. versions'.next = n + 2 /\ versions'.seq = Max(S)
  <2>1. v.seq \in Nat
    BY <1>8, VersionFields
  <2> QED BY <2>1, <1>3, <1>8, <1>9, <1>12, SMT DEF Larger
<1>14. manifest'.next = n + 1 /\ manifest'.seq = manifest.seq /\ manifest'.log = n /\ versions'.log = n
  BY <1>3, <1>9, <1>12, SMT
<1>15. versions'.seq \in {manifest.seq} \cup Seqs(E) /\ \A s \in {manifest.seq} \cup Seqs(E) : s <= versions'.seq
  BY <1>7, <1>13 DEF S
<1>16. n \in Nat /\ n >= 2 /\ n < MaxFile /\ n \in Files /\ closer = "down" /\ closer' = "none" /\ ~OldLog.torn
  BY <1>1, <1>3
<1>17. versions'.l0 = manifest.l0 /\ versions'.l1 = manifest.l1
  BY <1>8, <1>12
<1> HIDE DEF n
<1>18. E = Range(OldLog.recs) /\ n = manifest.next
  BY DEF E, n
<1> QED BY <1>18, <1>16, <1>4, <1>5, <1>12, <1>13, <1>14, <1>15, <1>17, <1>1

-----------------------------------------------------------------------------
\* What a complete, a partial and a missing table file are.
LEMMA TableFacts ==
    ASSUME NEW E \in SUBSET Entry
    PROVE  /\ Table(E) \in TableFile /\ Table(E).is = "complete" /\ Table(E).data = E
           /\ Partial \in TableFile /\ Partial.is = "partial" /\ Partial.data = {}
           /\ NoFile \in TableFile /\ NoFile.is = "absent" /\ NoFile.data = {}
BY DEF Table, Partial, NoFile, TableFile

\* What the flush does in its first section under the mutex.
LEMMA FlushTakeFacts ==
    ASSUME BaseInv, FlushTake
    PROVE  LET n == versions.next
           IN  /\ n \in Files /\ db.imm # 0 /\ db.imm \in Files
               /\ versions' \in VersionType /\ versions'.next = n + 1 /\ versions'.seq = versions.seq
               /\ versions'.l0 = versions.l0 /\ versions'.l1 = versions.l1 /\ versions'.log = versions.log
               /\ job' \in JobType /\ job'.pc = "build" /\ job'.table = db.imm /\ job'.number = n
               /\ job'.seq = job.seq /\ job'.in0 = job.in0 /\ job'.in1 = job.in1 /\ job'.data = job.data
<1>1. job.pc = "take" /\ versions.next <= MaxFile
  BY DEF FlushTake
<1>2. db.imm # 0 /\ db.imm \in Files /\ versions.next \in Files
  BY <1>1, BaseFields, SMT DEF BaseInv, ControlInv, Files
<1>3. versions' = [versions EXCEPT !.next = versions.next + 1] /\ versions \in VersionType
  BY BaseFields DEF FlushTake
<1>4. versions.next + 1 \in 2 .. MaxFile + 1
  BY <1>1, BaseFields, SMT
<1>5. /\ versions' \in VersionType /\ versions'.next = versions.next + 1 /\ versions'.seq = versions.seq
      /\ versions'.l0 = versions.l0 /\ versions'.l1 = versions.l1 /\ versions'.log = versions.log
  BY <1>3, <1>4 DEF VersionType
<1>6. versions.next \in 0 .. MaxFile /\ db.imm \in 0 .. MaxFile
  BY <1>1, BaseFields, SMT
<1>7. job' = [job EXCEPT !.pc = "build", !.table = db.imm, !.number = versions.next] /\ job \in JobType
  BY BaseFields DEF FlushTake
<1>8. /\ job' \in JobType /\ job'.pc = "build" /\ job'.table = db.imm /\ job'.number = versions.next
      /\ job'.seq = job.seq /\ job'.in0 = job.in0 /\ job'.in1 = job.in1 /\ job'.data = job.data
  BY <1>6, <1>7 DEF JobType
<1> QED BY <1>2, <1>5, <1>8

\* What building the table changes.
LEMMA FlushBuildFacts ==
    ASSUME BaseInv, FlushBuild
    PROVE  /\ job.table = db.imm /\ db.imm \in Files /\ tables[job.table] \in SUBSET Entry /\ tables[job.table] # {}
           /\ job' \in JobType /\ job'.pc = "install" /\ job'.seq = versions.seq /\ job'.number = job.number
           /\ job'.table = job.table /\ job'.in0 = job.in0 /\ job'.in1 = job.in1 /\ job'.data = job.data
<1>1. job.pc = "build" /\ job' = [job EXCEPT !.pc = "install", !.seq = versions.seq]
  BY DEF FlushBuild
<1>2. job.table = db.imm /\ db.imm \in Files
  BY <1>1, BaseFields DEF BaseInv, ControlInv
<1>3. tables[job.table] \in SUBSET Entry /\ tables[job.table] # {}
  BY <1>2, BaseFields, SMT DEF BaseInv, TypeOK, NumberInv, ControlInv, Files
<1>4. versions.seq \in 0 .. MaxSeq /\ job \in JobType
  BY BaseFields, SMT
<1>5. /\ job' \in JobType /\ job'.pc = "install" /\ job'.seq = versions.seq /\ job'.number = job.number
      /\ job'.table = job.table /\ job'.in0 = job.in0 /\ job'.in1 = job.in1 /\ job'.data = job.data
  BY <1>1, <1>4 DEF JobType
<1> QED BY <1>2, <1>3, <1>5

\* Taking the edit of a flush.
LEMMA FlushInstallFacts ==
    ASSUME BaseInv, FlushInstall
    PROVE  LET f == Meta(job.number, tables[job.table])
           IN  /\ job.table = db.imm /\ db.imm \in Files /\ job.number \in Files
               /\ tables[job.table] \in SUBSET Entry /\ tables[job.table] # {} /\ f \in FileMetaData
               /\ versions' \in VersionType /\ manifest' \in VersionType
               /\ versions'.next = versions.next /\ versions'.seq = versions.seq
               /\ versions'.l0 = Append(versions.l0, f) /\ versions'.l1 = versions.l1
               /\ manifest'.l0 = Append(versions.l0, f) /\ manifest'.l1 = versions.l1
               /\ manifest'.seq = (IF job.seq # 0 THEN job.seq ELSE manifest.seq)
               /\ manifest'.log = manifest.log
               /\ job' \in JobType /\ job'.pc = "clear" /\ job'.table = job.table /\ job'.number = job.number
               /\ job'.seq = job.seq /\ job'.in0 = job.in0 /\ job'.in1 = job.in1 /\ job'.data = job.data
\* A flushed table goes to the end of L0.
<1>FlushEdit. ASSUME NEW v \in VersionType, NEW edit, NEW f \in FileMetaData, edit.del0 = {},
             edit.del1 = {}, edit.add0 = <<f>>, edit.add1 = {}, NEW x, x = ApplyFiles(v, edit)
      PROVE  /\ x \in VersionType /\ x.l0 = Append(v.l0, f) /\ x.l1 = v.l1
             /\ x.next = v.next /\ x.seq = v.seq /\ x.log = v.log
  <2> USE <1>FlushEdit
  <2>1. v.l0 \in Seq(FileMetaData) /\ v.l1 \in SUBSET FileMetaData
    BY VersionFields
  <2> DEFINE q == Append(v.l0, f)
  <2>2. Kept(v.l0, {}) \o <<f>> = q /\ q \in Seq(FileMetaData)
    <3>1. q = v.l0 \o <<f>> /\ q \in Seq(FileMetaData)
      BY <2>1, SMT
    <3> QED BY <2>1, <3>1, KeptNone
  <2>3. {g \in v.l1 : g.number \notin {}} \cup {} = v.l1
    OBVIOUS
  <2>4. x = [v EXCEPT !.l0 = q, !.l1 = v.l1]
    BY <2>2, <2>3 DEF ApplyFiles
  <2> HIDE DEF q
  <2>5. /\ x \in VersionType /\ x.l0 = q /\ x.l1 = v.l1
        /\ x.next = v.next /\ x.seq = v.seq /\ x.log = v.log
    BY <2>1, <2>2, <2>4 DEF VersionType
  <2> QED BY <2>5 DEF q

\* All steps together.
<1> DEFINE f == Meta(job.number, tables[job.table])
           edit == [NoEdit EXCEPT !.seq = job.seq, !.add0 = <<f>>]
<1>1. job.pc = "install" /\ LogAndApply(versions, edit) /\ job' = [job EXCEPT !.pc = "clear"]
  BY DEF FlushInstall
<1>2. job.table = db.imm /\ db.imm \in Files /\ job.number \in Files
  BY <1>1, BaseFields, SMT DEF BaseInv, ControlInv, Files
<1>3. tables[job.table] \in SUBSET Entry /\ tables[job.table] # {}
  BY <1>1, <1>2, BaseFields DEF BaseInv, TypeOK, NumberInv, ControlInv, Files
<1>4. f \in FileMetaData
  BY <1>2, <1>3, MetaFacts
<1> HIDE DEF f
<1>5. /\ edit.next = 0 /\ edit.log = 0 /\ edit.seq = job.seq /\ edit.del0 = {} /\ edit.del1 = {}
      /\ edit.add0 = <<f>> /\ edit.add1 = {}
  BY DEF NoEdit
<1> HIDE DEF edit
<1>6. versions \in VersionType /\ manifest \in VersionType /\ job.seq \in 0 .. MaxSeq /\ job \in JobType
  BY BaseFields, SMT
<1> DEFINE a == ApplyFiles(versions, edit)
           b == ApplyFiles(manifest, edit)
<1>7. a = ApplyFiles(versions, edit) /\ b = ApplyFiles(manifest, edit)
  OBVIOUS
<1> HIDE DEF a, b
<1>8. /\ a \in VersionType /\ a.l0 = Append(versions.l0, f) /\ a.l1 = versions.l1
      /\ a.next = versions.next /\ a.seq = versions.seq
  BY <1>4, <1>5, <1>6, <1>7, <1>FlushEdit, SMT
<1>9. /\ b \in VersionType /\ b.l0 = Append(manifest.l0, f) /\ b.l1 = manifest.l1
      /\ b.log = manifest.log /\ b.seq = manifest.seq
  BY <1>4, <1>5, <1>6, <1>7, <1>FlushEdit, SMT
<1>10. edit.next \in {0} \cup 2 .. MaxFile + 1 /\ edit.seq \in 0 .. MaxSeq /\ edit.log \in 0 .. MaxFile
  BY <1>5, <1>6, EngineBounds, SMT
<1>11. /\ versions' \in VersionType /\ manifest' \in VersionType
       /\ versions'.l0 = a.l0 /\ versions'.l1 = a.l1 /\ manifest'.l0 = b.l0 /\ manifest'.l1 = b.l1
       /\ versions'.next = Larger(a.next, edit.next) /\ versions'.seq = Larger(a.seq, edit.seq)
       /\ manifest'.seq = (IF edit.seq # 0 THEN edit.seq ELSE b.seq)
       /\ manifest'.log = (IF edit.log # 0 THEN edit.log ELSE b.log)
  BY <1>1, <1>6, <1>7, <1>8, <1>9, <1>10, Applied, SMT
<1>12. versions'.next = versions.next /\ versions'.seq = versions.seq
  BY <1>5, <1>8, <1>11, BaseFields, SMT DEF Larger, BaseInv, NumberInv
<1>13. manifest.l0 = versions.l0 /\ manifest.l1 = versions.l1
  BY DEF BaseInv, NumberInv
<1>14. /\ manifest'.seq = (IF job.seq # 0 THEN job.seq ELSE manifest.seq) /\ manifest'.log = manifest.log
       /\ versions'.l0 = Append(versions.l0, f) /\ versions'.l1 = versions.l1
       /\ manifest'.l0 = Append(versions.l0, f) /\ manifest'.l1 = versions.l1
  BY <1>5, <1>8, <1>9, <1>11, <1>13
<1>15. /\ job' \in JobType /\ job'.pc = "clear" /\ job'.table = job.table /\ job'.number = job.number
       /\ job'.seq = job.seq /\ job'.in0 = job.in0 /\ job'.in1 = job.in1 /\ job'.data = job.data
  BY <1>1, <1>6 DEF JobType
<1>16. f = Meta(job.number, tables[job.table])
  BY DEF f
<1> QED BY <1>16, <1>2, <1>3, <1>4, <1>11, <1>12, <1>14, <1>15

-----------------------------------------------------------------------------
\* A compaction either finds no file in level 0 or takes a number and its inputs.
LEMMA CompactPickFacts ==
    ASSUME BaseInv, CompactPick
    PROVE  LET L0 == Range(versions.l0)
               n == versions.next
           IN  \/ /\ job' \in JobType /\ job'.pc = "done" /\ UNCHANGED versions
                  /\ job'.number = job.number /\ job'.seq = job.seq
               \/ /\ n \in Files /\ versions.l0 # <<>>
                  /\ versions' \in VersionType /\ versions'.next = n + 1 /\ versions'.seq = versions.seq
                  /\ versions'.l0 = versions.l0 /\ versions'.l1 = versions.l1 /\ versions'.log = versions.log
                  /\ job' \in JobType /\ job'.pc = "open" /\ job'.number = n /\ job'.seq = job.seq
                  /\ job'.in0 = versions.l0
                  /\ job'.in1 = {f \in versions.l1 :
                                   FileOverlapsRange(f, Min({g.lo : g \in L0}), Max({g.hi : g \in L0}))}
<1> DEFINE L0 == Range(versions.l0)
           in1 == {f \in versions.l1 : FileOverlapsRange(f, Min({g.lo : g \in L0}), Max({g.hi : g \in L0}))}
<1>0. versions \in VersionType /\ job \in JobType
  BY BaseFields
<1>1. CASE job' = [job EXCEPT !.pc = "done"] /\ UNCHANGED versions
  BY <1>0, <1>1 DEF JobType
<1>2. CASE /\ Len(versions.l0) >= Trigger /\ versions.next <= MaxFile
           /\ versions' = [versions EXCEPT !.next = @ + 1]
           /\ job' = [job EXCEPT !.pc = "open", !.number = versions.next, !.in0 = versions.l0, !.in1 = in1]
  <2> HIDE DEF L0
  <2>1. versions.next \in Files /\ versions.next \in 0 .. MaxFile /\ versions.next + 1 \in 2 .. MaxFile + 1
    BY <1>2, BaseFields, SMT DEF Files
  <2>2. versions.l0 \in Seq(FileMetaData) /\ in1 \in SUBSET FileMetaData
    BY <1>0, VersionFields
  <2> HIDE DEF in1
  <2>3. versions.l0 # <<>>
    BY <1>2, OptionsAssumption, SMT
  <2>4. /\ versions' \in VersionType /\ versions'.next = versions.next + 1 /\ versions'.seq = versions.seq
        /\ versions'.l0 = versions.l0 /\ versions'.l1 = versions.l1 /\ versions'.log = versions.log
    BY <1>0, <1>2, <2>1 DEF VersionType
  <2>5. /\ job' \in JobType /\ job'.pc = "open" /\ job'.number = versions.next /\ job'.seq = job.seq
        /\ job'.in0 = versions.l0 /\ job'.in1 = in1
    BY <1>0, <1>2, <2>1, <2>2 DEF JobType
  <2> QED BY <2>1, <2>3, <2>4, <2>5 DEF in1, L0
<1> QED BY <1>1, <1>2 DEF CompactPick

\* The inputs either all open, or the compaction is over.
LEMMA CompactOpenFacts ==
    ASSUME BaseInv, CompactOpen
    PROVE  /\ job.number \in Files
           /\ \/ /\ \A f \in Inputs : sst[f.number].is = "complete"
                 /\ Truncate(job.number)
                 /\ job'.pc = "merge" /\ job'.data = InputData
              \/ job'.pc = "done" /\ UNCHANGED <<sst, reused>>
           /\ job' \in JobType /\ job'.number = job.number /\ job'.seq = job.seq
           /\ job'.in0 = job.in0 /\ job'.in1 = job.in1
<1>0. job \in JobType /\ job.pc = "open" /\ TypeOK
  BY BaseFields DEF CompactOpen, BaseInv
<1>1. job.number \in Files
  BY <1>0, BaseFields, SMT DEF BaseInv, ControlInv, Files
<1>2. InputData \in SUBSET Entry
  <2>1. Inputs \subseteq FileMetaData
    BY <1>0, SMT DEF Inputs, JobType, Range
  <2>2. \A f \in FileMetaData : sst[f.number].data \subseteq Entry
    BY <1>0 DEF TypeOK, TableFile, FileMetaData
  <2> QED BY <2>1, <2>2 DEF InputData, Data
<1>3. CASE /\ \A f \in Inputs : sst[f.number].is = "complete"
           /\ Truncate(job.number)
           /\ job' = [job EXCEPT !.pc = "merge", !.data = InputData]
  <2>1. /\ job' \in JobType /\ job'.number = job.number /\ job'.seq = job.seq /\ job'.pc = "merge"
        /\ job'.data = InputData /\ job'.in0 = job.in0 /\ job'.in1 = job.in1
    BY <1>0, <1>2, <1>3 DEF JobType
  <2> QED BY <2>1, <1>1, <1>3
<1>4. CASE job' = [job EXCEPT !.pc = "done", !.ok = FALSE] /\ UNCHANGED <<sst, reused>>
  <2>1. /\ job' \in JobType /\ job'.number = job.number /\ job'.seq = job.seq /\ job'.pc = "done"
        /\ job'.in0 = job.in0 /\ job'.in1 = job.in1
    BY <1>0, <1>4 DEF JobType
  <2> QED BY <2>1, <1>1, <1>4
<1> QED BY <1>3, <1>4 DEF CompactOpen, InputData, Data

\* What merging the inputs changes.
LEMMA CompactMergeFacts ==
    ASSUME BaseInv, CompactMerge
    PROVE  /\ job.number \in Files /\ job.data \in SUBSET Entry /\ Merged(job.data) \in SUBSET Entry
           /\ job' \in JobType /\ job'.pc = "replace" /\ job'.number = job.number /\ job'.seq = versions.seq
           /\ job'.in0 = job.in0 /\ job'.in1 = job.in1 /\ job'.data = Merged(job.data)
<1>0. /\ job \in JobType /\ job.pc = "merge"
      /\ job' = [job EXCEPT !.pc = "replace", !.data = Merged(job.data), !.seq = versions.seq]
  BY BaseFields DEF CompactMerge
<1>1. job.number \in Files /\ versions.seq \in 0 .. MaxSeq
  BY <1>0, BaseFields, SMT DEF BaseInv, ControlInv, Files
<1>2. job.data \in SUBSET Entry /\ Merged(job.data) \in SUBSET Entry
  BY <1>0 DEF JobType, Merged
<1>3. /\ job' \in JobType /\ job'.pc = "replace" /\ job'.number = job.number /\ job'.seq = versions.seq
      /\ job'.in0 = job.in0 /\ job'.in1 = job.in1 /\ job'.data = Merged(job.data)
  BY <1>0, <1>1, <1>2 DEF JobType
<1> QED BY <1>1, <1>2, <1>3

-----------------------------------------------------------------------------
\* What replacing the inputs by the output changes in the levels and the
\* counters.
LEMMA CompactReplaceFacts ==
    ASSUME BaseInv, FilledInv, CompactReplace
    PROVE  LET f == Meta(job.number, job.data)
               del0 == {g.number : g \in Range(job.in0)}
               del1 == {g.number : g \in job.in1}
           IN  /\ job.number \in Files /\ job.data \in SUBSET Entry /\ job.data # {} /\ f \in FileMetaData
               /\ versions' \in VersionType /\ manifest' \in VersionType
               /\ versions'.next = versions.next /\ versions'.seq = versions.seq
               /\ versions'.l0 = Kept(versions.l0, del0) /\ manifest'.l0 = versions'.l0
               /\ versions'.l1 = {g \in versions.l1 : g.number \notin del1} \cup {f}
               /\ manifest'.l1 = versions'.l1
               /\ manifest'.seq = (IF job.seq # 0 THEN job.seq ELSE manifest.seq)
               /\ manifest'.log = manifest.log
               /\ job' \in JobType /\ job'.pc = "remove" /\ job'.number = job.number /\ job'.seq = job.seq
               /\ job'.in0 = job.in0 /\ job'.in1 = job.in1 /\ job'.data = job.data
\* Every file that Kept lists is one of the sequence: the n-th is found.
<1>KeptType. ASSUME NEW s \in Seq(FileMetaData), NEW del PROVE Kept(s, del) \in Seq(FileMetaData)
  <2> DEFINE K == {i \in 1 .. Len(s) : s[i].number \notin del}
             Upto(i) == {j \in K : j <= i}
             Rank(i) == Cardinality(Upto(i))
  <2>0. Len(s) \in Nat
    BY SMT
  <2>1. IsFiniteSet(K) /\ Cardinality(K) \in Nat
    <3>1. IsFiniteSet(1 .. Len(s))
      BY <2>0, FS_Interval, SMT
    <3>2. K \in SUBSET (1 .. Len(s))
      OBVIOUS
    <3> HIDE DEF K
    <3>3. IsFiniteSet(K)
      BY <3>1, <3>2, FS_Subset
    <3> QED BY <3>3, FS_CardinalityType
  <2>2. \A i \in Nat : IsFiniteSet(Upto(i)) /\ Rank(i) \in Nat
    BY <2>1, FS_Subset, FS_CardinalityType
  <2>3. ASSUME NEW n \in 1 .. Cardinality(K) PROVE \E i \in K : Rank(i) = n
    <3> DEFINE S == {i \in Nat : Rank(i) >= n}
    <3>1. Upto(Len(s)) = K /\ Upto(0) = {}
      BY SMT
    <3>2. Rank(Len(s)) = Cardinality(K) /\ Rank(0) = 0
      BY <3>1, FS_EmptySet
    <3>3. n \in Nat /\ n >= 1 /\ n <= Cardinality(K)
      BY <2>1, SMT
    <3> HIDE DEF Rank
    <3>4. Len(s) \in S /\ S \in SUBSET Nat
      BY <2>0, <3>2, <3>3, <2>1
    <3> HIDE DEF S
    <3>5. PICK i \in S : \A y \in S : i <= y
      BY <3>4, LeastNat
    <3>6. i \in Nat /\ Rank(i) >= n /\ i # 0
      BY <3>5, <3>2, <3>3, SMT DEF S
    <3>7. i - 1 \in Nat /\ i - 1 \notin S
      BY <3>4, <3>5, <3>6, SMT
    <3>8. Rank(i - 1) \in Nat /\ Rank(i) \in Nat /\ Rank(i - 1) < n
      <4>1. Rank(i - 1) \in Nat /\ Rank(i) \in Nat
        BY <3>6, <3>7, <2>2 DEF Rank
      <4> QED BY <4>1, <3>3, <3>7, SMT DEF S
    <3>9. CASE i \notin K
      <4>1. Upto(i) = Upto(i - 1)
        BY <3>6, <3>7, <3>9, SMT
      <4>2. Rank(i) = Rank(i - 1)
        BY <4>1 DEF Rank
      <4> QED BY <4>2, <3>8, <3>6, <3>3, SMT
    <3>10. CASE i \in K
      <4>1. Upto(i) = Upto(i - 1) \cup {i} /\ i \notin Upto(i - 1)
        BY <3>6, <3>7, <3>10, SMT
      <4> HIDE DEF Upto
      <4>2. Cardinality(Upto(i - 1) \cup {i}) = Cardinality(Upto(i - 1)) + 1
        BY <4>1, <3>7, <2>2, FS_AddElement
      <4>3. Rank(i) = Rank(i - 1) + 1
        BY <4>1, <4>2 DEF Rank
      <4> QED BY <4>3, <3>8, <3>6, <3>3, <3>10, SMT
    <3> QED BY <3>9, <3>10
  <2>4. Kept(s, del) = [n \in 1 .. Cardinality(K) |-> s[CHOOSE i \in K : Rank(i) = n]]
    BY DEF Kept
  <2>5. \A n \in 1 .. Cardinality(K) : (CHOOSE i \in K : Rank(i) = n) \in 1 .. Len(s)
    BY <2>3
  <2> DEFINE At(n) == CHOOSE i \in K : Rank(i) = n
  <2>7. Kept(s, del) = [n \in 1 .. Cardinality(K) |-> s[At(n)]]
    BY <2>4
  <2>8. \A n \in 1 .. Cardinality(K) : At(n) \in 1 .. Len(s)
    BY <2>5
  <2> HIDE DEF K, Rank, At
  <2>6. \A n \in 1 .. Cardinality(K) : s[At(n)] \in FileMetaData
    BY <2>8, SMT
  <2> QED BY <2>1, <2>6, <2>7, SMT

\* What an edit makes of the files of a version.
<1>ReplaceEdit. ASSUME NEW v \in VersionType, NEW edit, NEW f \in FileMetaData, edit.add0 = <<>>,
             edit.add1 = {f}, NEW x, x = ApplyFiles(v, edit)
      PROVE  /\ x \in VersionType /\ x.l0 = Kept(v.l0, edit.del0)
             /\ x.l1 = {g \in v.l1 : g.number \notin edit.del1} \cup {f}
             /\ x.next = v.next /\ x.seq = v.seq /\ x.log = v.log
  <2> USE <1>ReplaceEdit
  <2>1. v.l0 \in Seq(FileMetaData) /\ v.l1 \in SUBSET FileMetaData
    BY VersionFields
  <2> DEFINE q == Kept(v.l0, edit.del0)
             t == {g \in v.l1 : g.number \notin edit.del1} \cup {f}
  <2>2. q \in Seq(FileMetaData)
    BY <2>1, <1>KeptType
  <2>3. t \in SUBSET FileMetaData
    BY <2>1
  <2>4. q \o <<>> = q
    BY <2>2, SMT
  <2>5. x = [v EXCEPT !.l0 = q \o <<>>, !.l1 = t]
    BY DEF ApplyFiles
  <2> HIDE DEF q, t
  <2>6. x = [v EXCEPT !.l0 = q, !.l1 = t]
    BY <2>4, <2>5
  <2>7. /\ x \in VersionType /\ x.l0 = q /\ x.l1 = t
        /\ x.next = v.next /\ x.seq = v.seq /\ x.log = v.log
    BY <2>2, <2>3, <2>6 DEF VersionType
  <2> QED BY <2>7 DEF q, t

\* All steps together.
<1> DEFINE f == Meta(job.number, job.data)
           del0 == {g.number : g \in Range(job.in0)}
           del1 == {g.number : g \in job.in1}
           edit == [NoEdit EXCEPT !.seq = job.seq, !.del0 = del0, !.del1 = del1, !.add1 = {f}]
<1>1. job.pc = "replace" /\ LogAndApply(versions, edit) /\ job' = [job EXCEPT !.pc = "remove"]
  BY DEF CompactReplace
<1>2. versions \in VersionType /\ manifest \in VersionType /\ job.seq \in 0 .. MaxSeq /\ job \in JobType
  BY BaseFields, SMT
<1>3. job.number \in Files /\ job.data \in SUBSET Entry /\ job.data # {}
  <2>1. job.number \in Files /\ job.data # {}
    BY <1>1, BaseFields, SMT DEF BaseInv, ControlInv, Files, FilledInv
  <2> QED BY <2>1, <1>2 DEF JobType
<1>4. f \in FileMetaData
  BY <1>3, MetaFacts
<1> HIDE DEF f, del0, del1
<1>5. /\ edit.next = 0 /\ edit.log = 0 /\ edit.seq = job.seq /\ edit.del0 = del0 /\ edit.del1 = del1
      /\ edit.add0 = <<>> /\ edit.add1 = {f}
  BY DEF NoEdit
<1> HIDE DEF edit
<1> DEFINE a == ApplyFiles(versions, edit)
           b == ApplyFiles(manifest, edit)
<1>7. a = ApplyFiles(versions, edit) /\ b = ApplyFiles(manifest, edit)
  OBVIOUS
<1> HIDE DEF a, b
<1>8. /\ a \in VersionType /\ a.l0 = Kept(versions.l0, del0)
      /\ a.l1 = {g \in versions.l1 : g.number \notin del1} \cup {f}
      /\ a.next = versions.next /\ a.seq = versions.seq
  BY <1>2, <1>4, <1>5, <1>7, <1>ReplaceEdit, SMT
<1>9. /\ b \in VersionType /\ b.l0 = Kept(manifest.l0, del0)
      /\ b.l1 = {g \in manifest.l1 : g.number \notin del1} \cup {f}
      /\ b.log = manifest.log /\ b.seq = manifest.seq
  BY <1>2, <1>4, <1>5, <1>7, <1>ReplaceEdit, SMT
<1>10. edit.next \in {0} \cup 2 .. MaxFile + 1 /\ edit.seq \in 0 .. MaxSeq /\ edit.log \in 0 .. MaxFile
  BY <1>5, <1>2, EngineBounds, SMT
<1>11. /\ versions' \in VersionType /\ manifest' \in VersionType
       /\ versions'.l0 = a.l0 /\ versions'.l1 = a.l1 /\ manifest'.l0 = b.l0 /\ manifest'.l1 = b.l1
       /\ versions'.next = Larger(a.next, edit.next) /\ versions'.seq = Larger(a.seq, edit.seq)
       /\ manifest'.seq = (IF edit.seq # 0 THEN edit.seq ELSE b.seq)
       /\ manifest'.log = (IF edit.log # 0 THEN edit.log ELSE b.log)
  BY <1>1, <1>2, <1>7, <1>8, <1>9, <1>10, Applied, SMT
<1>12. versions'.next = versions.next /\ versions'.seq = versions.seq
  BY <1>5, <1>8, <1>11, BaseFields, SMT DEF Larger, BaseInv, NumberInv
<1>13. manifest.l0 = versions.l0 /\ manifest.l1 = versions.l1
  BY DEF BaseInv, NumberInv
<1>14. manifest'.seq = (IF job.seq # 0 THEN job.seq ELSE manifest.seq) /\ manifest'.log = manifest.log
  BY <1>5, <1>9, <1>11
<1>15. /\ versions'.l0 = Kept(versions.l0, del0) /\ manifest'.l0 = versions'.l0 /\ manifest'.l1 = versions'.l1
       /\ versions'.l1 = {g \in versions.l1 : g.number \notin del1} \cup {f}
  BY <1>8, <1>9, <1>11, <1>13
<1>16. /\ job' \in JobType /\ job'.pc = "remove" /\ job'.number = job.number
       /\ job'.seq = job.seq /\ job'.in0 = job.in0 /\ job'.in1 = job.in1 /\ job'.data = job.data
  BY <1>1, <1>2 DEF JobType
<1>17. f = Meta(job.number, job.data) /\ del0 = {g.number : g \in Range(job.in0)} /\ del1 = {g.number : g \in job.in1}
  BY DEF f, del0, del1
<1> QED BY <1>17, <1>3, <1>4, <1>11, <1>12, <1>14, <1>15, <1>16

\* Steps that only end a job: the inputs are removed, or a call fails.
LEMMA JobEnds ==
    ASSUME BaseInv, CompactRemove \/ JobFails
    PROVE  /\ job' \in JobType /\ job'.pc = "done" /\ job'.number = job.number /\ job'.seq = job.seq
           /\ job.pc # "none"
           /\ UNCHANGED <<log, manifest, versions, tables, db, bg, wr, rd, closer, hist, synced, mine, reused>>
<1>1. job \in JobType
  BY BaseFields
<1>2. \/ job' = [job EXCEPT !.pc = "done"]
      \/ job' = [job EXCEPT !.pc = "done", !.ok = FALSE]
  BY DEF CompactRemove, JobFails
<1>3. job' \in JobType /\ job'.pc = "done" /\ job'.number = job.number /\ job'.seq = job.seq
  BY <1>1, <1>2 DEF JobType
<1> QED BY <1>3 DEF CompactRemove, JobFails, history, files

-----------------------------------------------------------------------------
\* Reads.

\* What a reader is made of; a Get under way means that the database is open.
LEMMA ReaderFields ==
    ASSUME BaseInv, NEW r \in Readers
    PROVE  /\ rd[r] \in ReaderType /\ rd[r].mem \in 0 .. MaxFile /\ rd[r].imm \in 0 .. MaxFile
           /\ rd[r].snapshot \in Nat /\ rd[r].snapshot \in 0 .. MaxSeq /\ rd[r].l0 \in Seq(FileMetaData)
           /\ rd[r].l1 \in SUBSET FileMetaData /\ rd[r].key \in Keys \cup {0}
           /\ rd[r].mem < versions.next /\ rd[r].imm < versions.next
           /\ rd[r].pc # "idle" => closer = "none"
<1>1. rd[r] \in ReaderType
  BY DEF BaseInv, TypeOK
<1>2. rd[r].snapshot \in 0 .. MaxSeq
  BY <1>1 DEF ReaderType
<1>3. rd[r].snapshot \in Nat
  BY <1>2, EngineBounds, SMT
<1>4. rd[r].pc # "idle" => closer = "none"
  BY SMT DEF BaseInv, ControlInv, IdleReader
<1>5. rd[r].mem < versions.next /\ rd[r].imm < versions.next
  BY DEF BaseInv, NumberInv
<1>6. /\ rd[r].mem \in 0 .. MaxFile /\ rd[r].imm \in 0 .. MaxFile /\ rd[r].l0 \in Seq(FileMetaData)
      /\ rd[r].l1 \in SUBSET FileMetaData /\ rd[r].key \in Keys \cup {0}
  BY <1>1 DEF ReaderType
<1> QED BY <1>1, <1>2, <1>3, <1>4, <1>5, <1>6

\* What a step of a Get makes of its state.
LEMMA ReadMemFacts ==
    ASSUME BaseInv, NEW r \in Readers, ReadMem(r)
    PROVE  LET In(n) == IF n = 0 THEN 0 ELSE NewestSeq(tables[n], rd[r].key, rd[r].snapshot)
               s == IF In(rd[r].mem) # 0 THEN In(rd[r].mem) ELSE In(rd[r].imm)
               x == [rd[r] EXCEPT !.res = s, !.pc = IF s # 0 THEN "done" ELSE "files"]
           IN  rd' = [rd EXCEPT ![r] = x] /\ s \in 0 .. MaxSeq
<1> DEFINE In(n) == IF n = 0 THEN 0 ELSE NewestSeq(tables[n], rd[r].key, rd[r].snapshot)
           s == IF In(rd[r].mem) # 0 THEN In(rd[r].mem) ELSE In(rd[r].imm)
           x == [rd[r] EXCEPT !.res = s, !.pc = IF s # 0 THEN "done" ELSE "files"]
<1>1. \A n \in 0 .. MaxFile : In(n) \in 0 .. MaxSeq
  <2> TAKE n \in 0 .. MaxFile
  <2>1. CASE n = 0
    BY <2>1, EngineBounds, SMT
  <2>2. CASE n # 0
    <3>1. n \in Files
      BY <2>2, EngineBounds, SMT DEF Files
    <3>2. tables[n] \in SUBSET Entry
      BY <3>1 DEF BaseInv, TypeOK
    <3> QED BY <2>2, <3>2, ReaderFields, NewestFacts
  <2> QED BY <2>1, <2>2
<1> HIDE DEF In
<1>2. s \in 0 .. MaxSeq
  BY <1>1, ReaderFields
<1>3. rd' = [rd EXCEPT ![r].res = s, ![r].pc = IF s # 0 THEN "done" ELSE "files"]
  BY DEF ReadMem, In
<1> HIDE DEF s
<1>4. rd' = [rd EXCEPT ![r] = x]
  BY <1>3 DEF BaseInv, TypeOK
<1> QED BY <1>2, <1>4 DEF In, s

-----------------------------------------------------------------------------
\* A step of a Get on a file: the last of L0 that covers the key, a file of L1
\* that does, or none.
Looked(r, n, rest) ==
    LET s == NewestSeq(sst[n].data, rd[r].key, rd[r].snapshot)
    IN  IF sst[n].is # "complete" THEN [rd[r] EXCEPT !.pc = "error"]
        ELSE IF s # 0 THEN [rd[r] EXCEPT !.res = s, !.pc = "done"] ELSE rest

\* ReadFile looks into the newest level-0 file that covers the key, else into one
\* of level 1, else it finds nothing.
LEMMA ReadFileCases ==
    ASSUME NEW r \in Readers, ReadFile(r)
    PROVE  LET l0 == rd[r].l0
               k == rd[r].key
           IN  \/ \E i \in 1 .. Len(l0) :
                     /\ Covers(l0[i], k) /\ \A j \in 1 .. Len(l0) : Covers(l0[j], k) => j <= i
                     /\ rd' = [rd EXCEPT ![r] =
                                  Looked(r, l0[i].number, [rd[r] EXCEPT !.l0 = SubSeq(l0, 1, i - 1)])]
               \/ /\ \A j \in 1 .. Len(l0) : ~Covers(l0[j], k)
                  /\ \E f \in rd[r].l1 :
                        /\ Covers(f, k)
                        /\ rd' = [rd EXCEPT ![r] =
                                     Looked(r, f.number, [rd[r] EXCEPT !.l1 = rd[r].l1 \ {f}])]
               \/ /\ \A j \in 1 .. Len(l0) : ~Covers(l0[j], k)
                  /\ \A f \in rd[r].l1 : ~Covers(f, k)
                  /\ rd' = [rd EXCEPT ![r].pc = "done"]
BY DEF ReadFile, Looked

-----------------------------------------------------------------------------
\* Writes.

\* A writer moves on, or returns.
LEMMA WriterMoves ==
    ASSUME BaseInv, NEW w \in Writers, NEW x \in WriterType, NEW W, W = [wr EXCEPT ![w] = x],
           x.pc # "idle" => x.key \in Keys
    PROVE  /\ W \in [Writers -> WriterType]
           /\ Busy(W) \subseteq InFlight \cup {w}
           /\ x.pc = "idle" => Busy(W) = InFlight \ {w}
           /\ \A v \in Busy(W) : W[v].key \in Keys
<1>1. wr \in [Writers -> WriterType] /\ \A v \in InFlight : wr[v].key \in Keys
  BY DEF BaseInv, TypeOK, ControlInv
<1>2. \A v \in Writers : W[v] = IF v = w THEN x ELSE wr[v]
  BY <1>1
<1> QED BY <1>1, <1>2 DEF Busy, InFlight

\* The four outcomes of MakeRoomForWrite: the writer moves on or fails, or the
\* memtable is switched, with or without an error.
Moves(w, k, s) ==
    /\ wr' \in {[wr EXCEPT ![w] = x] : x \in {IdleWriter, [pc |-> "write", key |-> k, sync |-> s],
                                              [pc |-> "cv", key |-> k, sync |-> s]}}
    /\ UNCHANGED <<log, sst, manifest, versions, tables, db, bg, reused, faults>>

\* The other: the memtable is full, a new one and a new log take its place, and
\* the MANIFEST may refuse the edit.
Switches(w, k, s, ok) ==
    /\ db.imm = 0 /\ Full /\ versions.next <= MaxFile
    /\ tables' = [tables EXCEPT ![versions.next] = {}]
    /\ \E l \in Closed(log[db.mem]) : log' = [log EXCEPT ![db.mem] = l]
    /\ reused' = (reused \/ log[versions.next].recs # <<>>)
    /\ UNCHANGED sst
    /\ IF ok THEN /\ LogAndApply([versions EXCEPT !.next = versions.next + 1], [NoEdit EXCEPT !.log = versions.next])
                  /\ db' = [Rotated(versions.next, TRUE) EXCEPT !.flush_scheduled = TRUE]
                  /\ bg' = WokenBg
                  /\ wr' = Woken([wr EXCEPT ![w] = [pc |-> "write", key |-> k, sync |-> s]])
                  /\ UNCHANGED faults
             ELSE /\ \E wal \in BOOLEAN :
                        /\ db' = Rotated(versions.next, wal)
                        /\ versions' = [versions EXCEPT !.next = versions.next + 1,
                                                        !.log = IF wal THEN versions.next ELSE @]
                  /\ wr' = [wr EXCEPT ![w] = IdleWriter]
                  /\ faults' = faults + 1
                  /\ UNCHANGED <<manifest, bg>>

\* MakeRoomForWrite does one of the two.
LEMMA MakeRoomCases ==
    ASSUME NEW w \in Writers, NEW k, NEW s, MakeRoomForWrite(w, k, s)
    PROVE  /\ Moves(w, k, s) \/ \E ok \in BOOLEAN : Switches(w, k, s, ok)
           /\ UNCHANGED <<job, rd, closer, hist, synced, mine>>
<1>1. \/ UNCHANGED <<log, sst, manifest, versions, tables, db, bg, reused, faults>> /\ wr' = [wr EXCEPT ![w] = IdleWriter]
      \/ UNCHANGED <<log, sst, manifest, versions, tables, db, bg, reused, faults>>
         /\ (\/ wr' = [wr EXCEPT ![w] = [pc |-> "write", key |-> k, sync |-> s]]
             \/ wr' = [wr EXCEPT ![w] = [pc |-> "cv", key |-> k, sync |-> s]])
      \/ Switches(w, k, s, TRUE) \/ Switches(w, k, s, FALSE)
  BY DEF MakeRoomForWrite, Switches, files
<1>2. Moves(w, k, s) \/ Switches(w, k, s, TRUE) \/ Switches(w, k, s, FALSE)
  BY <1>1 DEF Moves
<1>3. UNCHANGED <<job, rd, closer, hist, synced, mine>>
  BY DEF MakeRoomForWrite
<1> QED BY <1>2, <1>3

-----------------------------------------------------------------------------
\* What a switch of memtables leaves.
LEMMA SwitchFacts ==
    ASSUME BaseInv, closer = "none", NEW w \in Writers, NEW k \in Keys, NEW s \in BOOLEAN, NEW ok \in BOOLEAN,
           Switches(w, k, s, ok)
    PROVE  LET n == versions.next
               m == db.mem
           IN  /\ n \in Files /\ m \in Files /\ m # n /\ db.imm = 0 /\ tables[m] # {}
               /\ versions' \in VersionType /\ versions'.next = n + 1 /\ versions'.seq = versions.seq
               /\ versions'.l0 = versions.l0 /\ versions'.l1 = versions.l1
               /\ manifest' \in VersionType /\ manifest'.l0 = manifest.l0 /\ manifest'.l1 = manifest.l1
               /\ manifest'.seq = manifest.seq /\ manifest'.log = (IF ok THEN n ELSE manifest.log)
               /\ db' \in DBType /\ db'.mem = n /\ db'.imm = m /\ db'.shutting_down = db.shutting_down
               /\ \E l \in Closed(log[m]) : log' = [log EXCEPT ![m] = l] /\ l \in LogFile /\ l.flushed = Len(l.recs)
               /\ tables' = [tables EXCEPT ![n] = {}]
<1> DEFINE n == versions.next
           m == db.mem
<1>1. n \in Files /\ m \in Files /\ m # n /\ n \in 0 .. MaxFile /\ m \in 0 .. MaxFile /\ n + 1 \in 2 .. MaxFile + 1
  <2>1. versions.next <= MaxFile /\ db.mem < versions.next
    BY DEF Switches, BaseInv, NumberInv
  <2>2. n \in Nat /\ n >= 2 /\ m \in Nat /\ m # 0 /\ MaxFile \in Nat
    BY BaseFields DEF BaseInv, ControlInv
  <2> HIDE DEF n, m
  <2>3. n <= MaxFile /\ m < n
    BY <2>1 DEF n, m
  <2> QED BY <2>2, <2>3, SMT DEF Files
<1>2. tables[m] # {}
  <2>1. Cardinality(tables[m]) >= WriteBuffer
    BY DEF Switches, Full
  <2> QED BY <2>1, FS_EmptySet, OptionsAssumption, SMT
<1>3. versions \in VersionType /\ manifest \in VersionType /\ db \in DBType /\ TypeOK
  BY DEF BaseInv, TypeOK
<1>4. \E l \in Closed(log[m]) : log' = [log EXCEPT ![m] = l] /\ l \in LogFile /\ l.flushed = Len(l.recs)
  BY <1>1, <1>3, ClosedLog DEF Switches
<1>5. CASE ok
  <2> DEFINE v == [versions EXCEPT !.next = n + 1]
             edit == [NoEdit EXCEPT !.log = n]
  <2>1. LogAndApply(v, edit) /\ db' = [Rotated(n, TRUE) EXCEPT !.flush_scheduled = TRUE]
    BY <1>5 DEF Switches
  <2>2. /\ v \in VersionType /\ v.next = n + 1 /\ v.seq = versions.seq
        /\ v.l0 = versions.l0 /\ v.l1 = versions.l1
    BY <1>1, <1>3 DEF VersionType
  <2>3. /\ edit.next = 0 /\ edit.log = n /\ edit.seq = 0 /\ edit.del0 = {} /\ edit.del1 = {}
        /\ edit.add0 = <<>> /\ edit.add1 = {}
    BY DEF NoEdit
  <2> HIDE DEF v, edit
  <2>4. ApplyFiles(v, edit) = v /\ ApplyFiles(manifest, edit) = manifest
    BY <1>3, <2>2, <2>3, CounterEdit
  <2>5. edit.next \in {0} \cup 2 .. MaxFile + 1 /\ edit.seq \in 0 .. MaxSeq /\ edit.log \in 0 .. MaxFile
    BY <2>3, <1>1, EngineBounds, SMT
  <2>6. /\ versions' \in VersionType /\ manifest' \in VersionType
        /\ versions'.l0 = v.l0 /\ versions'.l1 = v.l1 /\ manifest'.l0 = manifest.l0 /\ manifest'.l1 = manifest.l1
        /\ versions'.next = Larger(v.next, edit.next) /\ versions'.seq = Larger(v.seq, edit.seq)
        /\ manifest'.seq = (IF edit.seq # 0 THEN edit.seq ELSE manifest.seq)
        /\ manifest'.log = (IF edit.log # 0 THEN edit.log ELSE manifest.log)
    BY <1>3, <2>1, <2>2, <2>4, <2>5, Applied, SMT
  <2>7. versions'.next = n + 1 /\ versions'.seq = versions.seq
    BY <2>2, <2>3, <2>6, BaseFields, SMT DEF Larger
  <2>8. manifest'.seq = manifest.seq /\ manifest'.log = n
    BY <2>3, <2>6, BaseFields, SMT
  <2>9. db' \in DBType /\ db'.mem = n /\ db'.imm = m /\ db'.shutting_down = db.shutting_down
    <3> DEFINE d == Rotated(n, TRUE)
    <3>1. d \in DBType /\ d.mem = n /\ d.imm = m /\ d.shutting_down = db.shutting_down
      BY <1>1, <1>3 DEF DBType, Rotated
    <3>2. db' = [d EXCEPT !.flush_scheduled = TRUE]
      BY <2>1
    <3> HIDE DEF d
    <3> QED BY <3>1, <3>2 DEF DBType
  <2> QED BY <1>1, <1>2, <1>4, <1>5, <2>2, <2>6, <2>7, <2>8, <2>9 DEF Switches
<1>6. CASE ~ok
  <2>1. PICK wal \in BOOLEAN :
           /\ db' = Rotated(n, wal)
           /\ versions' = [versions EXCEPT !.next = n + 1, !.log = IF wal THEN n ELSE @]
    BY <1>6 DEF Switches
  <2>2. UNCHANGED manifest
    BY <1>6 DEF Switches
  <2>3. /\ versions' \in VersionType /\ versions'.next = n + 1 /\ versions'.seq = versions.seq
        /\ versions'.l0 = versions.l0 /\ versions'.l1 = versions.l1
    BY <1>1, <1>3, <2>1 DEF VersionType
  <2>4. db' \in DBType /\ db'.mem = n /\ db'.imm = m /\ db'.shutting_down = db.shutting_down
    BY <1>1, <1>3, <2>1 DEF DBType, Rotated
  <2> QED BY <1>1, <1>2, <1>3, <1>4, <1>6, <2>2, <2>3, <2>4 DEF Switches
<1> QED BY <1>5, <1>6

-----------------------------------------------------------------------------
\* The two outcomes of the rest of Write.
Succeeds(w, e) ==
    /\ log' = [log EXCEPT ![db.mem] = Appended(log[db.mem], e, wr[w].sync)]
    /\ tables' = [tables EXCEPT ![db.mem] = tables[db.mem] \cup {e}]
    /\ hist' = hist \cup {e}
    /\ \/ ~wr[w].sync /\ UNCHANGED <<synced, mine>>
       \/ /\ wr[w].sync
          /\ synced' = [synced EXCEPT ![e.key] = e.seq] /\ mine' = [mine EXCEPT ![e.key] = e.seq]
    /\ db' = db \/ db' = [db EXCEPT !.flush_scheduled = TRUE]
    /\ bg' \in {bg, WokenBg}
    /\ wr' = [wr EXCEPT ![w] = IdleWriter] \/ wr' = Woken([wr EXCEPT ![w] = IdleWriter])
    /\ UNCHANGED faults

\* A write that fails: the record is missing, torn or complete in the log, and
\* the log is given up.
Fails(w, e) ==
    /\ \/ UNCHANGED <<log, faults>>
       \/ /\ faults' = faults + 1
          /\ \/ log' = log
             \/ log' = [log EXCEPT ![db.mem].torn = TRUE]
             \/ log' = [log EXCEPT ![db.mem] = Appended(log[db.mem], e, FALSE)]
    /\ db' = [db EXCEPT !.wal = FALSE]
    /\ wr' = [wr EXCEPT ![w] = IdleWriter]
    /\ UNCHANGED <<tables, hist, synced, mine, bg>>

\* Write takes the next sequence number and succeeds or fails.
LEMMA WriteCases ==
    ASSUME BaseInv, NEW w \in Writers, Write(w), NEW e, e = [seq |-> versions.seq + 1, key |-> wr[w].key]
    PROVE  /\ Succeeds(w, e) \/ Fails(w, e)
           /\ versions' = [versions EXCEPT !.seq = e.seq]
           /\ e.seq = versions.seq + 1 /\ e.key = wr[w].key /\ e = Write_(versions.seq + 1, wr[w].key)
           /\ UNCHANGED <<sst, manifest, job, rd, closer, reused>>
<1>1. e.seq = versions.seq + 1 /\ e.key = wr[w].key
  OBVIOUS
<1>2. versions' = [versions EXCEPT !.seq = e.seq] /\ UNCHANGED <<sst, manifest, job, rd, closer, reused>>
  BY <1>1 DEF Write
<1>3. CASE /\ db.wal
           /\ log' = [log EXCEPT ![db.mem] = Appended(@, e, wr[w].sync)]
           /\ tables' = [tables EXCEPT ![db.mem] = @ \cup {e}]
           /\ hist' = hist \cup {e}
           /\ IF wr[w].sync
              THEN synced' = [synced EXCEPT ![e.key] = e.seq] /\ mine' = [mine EXCEPT ![e.key] = e.seq]
              ELSE UNCHANGED <<synced, mine>>
           /\ IF Cardinality(tables[db.mem]) + 1 >= WriteBuffer
              THEN /\ db' = [db EXCEPT !.flush_scheduled = TRUE]
                   /\ bg' = WokenBg
                   /\ wr' = Woken([wr EXCEPT ![w] = IdleWriter])
              ELSE wr' = [wr EXCEPT ![w] = IdleWriter] /\ UNCHANGED <<db, bg>>
           /\ UNCHANGED faults
  <2>1. Succeeds(w, e)
    BY <1>3 DEF Succeeds
  <2> QED BY <2>1, <1>1, <1>2 DEF Write_
<1>4. CASE /\ faults' = IF db.wal THEN faults + 1 ELSE faults
           /\ db' = [db EXCEPT !.wal = FALSE]
           /\ log' \in IF db.wal THEN {log, [log EXCEPT ![db.mem].torn = TRUE],
                                       [log EXCEPT ![db.mem] = Appended(@, e, FALSE)]}
                                 ELSE {log}
           /\ wr' = [wr EXCEPT ![w] = IdleWriter]
           /\ UNCHANGED <<tables, hist, synced, mine, bg>>
  <2>1. Fails(w, e)
    BY <1>4 DEF Fails
  <2> QED BY <2>1, <1>1, <1>2 DEF Write_
<1> QED BY <1>1, <1>3, <1>4 DEF Write

\* What Write does to the counters, the members of the database and the writers.
LEMMA WriteFacts ==
    ASSUME BaseInv, NEW w \in Writers, Write(w), NEW e, e = [seq |-> versions.seq + 1, key |-> wr[w].key]
    PROVE  /\ closer = "none" /\ db.mem \in Files /\ e \in Entry
           /\ versions' \in VersionType /\ versions'.seq = versions.seq + 1 /\ versions'.next = versions.next
           /\ versions'.l0 = versions.l0 /\ versions'.l1 = versions.l1
           /\ db' \in DBType /\ db'.mem = db.mem /\ db'.imm = db.imm /\ db'.shutting_down = db.shutting_down
           /\ wr' \in [Writers -> WriterType] /\ \A v \in InFlight' : wr'[v].key \in Keys
           /\ versions'.seq + Cardinality(InFlight') <= MaxSeq
           /\ bg' \in {bg, WokenBg}
<1>1. w \in InFlight
  BY DEF Write, InFlight
<1>2. closer = "none" /\ wr[w].key \in Keys /\ versions.seq + Cardinality(InFlight) <= MaxSeq
  BY <1>1 DEF BaseInv, ControlInv
<1>3. IsFiniteSet(InFlight) /\ Cardinality(InFlight \ {w}) = Cardinality(InFlight) - 1 /\ Cardinality(InFlight \ {w}) \in Nat
  <2>1. IsFiniteSet(Busy(wr)) /\ InFlight = Busy(wr)
    BY BusyFacts
  <2>2. IsFiniteSet(InFlight) /\ IsFiniteSet(InFlight \ {w})
    BY <2>1, FS_Subset
  <2> QED BY <2>2, <1>1, FS_RemoveElement, FS_CardinalityType
<1>4. versions.seq + 1 \in 1 .. MaxSeq /\ versions.seq + 1 + Cardinality(InFlight \ {w}) <= MaxSeq
  BY <1>2, <1>3, BaseFields, SMT
<1>5. e \in Entry
  BY <1>2, <1>4 DEF Entry
<1>6. Succeeds(w, e) \/ Fails(w, e)
  BY WriteCases
<1>7. versions' = [versions EXCEPT !.seq = versions.seq + 1] /\ versions \in VersionType /\ versions.seq + 1 \in 0 .. MaxSeq
  BY <1>4, WriteCases, BaseFields, SMT
<1>8. /\ versions' \in VersionType /\ versions'.seq = versions.seq + 1 /\ versions'.next = versions.next
      /\ versions'.l0 = versions.l0 /\ versions'.l1 = versions.l1
  BY <1>7 DEF VersionType
<1>9. db' \in DBType /\ db'.mem = db.mem /\ db'.imm = db.imm /\ db'.shutting_down = db.shutting_down
  BY <1>6, BaseFields DEF Succeeds, Fails, DBType
<1> DEFINE W == [wr EXCEPT ![w] = IdleWriter]
<1>10. W \in [Writers -> WriterType] /\ Busy(W) = InFlight \ {w} /\ \A v \in Busy(W) : W[v].key \in Keys
  <2>1. IdleWriter \in WriterType /\ IdleWriter.pc = "idle"
    BY DEF IdleWriter, WriterType
  <2> QED BY <2>1, WriterMoves
<1> HIDE DEF W
<1>11. /\ Woken(W) \in [Writers -> WriterType] /\ Busy(Woken(W)) = Busy(W)
       /\ \A v \in Writers : Woken(W)[v].key = W[v].key
  BY <1>10, WokenFacts
<1>12. wr' = W \/ wr' = Woken(W)
  BY <1>6 DEF Succeeds, Fails, W
<1>13. wr' \in [Writers -> WriterType] /\ Busy(wr') = InFlight \ {w} /\ \A v \in Writers : wr'[v].key = W[v].key
  BY <1>10, <1>11, <1>12
<1>14. InFlight' = InFlight \ {w}
  BY <1>13 DEF InFlight, Busy
<1>15. \A v \in InFlight' : wr'[v].key \in Keys
  BY <1>10, <1>13, <1>14 DEF InFlight
<1>16. versions'.seq + Cardinality(InFlight') <= MaxSeq
  BY <1>4, <1>8, <1>14
<1>17. bg' \in {bg, WokenBg}
  BY <1>6 DEF Succeeds, Fails
<1>18. db.mem \in Files
  BY <1>2, BaseFields
<1> QED BY <1>2, <1>5, <1>8, <1>9, <1>13, <1>15, <1>16, <1>17, <1>18, ZenonT(30)

-----------------------------------------------------------------------------
\* Tables and compactions have entries.

-----------------------------------------------------------------------------
\* The steps of the engine by what they touch: those of the job, and the rest.
JobSteps ==
    \/ FlushTake \/ FlushBuild \/ FlushInstall \/ FlushClear \/ CompactPick \/ CompactOpen
    \/ CompactMerge \/ CompactReplace \/ CompactRemove \/ JobFails

\* The steps of a writer.
WriterSteps(w) == Write(w) \/ \E k \in Keys, s \in BOOLEAN : closer = "none" /\ MakeRoomForWrite(w, k, s)

\* The steps of a reader.
ReaderSteps(r) == (\E k \in Keys : Get(r, k)) \/ ReadMem(r) \/ ReadFile(r) \/ Return(r)

\* The steps that only schedule: the destructor up to its join, and the
\* background loop.
ThreadSteps == Close \/ CloseWait \/ CloseFlush \/ BgLoop \/ JobDone

\* Every step of the engine is one of these.
LEMMA NextCases ==
    ASSUME BaseInv, Next
    PROVE  \/ JobSteps \/ ThreadSteps \/ Open \/ CloseJoin \/ Crash
           \/ \E w \in Writers : WriterSteps(w)
           \/ \E r \in Readers : ReaderSteps(r)
<1>1. ASSUME NEW w \in Writers, NEW k \in Keys, NEW s \in Syncs, Put(w, k, s) PROVE WriterSteps(w)
  BY <1>1, KeysAssumption DEF Put, WriterSteps
<1>2. ASSUME NEW w \in Writers, Retry(w) PROVE WriterSteps(w)
  <2>1. w \in InFlight /\ MakeRoomForWrite(w, wr[w].key, wr[w].sync)
    BY <1>2 DEF Retry, InFlight
  <2>2. closer = "none" /\ wr[w].key \in Keys /\ wr[w].sync \in BOOLEAN
    BY <2>1 DEF BaseInv, ControlInv, TypeOK, WriterType
  <2> QED BY <2>1, <2>2 DEF WriterSteps
<1> QED BY <1>1, <1>2 DEF Next, Background, Destructor, JobSteps, ThreadSteps, WriterSteps, ReaderSteps

\* Every step keeps the base of the invariant.
LEMMA BaseNext ==
    ASSUME BaseInv, FilledInv, Next
    PROVE  BaseInv' /\ FilledInv'
\* Steps that change neither counters nor files.
<1>CloseBase. ASSUME Close PROVE BaseInv'
  <2> USE <1>CloseBase
  <2>1. TypeOK'
    BY DEF BaseInv, TypeOK, Close, files, history, bounds, DBType
  <2>2. db' = [db EXCEPT !.shutting_down = TRUE] /\ db \in DBType
    BY DEF Close, BaseInv, TypeOK
  <2>3. db'.mem = db.mem /\ db'.imm = db.imm /\ db'.shutting_down
    BY <2>2 DEF DBType
  <2>4. ControlInv'
    BY <2>3 DEF BaseInv, ControlInv, Close, InFlight, files, history, bounds
  <2>5. NumberInv'
    BY <2>3 DEF BaseInv, NumberInv, Close, files, history, bounds
  <2> QED BY <2>1, <2>4, <2>5 DEF BaseInv

\* The destructor waiting for the background thread keeps the base of the
\* invariant.
<1>CloseWaitBase. ASSUME CloseWait PROVE BaseInv'
  <2> USE <1>CloseWaitBase
  <2>1. TypeOK'
    BY DEF BaseInv, TypeOK, CloseWait, WokenBg, files, history, bounds
  <2>2. InFlight' = InFlight /\ (bg' = "work" <=> bg = "work") /\ (closer' = "flush" \/ (closer' = "cv" /\ bg = "work"))
        /\ (closer' = "flush" => bg # "work") /\ closer # "none" /\ closer # "flushing" /\ closer # "down"
    BY DEF CloseWait, InFlight, WokenBg
  <2>4. ControlInv'
    BY <2>2 DEF BaseInv, ControlInv, CloseWait, files, history, bounds
  <2>5. NumberInv'
    BY DEF BaseInv, NumberInv, CloseWait, files, history, bounds
  <2> QED BY <2>1, <2>4, <2>5 DEF BaseInv

\* The destructor running a last flush itself keeps the base of the invariant.
<1>CloseFlushBase. ASSUME CloseFlush PROVE BaseInv'
  <2> USE <1>CloseFlushBase
  <2>0. closer = "flush" /\ job.pc = "none"
    BY DEF CloseFlush, BaseInv, ControlInv
  <2>1. \/ db.imm # 0 /\ closer' = "flushing" /\ job' = [NoJob EXCEPT !.pc = "take"]
        \/ db.imm = 0 /\ closer' = "join" /\ UNCHANGED job
    BY DEF CloseFlush
  <2>2. UNCHANGED <<log, sst, manifest, versions, tables, db, bg, wr, rd, hist, synced, mine, reused>>
    BY DEF CloseFlush, files, history
  <2>3. CASE db.imm # 0 /\ closer' = "flushing" /\ job' = [NoJob EXCEPT !.pc = "take"]
    <3>1. job' \in JobType /\ job'.pc = "take" /\ job'.number = 0 /\ job'.seq = 0
      BY <2>3, NewJob
    <3>2. TypeOK'
      BY <3>1, <2>2, <2>3 DEF BaseInv, TypeOK
    <3>3. ControlInv'
      BY <3>1, <2>0, <2>2, <2>3 DEF BaseInv, ControlInv, InFlight
    <3>4. versions.next > 0
      BY BaseFields, SMT
    <3>5. NumberInv'
      BY <3>1, <3>4, <2>2, BaseFields, SMTT(30) DEF BaseInv, NumberInv
    <3> QED BY <3>2, <3>3, <3>5 DEF BaseInv
  <2>4. CASE db.imm = 0 /\ closer' = "join" /\ UNCHANGED job
    <3>2. TypeOK'
      BY <2>2, <2>4 DEF BaseInv, TypeOK
    <3>3. ControlInv'
      BY <2>0, <2>2, <2>4 DEF BaseInv, ControlInv, InFlight
    <3>5. NumberInv'
      BY <2>2, <2>4 DEF BaseInv, NumberInv
    <3> QED BY <3>2, <3>3, <3>5 DEF BaseInv
  <2> QED BY <2>1, <2>3, <2>4

\* The process ends: the counters are those of the MANIFEST.
<1>DownBase. ASSUME NEW l, l \in [Files -> LogFile],
             \A n \in Files : l[n].flushed <= Len(l[n].recs), Down(l)
      PROVE  BaseInv'
  <2> USE <1>DownBase
  <2>1. TypeOK'
    <3>1. NoDB \in DBType /\ NoJob \in JobType
      BY EngineBounds, SMT DEF NoDB, DBType, NoJob, JobType
    <3>2. IdleWriter \in WriterType /\ IdleReader \in ReaderType
      BY EngineBounds, SMT DEF IdleWriter, IdleReader, WriterType, ReaderType
    <3>3. mine' \in [Keys -> 0 .. MaxSeq]
      BY EngineBounds, SMT DEF Down
    <3>4. wr' \in [Writers -> WriterType] /\ rd' \in [Readers -> ReaderType]
      BY <3>2 DEF Down
    <3> QED BY <3>1, <3>3, <3>4 DEF Down, BaseInv, TypeOK
  <2>2. ControlInv'
    <3>1. InFlight' = {} /\ \A r \in Readers : rd'[r] = IdleReader
      BY DEF Down, InFlight, IdleWriter
    <3>2. Cardinality(InFlight') = 0
      BY <3>1, FS_EmptySet
    <3>3. manifest.seq \in 0 .. MaxSeq /\ versions' = manifest
      BY BaseFields, VersionFields DEF Down
    <3>4. (versions.seq + Cardinality(InFlight) <= MaxSeq)'
      BY <3>2, <3>3, EngineBounds, SMT
    <3> QED BY <3>1, <3>4 DEF Down, ControlInv, NoJob, NoDB
  <2>3. NumberInv'
    <3>1. \A r \in Readers : rd'[r].mem = 0 /\ rd'[r].imm = 0
      BY DEF Down, IdleReader
    <3>2. manifest.next > 0 /\ manifest.seq >= 0
      BY BaseFields, VersionFields, SMT
    <3> QED BY <3>1, <3>2 DEF Down, NumberInv, NoJob, NoDB
  <2> QED BY <2>1, <2>2, <2>3 DEF BaseInv

\* Replacing one log file by a well-formed one keeps all of them well formed.
<1>LogUpdate. ASSUME TypeOK, NEW m \in Files, NEW l \in LogFile, l.flushed <= Len(l.recs)
      PROVE  /\ [log EXCEPT ![m] = l] \in [Files -> LogFile]
             /\ \A n \in Files : [log EXCEPT ![m] = l][n].flushed <= Len([log EXCEPT ![m] = l][n].recs)
  BY <1>LogUpdate DEF TypeOK

\* The end of the destructor keeps the base of the invariant.
<1>CloseJoinBase. ASSUME CloseJoin PROVE BaseInv'
  <2> USE <1>CloseJoinBase
  <2>1. PICK l \in Closed(log[db.mem]) : Down([log EXCEPT ![db.mem] = l])
    BY DEF CloseJoin
  <2>2. db.mem \in Files /\ TypeOK
    BY BaseFields DEF CloseJoin, BaseInv
  <2>3. l \in LogFile /\ l.flushed <= Len(l.recs)
    BY <2>2, ClosedLog
  <2> DEFINE L == [log EXCEPT ![db.mem] = l]
  <2>4. L \in [Files -> LogFile] /\ \A n \in Files : L[n].flushed <= Len(L[n].recs)
    BY <2>2, <2>3, <1>LogUpdate
  <2> HIDE DEF L
  <2> QED BY <2>1, <2>4, <1>DownBase DEF L

\* The death of the process keeps the base of the invariant.
<1>CrashBase. ASSUME Crash PROVE BaseInv'
  <2> USE <1>CrashBase
  <2> DEFINE l == log[db.mem]
  <2>2. db.mem \in Files /\ TypeOK
    BY BaseFields DEF Crash, BaseInv
  <2>3. l \in LogFile /\ l.flushed <= Len(l.recs)
    BY <2>2 DEF TypeOK
  <2>1. PICK n \in l.flushed .. Len(l.recs), torn \in BOOLEAN :
               Down([log EXCEPT ![db.mem] = [Prefix(l, n) EXCEPT !.torn = @ \/ torn]])
    BY DEF Crash
  <2> HIDE DEF l
  <2> DEFINE c == [Prefix(l, n) EXCEPT !.torn = @ \/ torn]
  <2>4. c \in LogFile /\ c.flushed <= Len(c.recs)
    BY <2>3, CrashedLog
  <2> HIDE DEF c
  <2> DEFINE L == [log EXCEPT ![db.mem] = c]
  <2>5. L \in [Files -> LogFile] /\ \A m \in Files : L[m].flushed <= Len(L[m].recs)
    BY <2>2, <2>4, <1>LogUpdate
  <2>6. Down(L)
    BY <2>1 DEF c
  <2> HIDE DEF L
  <2> QED BY <2>6, <2>5, <1>DownBase

\* Open keeps the base of the invariant.
<1>OpenBase. ASSUME Open PROVE BaseInv'
  <2> USE <1>OpenBase
  <2> DEFINE n == manifest.next
             E == Range(OldLog.recs)
  <2>1. /\ n \in Nat /\ n >= 2 /\ n < MaxFile /\ n \in Files /\ closer = "down" /\ closer' = "none"
        /\ E \in SUBSET Entry
        /\ versions' \in VersionType /\ manifest' \in VersionType
        /\ versions'.next = n + 2
        /\ versions'.l0 = manifest.l0 /\ versions'.l1 = manifest.l1
        /\ manifest'.l0 = manifest.l0 /\ manifest'.l1 = manifest.l1
        /\ tables' = [tables EXCEPT ![n] = E]
        /\ db' = [NoDB EXCEPT !.mem = n, !.wal = TRUE]
        /\ hist' = E \cup UNION {sst[f.number].data : f \in Range(manifest.l0) \cup manifest.l1}
    BY OpenFacts
  <2> HIDE DEF n, E
  <2>2. TypeOK /\ ControlInv /\ NumberInv
    BY DEF BaseInv
  <2>3. UNCHANGED <<log, sst, job, wr, rd, synced, mine>> /\ bg' = "run"
    BY DEF Open
  <2>4. job = NoJob /\ InFlight = {} /\ \A r \in Readers : rd[r] = IdleReader
    BY <2>1, <2>2 DEF ControlInv
  <2>5. db' \in DBType /\ db'.mem = n /\ db'.imm = 0
    <3>1. n \in 0 .. MaxFile /\ 0 \in 0 .. MaxFile
      BY <2>1, EngineBounds, SMT
    <3>2. NoDB \in DBType /\ NoDB.imm = 0
      BY <3>1 DEF NoDB, DBType
    <3> QED BY <2>1, <3>1, <3>2 DEF DBType
  <2>6. hist' \subseteq Entry
    <3>1. \A f \in Range(manifest.l0) \cup manifest.l1 : f \in FileMetaData
      BY <2>2, VersionFields, SMT DEF TypeOK, Range
    <3>2. \A f \in FileMetaData : f.number \in Files
      BY DEF FileMetaData
    <3>3. \A m \in Files : sst[m].data \subseteq Entry
      BY <2>2 DEF TypeOK, TableFile
    <3> QED BY <2>1, <3>1, <3>2, <3>3
  <2>7. TypeOK'
    <3>1. tables' \in [Files -> SUBSET Entry]
      BY <2>1, <2>2 DEF TypeOK
    <3>2. reused' \in BOOLEAN
      BY <2>2 DEF Open
    <3> QED BY <2>1, <2>2, <2>3, <2>5, <2>6, <3>1, <3>2 DEF TypeOK
  <2>8. ControlInv'
    <3>1. InFlight' = {}
      BY <2>3, <2>4 DEF InFlight
    <3>2. Cardinality(InFlight') = 0
      BY <3>1, FS_EmptySet
    <3>3. versions'.seq \in Nat /\ versions'.seq <= MaxSeq
      BY <2>1, EngineBounds, SMT DEF VersionType
    <3>4. (versions.seq + Cardinality(InFlight) <= MaxSeq)'
      BY <3>2, <3>3, EngineBounds, SMT
    <3>5. job' = NoJob /\ job'.pc = "none"
      BY <2>3, <2>4, NoJobFields
    <3>6. db'.mem # 0
      BY <2>1, <2>5, SMT
    <3> QED BY <2>1, <2>3, <3>1, <3>4, <3>5, <3>6 DEF ControlInv
  <2>9. NumberInv'
    <3>1. \A r \in Readers : rd'[r].mem = 0 /\ rd'[r].imm = 0
      BY <2>3, <2>4, SMT DEF IdleReader
    <3>2. job'.number = 0 /\ job'.seq = 0
      BY <2>3, <2>4, NoJobFields
    <3>3. versions'.seq \in Nat
      BY <2>1, EngineBounds, SMT DEF VersionType
    <3> QED BY <2>1, <2>5, <3>1, <3>2, <3>3, SMT DEF NumberInv
  <2> QED BY <2>7, <2>8, <2>9 DEF BaseInv

\* A step of the job that leaves memtables, members and the other threads alone.
<1>JobStepBase. ASSUME UNCHANGED <<log, tables, db, bg, wr, rd, closer, hist, synced, mine>>,
             sst' \in [Files -> TableFile], reused' \in BOOLEAN, versions' \in VersionType,
             manifest' \in VersionType, versions'.l0 = manifest'.l0, versions'.l1 = manifest'.l1,
             versions'.next >= versions.next, versions'.seq = versions.seq, job.pc # "none",
             job' \in JobType, job'.pc # "none",
             job'.pc \in {"take", "build", "install", "clear"} =>
                 job.pc \in {"take", "build", "install", "clear"},
             job'.pc \in {"build", "install", "clear"} => job'.table = db.imm,
             job'.pc \in {"build", "install", "open", "merge", "replace"} => job'.number # 0,
             job'.number < versions'.next, job'.seq <= versions'.seq
      PROVE  BaseInv'
  <2> USE <1>JobStepBase
  <2>1. TypeOK'
    BY DEF BaseInv, TypeOK
  <2>2. closer # "down"
    BY NoJobFields DEF BaseInv, ControlInv
  <2>3. ControlInv'
    BY <2>2 DEF BaseInv, ControlInv, InFlight
  <2>4. NumberInv'
    <3>1. \A r \in Readers : rd[r].mem \in Nat /\ rd[r].imm \in Nat
      BY EngineBounds, SMT DEF BaseInv, TypeOK, ReaderType
    <3>2. versions.next \in Nat /\ versions'.next \in Nat
      BY VersionFields DEF BaseInv, TypeOK
    <3>3. db.mem \in Nat /\ db.imm \in Nat /\ db'.mem = db.mem /\ db'.imm = db.imm
      BY BaseFields
    <3>4. NumberInv
      BY DEF BaseInv
    <3>5. \A n \in Nat : n < versions.next => n < versions'.next
      BY <3>2, SMT
    <3> QED BY <3>1, <3>2, <3>3, <3>4, <3>5 DEF NumberInv
  <2> QED BY <2>1, <2>3, <2>4 DEF BaseInv

\* The start of a flush keeps the base of the invariant.
<1>FlushTakeBase. ASSUME FlushTake PROVE BaseInv'
  <2> USE <1>FlushTakeBase
  <2>1. UNCHANGED <<log, manifest, tables, db, bg, wr, rd, closer, hist, synced, mine>> /\ job.pc = "take"
    BY DEF FlushTake
  <2>2. sst' \in [Files -> TableFile] /\ reused' \in BOOLEAN
    BY TableFacts DEF FlushTake, Truncate, BaseInv, TypeOK
  <2>3. manifest' \in VersionType /\ manifest'.l0 = versions.l0 /\ manifest'.l1 = versions.l1
    BY <2>1 DEF BaseInv, TypeOK, NumberInv
  <2>4. job.seq <= versions.seq
    BY DEF BaseInv, NumberInv
  <2> QED BY <2>1, <2>2, <2>3, <2>4, FlushTakeFacts, BaseFields, <1>JobStepBase, SMTT(30)

\* Building the table of a flush keeps the base of the invariant.
<1>FlushBuildBase. ASSUME FlushBuild PROVE BaseInv'
  <2> USE <1>FlushBuildBase
  <2>1. /\ UNCHANGED <<log, manifest, versions, tables, db, bg, wr, rd, closer, hist, synced, mine, reused>>
        /\ job.pc = "build"
    BY DEF FlushBuild, history
  <2>2. sst' \in [Files -> TableFile] /\ reused' \in BOOLEAN
    BY <2>1, TableFacts, FlushBuildFacts DEF FlushBuild, BaseInv, TypeOK
  <2>3. /\ manifest' \in VersionType /\ manifest'.l0 = versions.l0 /\ manifest'.l1 = versions.l1
        /\ versions' \in VersionType /\ versions' = versions /\ job.number < versions.next
        /\ job.number # 0
    BY <2>1 DEF BaseInv, TypeOK, NumberInv, ControlInv
  <2> QED BY <2>1, <2>2, <2>3, FlushBuildFacts, BaseFields, <1>JobStepBase, SMT

\* Recording the flushed table keeps the base of the invariant.
<1>FlushInstallBase. ASSUME FlushInstall PROVE BaseInv'
  <2> USE <1>FlushInstallBase
  <2>1. /\ UNCHANGED <<log, sst, tables, db, bg, wr, rd, closer, hist, synced, mine, reused>>
        /\ job.pc = "install"
    BY DEF FlushInstall, history
  <2>2. sst' \in [Files -> TableFile] /\ reused' \in BOOLEAN
    BY <2>1 DEF BaseInv, TypeOK
  <2>3. job.number < versions.next /\ job.seq <= versions.seq /\ job.number # 0
    BY <2>1 DEF BaseInv, NumberInv, ControlInv
  <2>4. /\ versions' \in VersionType /\ manifest' \in VersionType
        /\ versions'.l0 = manifest'.l0 /\ versions'.l1 = manifest'.l1
        /\ versions'.next = versions.next /\ versions'.seq = versions.seq
        /\ job' \in JobType /\ job'.pc = "clear" /\ job'.table = db.imm
        /\ job'.number = job.number /\ job'.seq = job.seq
    BY FlushInstallFacts
  <2> QED BY <2>1, <2>2, <2>3, <2>4, BaseFields, <1>JobStepBase, SMT

\* Dropping the flushed memtable keeps the base of the invariant.
<1>FlushClearBase. ASSUME FlushClear PROVE BaseInv'
  <2> USE <1>FlushClearBase
  <2>1. /\ UNCHANGED <<log, sst, manifest, versions, tables, bg, wr, rd, closer, hist, synced, mine, reused>>
        /\ job.pc = "clear" /\ db' = [db EXCEPT !.imm = 0] /\ job' = [job EXCEPT !.pc = "done"]
    BY DEF FlushClear, history, files
  <2>2. db \in DBType /\ job \in JobType /\ 0 \in 0 .. MaxFile
    BY BaseFields, SMT
  <2>3. db' \in DBType /\ db'.mem = db.mem /\ db'.imm = 0 /\ db'.shutting_down = db.shutting_down
    BY <2>1, <2>2 DEF DBType
  <2>4. job' \in JobType /\ job'.pc = "done" /\ job'.number = job.number /\ job'.seq = job.seq
    BY <2>1, <2>2 DEF JobType
  <2>5. TypeOK'
    BY <2>1, <2>3, <2>4 DEF BaseInv, TypeOK
  <2>6. ControlInv'
    <3>1. closer # "down"
      BY <2>1, NoJobFields DEF BaseInv, ControlInv
    <3> QED BY <3>1, <2>1, <2>3, <2>4 DEF BaseInv, ControlInv, InFlight
  <2>7. NumberInv'
    BY <2>1, <2>3, <2>4, BaseFields, SMT DEF BaseInv, NumberInv
  <2> QED BY <2>5, <2>6, <2>7 DEF BaseInv

\* Picking the inputs of a compaction keeps the base of the invariant.
<1>CompactPickBase. ASSUME CompactPick PROVE BaseInv'
  <2> USE <1>CompactPickBase
  <2>1. /\ UNCHANGED <<log, sst, manifest, tables, db, bg, wr, rd, closer, hist, synced, mine, reused>>
        /\ job.pc = "pick"
    BY DEF CompactPick, history, files
  <2>2. /\ sst' \in [Files -> TableFile] /\ reused' \in BOOLEAN /\ manifest' \in VersionType
        /\ manifest'.l0 = versions.l0 /\ manifest'.l1 = versions.l1 /\ versions \in VersionType
        /\ job.number < versions.next /\ job.seq <= versions.seq
    BY <2>1 DEF BaseInv, TypeOK, NumberInv
  <2>3. CASE job' \in JobType /\ job'.pc = "done" /\ UNCHANGED versions /\ job'.number = job.number /\ job'.seq = job.seq
    BY <2>1, <2>2, <2>3, BaseFields, <1>JobStepBase, SMT
  <2>4. CASE /\ versions.next \in Files
             /\ versions' \in VersionType /\ versions'.next = versions.next + 1 /\ versions'.seq = versions.seq
             /\ versions'.l0 = versions.l0 /\ versions'.l1 = versions.l1
             /\ job' \in JobType /\ job'.pc = "open" /\ job'.number = versions.next /\ job'.seq = job.seq
    <3>1. job'.number # 0
      BY <2>4, BaseFields, SMT
    <3> QED BY <3>1, <2>1, <2>2, <2>4, BaseFields, <1>JobStepBase, SMT
  <2> QED BY <2>3, <2>4, CompactPickFacts

\* Opening the inputs of a compaction keeps the base of the invariant.
<1>CompactOpenBase. ASSUME CompactOpen PROVE BaseInv'
  <2> USE <1>CompactOpenBase
  <2>1. /\ UNCHANGED <<log, manifest, versions, tables, db, bg, wr, rd, closer, hist, synced, mine>>
        /\ job.pc = "open"
    BY DEF CompactOpen
  <2>2. sst' \in [Files -> TableFile] /\ reused' \in BOOLEAN
    BY TableFacts, CompactOpenFacts DEF Truncate, BaseInv, TypeOK
  <2>3. /\ manifest' \in VersionType /\ manifest'.l0 = versions.l0 /\ manifest'.l1 = versions.l1
        /\ versions' \in VersionType /\ versions' = versions /\ job.number < versions.next
        /\ job.number # 0 /\ job.seq <= versions.seq
    BY <2>1 DEF BaseInv, TypeOK, NumberInv, ControlInv
  <2>4. /\ job' \in JobType /\ job'.number = job.number /\ job'.seq = job.seq
        /\ job'.pc \in {"merge", "done"}
    BY CompactOpenFacts
  <2> QED BY <2>1, <2>2, <2>3, <2>4, BaseFields, <1>JobStepBase, SMT

\* Merging the inputs keeps the base of the invariant.
<1>CompactMergeBase. ASSUME CompactMerge PROVE BaseInv'
  <2> USE <1>CompactMergeBase
  <2>1. /\ UNCHANGED <<log, manifest, versions, tables, db, bg, wr, rd, closer, hist, synced, mine, reused>>
        /\ job.pc = "merge"
    BY DEF CompactMerge, history
  <2>2. sst' \in [Files -> TableFile] /\ reused' \in BOOLEAN
    BY <2>1, TableFacts, CompactMergeFacts DEF CompactMerge, BaseInv, TypeOK
  <2>3. /\ manifest' \in VersionType /\ manifest'.l0 = versions.l0 /\ manifest'.l1 = versions.l1
        /\ versions' \in VersionType /\ versions' = versions /\ job.number < versions.next
        /\ job.number # 0
    BY <2>1 DEF BaseInv, TypeOK, NumberInv, ControlInv
  <2> QED BY <2>1, <2>2, <2>3, CompactMergeFacts, BaseFields, <1>JobStepBase, SMTT(30)

\* Replacing the inputs by the output keeps the base of the invariant.
<1>CompactReplaceBase. ASSUME CompactReplace PROVE BaseInv'
  <2> USE <1>CompactReplaceBase
  <2>1. /\ UNCHANGED <<log, sst, tables, db, bg, wr, rd, closer, hist, synced, mine, reused>>
        /\ job.pc = "replace"
    BY DEF CompactReplace, history
  <2>2. /\ sst' \in [Files -> TableFile] /\ reused' \in BOOLEAN
        /\ job.number < versions.next /\ job.seq <= versions.seq
    BY <2>1 DEF BaseInv, TypeOK, NumberInv
  <2>4. /\ versions' \in VersionType /\ manifest' \in VersionType
        /\ versions'.l0 = manifest'.l0 /\ versions'.l1 = manifest'.l1
        /\ versions'.next = versions.next /\ versions'.seq = versions.seq
        /\ job' \in JobType /\ job'.pc = "remove"
        /\ job'.number = job.number /\ job'.seq = job.seq
    BY CompactReplaceFacts
  <2> QED BY <2>1, <2>2, <2>4, BaseFields, <1>JobStepBase, SMT

\* Removing the inputs, and a job that fails, keep the base of the invariant.
<1>JobEndsBase. ASSUME CompactRemove \/ JobFails PROVE BaseInv'
  <2> USE <1>JobEndsBase
  <2>1. sst' \in [Files -> TableFile]
    <3>1. CASE CompactRemove
      BY <3>1, TableFacts DEF CompactRemove, BaseInv, TypeOK
    <3>2. CASE JobFails
      BY <3>2 DEF JobFails, files, BaseInv, TypeOK
    <3> QED BY <3>1, <3>2
  <2>2. /\ versions \in VersionType /\ manifest \in VersionType /\ manifest.l0 = versions.l0 /\ manifest.l1 = versions.l1
        /\ job.number < versions.next /\ job.seq <= versions.seq /\ reused \in BOOLEAN
    BY DEF BaseInv, TypeOK, NumberInv
  <2> QED BY <2>1, <2>2, JobEnds, BaseFields, <1>JobStepBase, SMT

\* A turn of the background thread, and the return of a job: what they leave.
<1>ThreadStepBase. ASSUME UNCHANGED <<log, sst, manifest, versions, tables, rd, hist, synced, mine, reused>>,
             db' \in DBType, db'.mem = db.mem, db'.imm = db.imm,
             db'.shutting_down = db.shutting_down, job' \in JobType, job'.number = 0,
             job'.seq = 0, closer # "down", wr' = wr \/ wr' = Woken(wr),
             closer' \in {closer, WokenCloser} \cup {"flush"},
             closer' = "flush" => closer \in {"flush", "flushing"} /\ bg' # "work",
             bg' \in {"run", "cv", "work", "exit"},
             bg' = "work" => closer \notin {"flush", "flushing", "join"},
             job'.pc # "none" <=> (bg' = "work" \/ closer' = "flushing"),
             job'.pc \in {"none", "take", "pick"}, job'.pc = "take" => db.imm # 0
      PROVE  BaseInv'
  <2> USE <1>ThreadStepBase
  <2>1. wr' \in [Writers -> WriterType] /\ InFlight' = InFlight /\ \A w \in Writers : wr'[w].key = wr[w].key
    <3>1. wr \in [Writers -> WriterType]
      BY DEF BaseInv, TypeOK
    <3>2. /\ Woken(wr) \in [Writers -> WriterType] /\ Busy(Woken(wr)) = Busy(wr)
          /\ \A w \in Writers : Woken(wr)[w].key = wr[w].key
      BY <3>1, WokenFacts, SMT
    <3>3. InFlight' = Busy(wr') /\ InFlight = Busy(wr)
      BY DEF InFlight, Busy
    <3>4. CASE wr' = wr
      BY <3>1, <3>3, <3>4
    <3>5. CASE wr' = Woken(wr)
      BY <3>2, <3>3, <3>5
    <3> QED BY <3>4, <3>5
  <2>2. closer' \in {"none", "lock", "cv", "recheck", "flush", "flushing", "join"} /\ (closer' = "none" <=> closer = "none")
    BY DEF BaseInv, TypeOK, WokenCloser
  <2>3. TypeOK'
    BY <2>1, <2>2 DEF BaseInv, TypeOK
  <2>4. ControlInv'
    <3>1. \A w \in InFlight' : wr'[w].key \in Keys
      BY <2>1 DEF BaseInv, ControlInv, InFlight
    <3>2. closer' # "down" /\ db'.mem # 0 /\ (closer' # "none" => InFlight' = {} /\ \A r \in Readers : rd'[r] = IdleReader)
      BY <2>1, <2>2, SMT DEF BaseInv, ControlInv
    <3>3. closer' # "none" => db'.shutting_down
      BY <2>2 DEF BaseInv, ControlInv
    <3>4. closer' \in {"flush", "flushing", "join"} => bg' # "work"
      BY DEF WokenCloser
    <3>5. (versions.seq + Cardinality(InFlight) <= MaxSeq)'
      BY <2>1 DEF BaseInv, ControlInv
    <3> QED BY <3>1, <3>2, <3>3, <3>4, <3>5, SMT DEF ControlInv
  <2>5. NumberInv'
    BY BaseFields, SMT DEF BaseInv, NumberInv
  <2> QED BY <2>3, <2>4, <2>5 DEF BaseInv

\* The loop of the background thread keeps the base of the invariant.
<1>BgLoopBase. ASSUME BgLoop PROVE BaseInv'
  <2> USE <1>BgLoopBase
  <2>1. /\ UNCHANGED <<log, sst, manifest, versions, tables, rd, hist, synced, mine, reused>> /\ bg = "run"
    BY DEF BgLoop, history, files
  <2>2. db \in DBType /\ job \in JobType /\ closer # "down"
    BY <2>1, BaseFields DEF BaseInv, ControlInv
  <2>3. closer = "none" \/ db.shutting_down
    BY <2>2 DEF BaseInv, ControlInv
  <2>4. CASE \/ db.shutting_down /\ bg' = "exit" /\ UNCHANGED <<db, job, wr, closer>>
             \/ bg' = "cv" /\ UNCHANGED <<db, job, wr, closer>>
    <3>1. TypeOK'
      BY <2>1, <2>4 DEF BaseInv, TypeOK
    <3>2. ControlInv'
      BY <2>1, <2>2, <2>4 DEF BaseInv, ControlInv, InFlight
    <3>3. NumberInv'
      BY <2>1, <2>4 DEF BaseInv, NumberInv
    <3> QED BY <3>1, <3>2, <3>3 DEF BaseInv
  <2>5. CASE /\ ~db.shutting_down /\ db.imm # 0 /\ db' = [db EXCEPT !.flush_scheduled = FALSE]
             /\ bg' = "work" /\ job' = [NoJob EXCEPT !.what = "flush", !.pc = "take"]
             /\ UNCHANGED <<wr, closer>>
    <3>1. job' \in JobType /\ job'.pc = "take" /\ job'.number = 0 /\ job'.seq = 0
      BY <2>5, NewJob
    <3>2. db' \in DBType /\ db'.mem = db.mem /\ db'.imm = db.imm /\ db'.shutting_down = db.shutting_down
      BY <2>2, <2>5 DEF DBType
    <3> QED BY <2>1, <2>2, <2>3, <2>5, <3>1, <3>2, <1>ThreadStepBase
  <2>6. CASE /\ ~db.shutting_down /\ db' = [db EXCEPT !.compaction_scheduled = FALSE]
             /\ bg' = "work" /\ job' = [NoJob EXCEPT !.what = "compaction", !.pc = "pick"]
             /\ UNCHANGED <<wr, closer>>
    <3>1. job' \in JobType /\ job'.pc = "pick" /\ job'.number = 0 /\ job'.seq = 0
      BY <2>6, NewJob
    <3>2. db' \in DBType /\ db'.mem = db.mem /\ db'.imm = db.imm /\ db'.shutting_down = db.shutting_down
      BY <2>2, <2>6 DEF DBType
    <3> QED BY <2>1, <2>2, <2>3, <2>6, <3>1, <3>2, <1>ThreadStepBase
  <2>7. CASE /\ ~db.shutting_down /\ db' = [db EXCEPT !.flush_scheduled = FALSE]
             /\ wr' = Woken(wr) /\ closer' = WokenCloser /\ UNCHANGED <<bg, job>>
    <3>1. closer = "none" /\ closer' = "none"
      BY <2>3, <2>7 DEF WokenCloser
    <3>2. db' \in DBType /\ db'.mem = db.mem /\ db'.imm = db.imm /\ db'.shutting_down = db.shutting_down
      BY <2>2, <2>7 DEF DBType
    <3>3. wr \in [Writers -> WriterType]
      BY DEF BaseInv, TypeOK
    <3>4. /\ Woken(wr) \in [Writers -> WriterType] /\ Busy(Woken(wr)) = Busy(wr)
          /\ \A w \in Writers : Woken(wr)[w].key = wr[w].key
      BY <3>3, WokenFacts
    <3>5. InFlight' = InFlight
      BY <2>7, <3>4 DEF InFlight, Busy
    <3>6. TypeOK'
      BY <2>1, <2>7, <3>1, <3>2, <3>4, ZenonT(30) DEF BaseInv, TypeOK
    <3>7. \A w \in InFlight' : wr'[w].key \in Keys
      BY <2>7, <3>4, <3>5 DEF BaseInv, ControlInv, InFlight
    <3>8. ControlInv'
      BY <2>1, <2>7, <3>1, <3>2, <3>5, <3>7, ZenonT(30) DEF BaseInv, ControlInv
    <3>9. NumberInv'
      BY <2>1, <2>7, <3>2 DEF BaseInv, NumberInv
    <3> QED BY <3>6, <3>8, <3>9 DEF BaseInv
  <2> QED BY <2>4, <2>5, <2>6, <2>7 DEF BgLoop

\* The end of a job keeps the base of the invariant.
<1>JobDoneBase. ASSUME JobDone PROVE BaseInv'
  <2> USE <1>JobDoneBase
  <2>1. /\ UNCHANGED <<log, sst, manifest, versions, tables, rd, hist, synced, mine, reused>> /\ job.pc = "done"
        /\ job' = NoJob
    BY DEF JobDone, history, files
  <2>2. db \in DBType /\ job \in JobType /\ closer # "down" /\ job.ok \in BOOLEAN
    BY <2>1, BaseFields, NoJobFields DEF BaseInv, ControlInv, JobType
  <2> DEFINE failed == [db EXCEPT !.bg_error = @ \/ ~job.ok]
  <2>3. failed \in DBType /\ failed.mem = db.mem /\ failed.imm = db.imm /\ failed.shutting_down = db.shutting_down
    BY <2>2 DEF DBType
  <2>4. CASE /\ bg = "work" /\ db' = [failed EXCEPT !.compaction_scheduled = @ \/ job.what = "flush"]
             /\ bg' = "run" /\ wr' = Woken(wr) /\ closer' = WokenCloser
    <3> HIDE DEF failed
    <3>1. db' \in DBType /\ db'.mem = db.mem /\ db'.imm = db.imm /\ db'.shutting_down = db.shutting_down
      BY <2>3, <2>4 DEF DBType
    <3>2. closer' # "flush" /\ closer' # "flushing"
      BY <2>4 DEF WokenCloser, BaseInv, ControlInv
    <3> QED BY <2>1, <2>2, <2>4, <3>1, <3>2, NoJobFields, <1>ThreadStepBase
  <2>5. CASE closer = "flushing" /\ db' = failed /\ closer' = "flush" /\ UNCHANGED <<bg, wr>>
    <3> HIDE DEF failed
    <3>1. bg' # "work" /\ bg' \in {"run", "cv", "work", "exit"}
      BY <2>5 DEF BaseInv, ControlInv, TypeOK
    <3> QED BY <2>1, <2>2, <2>3, <2>5, <3>1, NoJobFields, <1>ThreadStepBase
  <2> QED BY <2>4, <2>5 DEF JobDone

\* A step that only moves one reader keeps the base of the invariant.
<1>ReaderStepBase. ASSUME NEW r \in Readers, NEW x \in ReaderType, rd' = [rd EXCEPT ![r] = x],
             x.mem < versions.next, x.imm < versions.next, closer = "none",
             UNCHANGED <<files, versions, tables, db, bg, job, wr, closer, history>>
      PROVE  BaseInv'
  <2> USE <1>ReaderStepBase
  <2>1. UNCHANGED <<log, sst, manifest, hist, synced, mine, reused>>
    BY DEF files, history
  <2>2. rd' \in [Readers -> ReaderType] /\ \A q \in Readers : rd'[q] = IF q = r THEN x ELSE rd[q]
    BY DEF BaseInv, TypeOK
  <2>3. TypeOK'
    BY <2>1, <2>2 DEF BaseInv, TypeOK
  <2>4. ControlInv'
    BY <2>1 DEF BaseInv, ControlInv, InFlight
  <2>5. NumberInv'
    BY <2>1, <2>2 DEF BaseInv, NumberInv
  <2> QED BY <2>3, <2>4, <2>5 DEF BaseInv

\* The start of a Get keeps the base of the invariant.
<1>GetBase. ASSUME NEW r \in Readers, NEW k \in Keys, Get(r, k) PROVE BaseInv'
  <2> USE <1>GetBase
  <2> DEFINE x == [pc |-> "mem", key |-> k, mem |-> db.mem, imm |-> db.imm, res |-> 0,
                    snapshot |-> versions.seq, l0 |-> versions.l0, l1 |-> versions.l1]
  <2>1. /\ rd' = [rd EXCEPT ![r] = x] /\ closer = "none"
        /\ UNCHANGED <<files, versions, tables, db, bg, job, wr, closer, history>>
    BY DEF Get
  <2>2. /\ db.mem \in 0 .. MaxFile /\ db.imm \in 0 .. MaxFile /\ versions.seq \in 0 .. MaxSeq /\ 0 \in 0 .. MaxSeq
    BY BaseFields, SMT
  <2>3. versions.l0 \in Seq(FileMetaData) /\ versions.l1 \in SUBSET FileMetaData
    BY BaseFields, VersionFields
  <2>4. x \in ReaderType
    BY <2>2, <2>3 DEF ReaderType
  <2>5. x.mem < versions.next /\ x.imm < versions.next
    BY DEF BaseInv, NumberInv
  <2> HIDE DEF x
  <2> QED BY <2>1, <2>4, <2>5, <1>ReaderStepBase

\* Looking into the memtables keeps the base of the invariant.
<1>ReadMemBase. ASSUME NEW r \in Readers, ReadMem(r) PROVE BaseInv'
  <2> USE <1>ReadMemBase
  <2>1. PICK s \in 0 .. MaxSeq :
           rd' = [rd EXCEPT ![r] = [rd[r] EXCEPT !.res = s, !.pc = IF s # 0 THEN "done" ELSE "files"]]
    BY ReadMemFacts
  <2> DEFINE x == [rd[r] EXCEPT !.res = s, !.pc = IF s # 0 THEN "done" ELSE "files"]
  <2>2. rd[r] \in ReaderType /\ rd[r].mem < versions.next /\ rd[r].imm < versions.next /\ closer = "none"
    BY ReaderFields DEF ReadMem
  <2>3. x \in ReaderType /\ x.mem = rd[r].mem /\ x.imm = rd[r].imm
    BY <2>2 DEF ReaderType
  <2>4. rd' = [rd EXCEPT ![r] = x]
    BY <2>1
  <2> HIDE DEF x
  <2>5. UNCHANGED <<files, versions, tables, db, bg, job, wr, closer, history>>
    BY DEF ReadMem
  <2> QED BY <2>2, <2>3, <2>4, <2>5, <1>ReaderStepBase

\* Looking into a table leaves a well-formed reader with the same memtables.
<1>LookedType. ASSUME NEW r \in Readers, NEW n \in Files, NEW rest \in ReaderType,
             rest.mem = rd[r].mem, rest.imm = rd[r].imm, NEW x, x = Looked(r, n, rest)
      PROVE  x \in ReaderType /\ x.mem = rd[r].mem /\ x.imm = rd[r].imm
  <2> USE <1>LookedType
  <2> DEFINE s == NewestSeq(sst[n].data, rd[r].key, rd[r].snapshot)
  <2>1. sst[n].data \in SUBSET Entry
    BY DEF BaseInv, TypeOK, TableFile
  <2>2. s \in 0 .. MaxSeq
    BY <2>1, ReaderFields, NewestFacts
  <2>3. \/ x = [rd[r] EXCEPT !.pc = "error"]
        \/ x = [rd[r] EXCEPT !.res = s, !.pc = "done"]
        \/ x = rest
    BY DEF Looked
  <2> HIDE DEF s
  <2>4. rd[r] \in ReaderType
    BY ReaderFields
  <2> QED BY <2>2, <2>3, <2>4 DEF ReaderType

\* Looking into a table keeps the base of the invariant.
<1>ReadFileBase. ASSUME NEW r \in Readers, ReadFile(r) PROVE BaseInv'
  <2> USE <1>ReadFileBase
  <2>1. /\ rd[r] \in ReaderType /\ rd[r].mem < versions.next /\ rd[r].imm < versions.next /\ closer = "none"
        /\ rd[r].l0 \in Seq(FileMetaData) /\ rd[r].l1 \in SUBSET FileMetaData
    BY ReaderFields DEF ReadFile
  <2>2. UNCHANGED <<files, versions, tables, db, bg, job, wr, closer, history>>
    BY DEF ReadFile
  <2>3. SUFFICES \E x \in ReaderType : x.mem = rd[r].mem /\ x.imm = rd[r].imm /\ rd' = [rd EXCEPT ![r] = x]
    BY <2>1, <2>2, <1>ReaderStepBase
  <2>4. ASSUME NEW i \in 1 .. Len(rd[r].l0),
               rd' = [rd EXCEPT ![r] = Looked(r, rd[r].l0[i].number, [rd[r] EXCEPT !.l0 = SubSeq(rd[r].l0, 1, i - 1)])]
        PROVE  \E x \in ReaderType : x.mem = rd[r].mem /\ x.imm = rd[r].imm /\ rd' = [rd EXCEPT ![r] = x]
    <3> DEFINE q == SubSeq(rd[r].l0, 1, i - 1)
               rest == [rd[r] EXCEPT !.l0 = q]
               x == Looked(r, rd[r].l0[i].number, rest)
    <3>1. q \in Seq(FileMetaData)
      BY <2>1, SMT
    <3>2. rd[r].l0[i].number \in Files
      BY <2>1, FileFields, SMT
    <3> HIDE DEF q
    <3>3. rest \in ReaderType /\ rest.mem = rd[r].mem /\ rest.imm = rd[r].imm
      BY <2>1, <3>1 DEF ReaderType
    <3> HIDE DEF rest
    <3>4. x \in ReaderType /\ x.mem = rd[r].mem /\ x.imm = rd[r].imm
      BY <3>2, <3>3, <1>LookedType
    <3>5. rd' = [rd EXCEPT ![r] = x]
      BY <2>4 DEF rest, q
    <3> QED BY <3>4, <3>5
  <2>5. ASSUME NEW f \in rd[r].l1,
               rd' = [rd EXCEPT ![r] = Looked(r, f.number, [rd[r] EXCEPT !.l1 = rd[r].l1 \ {f}])]
        PROVE  \E x \in ReaderType : x.mem = rd[r].mem /\ x.imm = rd[r].imm /\ rd' = [rd EXCEPT ![r] = x]
    <3> DEFINE q == rd[r].l1 \ {f}
               rest == [rd[r] EXCEPT !.l1 = q]
               x == Looked(r, f.number, rest)
    <3>1. q \in SUBSET FileMetaData
      BY <2>1
    <3>2. f.number \in Files
      BY <2>1, FileFields
    <3> HIDE DEF q
    <3>3. rest \in ReaderType /\ rest.mem = rd[r].mem /\ rest.imm = rd[r].imm
      BY <2>1, <3>1 DEF ReaderType
    <3> HIDE DEF rest
    <3>4. x \in ReaderType /\ x.mem = rd[r].mem /\ x.imm = rd[r].imm
      BY <3>2, <3>3, <1>LookedType
    <3>5. rd' = [rd EXCEPT ![r] = x]
      BY <2>5 DEF rest, q
    <3> QED BY <3>4, <3>5
  <2>6. ASSUME rd' = [rd EXCEPT ![r].pc = "done"]
        PROVE  \E x \in ReaderType : x.mem = rd[r].mem /\ x.imm = rd[r].imm /\ rd' = [rd EXCEPT ![r] = x]
    <3> DEFINE x == [rd[r] EXCEPT !.pc = "done"]
    <3>1. x \in ReaderType /\ x.mem = rd[r].mem /\ x.imm = rd[r].imm
      BY <2>1 DEF ReaderType
    <3>2. rd' = [rd EXCEPT ![r] = x]
      BY <2>6
    <3> QED BY <3>1, <3>2
  <2> QED BY <2>4, <2>5, <2>6, ReadFileCases

\* The end of a Get keeps the base of the invariant.
<1>ReturnBase. ASSUME NEW r \in Readers, Return(r) PROVE BaseInv'
  <2> USE <1>ReturnBase
  <2>1. /\ rd' = [rd EXCEPT ![r] = IdleReader] /\ closer = "none"
        /\ UNCHANGED <<files, versions, tables, db, bg, job, wr, closer, history>>
    BY ReaderFields DEF Return
  <2>2. IdleReader \in ReaderType /\ IdleReader.mem = 0 /\ IdleReader.imm = 0
    BY EngineBounds, SMT DEF IdleReader, ReaderType
  <2>3. IdleReader.mem < versions.next /\ IdleReader.imm < versions.next
    BY <2>2, BaseFields, SMT
  <2> QED BY <2>1, <2>2, <2>3, <1>ReaderStepBase

\* One more writer inside a call adds at most one to their number.
<1>MovedCount. ASSUME NEW w \in Writers, NEW B \in SUBSET (InFlight \cup {w})
      PROVE  /\ Cardinality(B) <= Cardinality(InFlight \cup {w}) /\ Cardinality(B) \in Nat
             /\ Cardinality(InFlight \cup {w}) \in Nat
  <2>1. InFlight \cup {w} \in SUBSET Writers
    BY DEF InFlight
  <2>2. IsFiniteSet(InFlight \cup {w})
    BY <2>1, EngineBounds, FS_Subset
  <2> QED BY <2>2, FS_Subset, FS_CardinalityType

\* Where the writers are after MakeRoomForWrite.
<1>MakeRoomWriters. ASSUME NEW w \in Writers, NEW k \in Keys, NEW s \in BOOLEAN,
             Moves(w, k, s) \/ \E ok \in BOOLEAN : Switches(w, k, s, ok),
             versions.seq + Cardinality(InFlight \cup {w}) <= MaxSeq
      PROVE  /\ wr' \in [Writers -> WriterType] /\ \A v \in InFlight' : wr'[v].key \in Keys
             /\ versions.seq + Cardinality(InFlight') <= MaxSeq
  <2> USE <1>MakeRoomWriters
  <2>0. /\ IdleWriter \in WriterType /\ IdleWriter.pc = "idle"
        /\ \A pc \in {"write", "cv"} : [pc |-> pc, key |-> k, sync |-> s] \in WriterType
    BY DEF IdleWriter, WriterType
  <2>1. PICK x \in WriterType : /\ x.pc # "idle" => x.key \in Keys
                                /\ wr' = [wr EXCEPT ![w] = x] \/ wr' = Woken([wr EXCEPT ![w] = x])
    <3>1. CASE Moves(w, k, s)
      BY <2>0, <3>1 DEF Moves
    <3>2. CASE Switches(w, k, s, TRUE)
      BY <2>0, <3>2 DEF Switches
    <3>3. CASE Switches(w, k, s, FALSE)
      BY <2>0, <3>3 DEF Switches
    <3> QED BY <3>1, <3>2, <3>3
  <2> DEFINE W == [wr EXCEPT ![w] = x]
  <2>2. W \in [Writers -> WriterType] /\ Busy(W) \subseteq InFlight \cup {w} /\ \A v \in Busy(W) : W[v].key \in Keys
    BY <2>1, WriterMoves
  <2> HIDE DEF W
  <2>3. /\ Woken(W) \in [Writers -> WriterType] /\ Busy(Woken(W)) = Busy(W)
        /\ \A v \in Writers : Woken(W)[v].key = W[v].key
    BY <2>2, WokenFacts
  <2>4. /\ wr' \in [Writers -> WriterType] /\ Busy(wr') = Busy(W) /\ \A v \in Writers : wr'[v].key = W[v].key
    BY <2>1, <2>2, <2>3 DEF W
  <2>5. InFlight' = Busy(W) /\ Busy(W) \subseteq Writers
    BY <2>4 DEF InFlight, Busy
  <2>6. versions.seq + Cardinality(InFlight') <= MaxSeq
    <3>1. Cardinality(Busy(W)) <= Cardinality(InFlight \cup {w}) /\ Cardinality(Busy(W)) \in Nat
          /\ Cardinality(InFlight \cup {w}) \in Nat
      BY <2>2, <1>MovedCount
    <3> QED BY <3>1, <2>5, BaseFields, SMT
  <2> QED BY <2>2, <2>4, <2>5, <2>6

\* MakeRoomForWrite keeps the base of the invariant.
<1>MakeRoomBase. ASSUME NEW w \in Writers, NEW k \in Keys, NEW s \in BOOLEAN, closer = "none",
             versions.seq + Cardinality(InFlight \cup {w}) <= MaxSeq, MakeRoomForWrite(w, k, s)
      PROVE  BaseInv'
  <2> USE <1>MakeRoomBase
  <2>1. /\ Moves(w, k, s) \/ \E ok \in BOOLEAN : Switches(w, k, s, ok)
        /\ UNCHANGED <<job, rd, closer, hist, synced, mine>>
    BY MakeRoomCases
  <2>2. /\ wr' \in [Writers -> WriterType] /\ \A v \in InFlight' : wr'[v].key \in Keys
        /\ versions.seq + Cardinality(InFlight') <= MaxSeq
    BY <2>1, <1>MakeRoomWriters
  <2>3. CASE Moves(w, k, s)
    <3>1. UNCHANGED <<log, sst, manifest, versions, tables, db, bg, reused>>
      BY <2>3 DEF Moves
    <3>2. TypeOK'
      BY <2>1, <2>2, <3>1 DEF BaseInv, TypeOK
    <3>3. ControlInv'
      BY <2>1, <2>2, <3>1, ZenonT(30) DEF BaseInv, ControlInv
    <3>4. NumberInv'
      BY <2>1, <3>1 DEF BaseInv, NumberInv
    <3> QED BY <3>2, <3>3, <3>4 DEF BaseInv
  <2>4. ASSUME NEW ok \in BOOLEAN, Switches(w, k, s, ok) PROVE BaseInv'
    <3> DEFINE n == versions.next
               m == db.mem
    <3>1. /\ n \in Files /\ m \in Files /\ m # n /\ db.imm = 0 /\ tables[m] # {}
          /\ versions' \in VersionType /\ versions'.next = n + 1 /\ versions'.seq = versions.seq
          /\ versions'.l0 = versions.l0 /\ versions'.l1 = versions.l1
          /\ manifest' \in VersionType /\ manifest'.l0 = manifest.l0 /\ manifest'.l1 = manifest.l1
          /\ db' \in DBType /\ db'.mem = n /\ db'.imm = m /\ db'.shutting_down = db.shutting_down
          /\ tables' = [tables EXCEPT ![n] = {}]
      BY <2>4, SwitchFacts
    <3>2. PICK l \in LogFile : log' = [log EXCEPT ![m] = l] /\ l.flushed = Len(l.recs)
      BY <2>4, SwitchFacts
    <3>3. log' \in [Files -> LogFile] /\ \A i \in Files : log'[i].flushed <= Len(log'[i].recs)
      <4>1. l.flushed <= Len(l.recs) /\ TypeOK
        BY <3>2, LogFields, SMT DEF BaseInv
      <4> QED BY <3>1, <3>2, <4>1, <1>LogUpdate
    <3>4. sst' = sst /\ reused' \in BOOLEAN /\ bg' \in {bg, WokenBg}
      BY <2>4 DEF Switches, BaseInv, TypeOK
    <3>5. bg' \in {"run", "cv", "work", "exit"} /\ (bg' = "work" <=> bg = "work")
      BY <3>4 DEF WokenBg, BaseInv, TypeOK
    <3>6. tables' \in [Files -> SUBSET Entry] /\ tables'[m] = tables[m]
      BY <3>1 DEF BaseInv, TypeOK
    <3>7. TypeOK'
      BY <2>1, <2>2, <3>1, <3>3, <3>4, <3>5, <3>6, ZenonT(30) DEF BaseInv, TypeOK
    <3>8. ControlInv'
      <4>1. job.pc \notin {"take", "build", "install", "clear"}
        BY <3>1 DEF BaseInv, ControlInv
      <4>2. db'.mem # 0
        BY <3>1, BaseFields, SMT
      <4> QED BY <2>1, <2>2, <3>1, <3>5, <4>1, <4>2, ZenonT(30) DEF BaseInv, ControlInv
    <3>9. NumberInv'
      <4>1. \A r \in Readers : rd[r].mem \in Nat /\ rd[r].imm \in Nat
        BY EngineBounds, SMT DEF BaseInv, TypeOK, ReaderType
      <4> HIDE DEF n, m
      <4>2. n = versions.next /\ m = db.mem
        BY DEF n, m
      <4>3. db'.mem < versions'.next /\ db'.imm < versions'.next /\ job'.number < versions'.next /\ job'.seq <= versions'.seq
        BY <2>1, <3>1, <4>2, BaseFields, SMTT(30) DEF BaseInv, NumberInv
      <4>4. db'.imm # 0 => db'.imm # db'.mem /\ tables'[db'.imm] # {}
        BY <3>1, <3>6
      <4>5. \A r \in Readers : rd'[r].mem < versions'.next /\ rd'[r].imm < versions'.next
        BY <2>1, <3>1, <4>1, <4>2, BaseFields, SMTT(30) DEF BaseInv, NumberInv
      <4>6. versions'.l0 = manifest'.l0 /\ versions'.l1 = manifest'.l1
        BY <3>1 DEF BaseInv, NumberInv
      <4> QED BY <4>3, <4>4, <4>5, <4>6 DEF NumberInv
    <3> QED BY <3>7, <3>8, <3>9 DEF BaseInv
  <2> QED BY <2>1, <2>3, <2>4

\* The start of a Put keeps the base of the invariant.
<1>PutBase. ASSUME NEW w \in Writers, NEW k \in Keys, NEW s \in Syncs, Put(w, k, s)
      PROVE  BaseInv' /\ closer = "none" /\ s \in BOOLEAN /\ MakeRoomForWrite(w, k, s)
  <2> USE <1>PutBase
  <2>1. /\ closer = "none" /\ wr[w] = IdleWriter /\ versions.seq + Cardinality(InFlight) < MaxSeq
        /\ MakeRoomForWrite(w, k, s)
    BY DEF Put
  <2>2. s \in BOOLEAN
    BY KeysAssumption
  <2>3. w \notin InFlight /\ IsFiniteSet(InFlight)
    <3>1. w \notin InFlight
      BY <2>1, SMT DEF InFlight, IdleWriter
    <3>2. IsFiniteSet(Busy(wr)) /\ InFlight = Busy(wr)
      BY BusyFacts
    <3> QED BY <3>1, <3>2
  <2>4. Cardinality(InFlight \cup {w}) = Cardinality(InFlight) + 1
    BY <2>3, FS_AddElement
  <2>5. versions.seq + Cardinality(InFlight \cup {w}) <= MaxSeq
    BY <2>1, <2>4, BaseFields, SMT
  <2> QED BY <2>1, <2>2, <2>5, <1>MakeRoomBase

\* A writer that comes back from the condition variable keeps the base of the
\* invariant.
<1>RetryBase. ASSUME NEW w \in Writers, Retry(w)
      PROVE  /\ BaseInv' /\ closer = "none" /\ wr[w].key \in Keys /\ wr[w].sync \in BOOLEAN
             /\ MakeRoomForWrite(w, wr[w].key, wr[w].sync)
  <2> USE <1>RetryBase
  <2>1. w \in InFlight /\ MakeRoomForWrite(w, wr[w].key, wr[w].sync)
    BY DEF Retry, InFlight
  <2>2. closer = "none" /\ wr[w].key \in Keys /\ wr[w].sync \in BOOLEAN
    BY <2>1 DEF BaseInv, ControlInv, TypeOK, WriterType
  <2>3. InFlight \cup {w} = InFlight
    BY <2>1
  <2>4. versions.seq + Cardinality(InFlight \cup {w}) <= MaxSeq
    BY <2>3 DEF BaseInv, ControlInv
  <2> QED BY <2>1, <2>2, <2>4, <1>MakeRoomBase

\* A record appended to a log.
<1>AppendedFacts. ASSUME NEW l \in LogFile, l.flushed <= Len(l.recs), NEW e \in Entry,
             NEW sync \in BOOLEAN, NEW c, c = Appended(l, e, sync)
      PROVE  /\ c \in LogFile /\ c.flushed <= Len(c.recs)
             /\ c.flushed >= l.flushed /\ (sync => c.flushed = Len(l.recs) + 1)
             /\ Len(c.recs) = Len(l.recs) + 1 /\ c.recs[Len(l.recs) + 1] = e
             /\ \A i \in 1 .. Len(l.recs) : c.recs[i] = l.recs[i]
  <2> USE <1>AppendedFacts
  <2>1. l.recs \in Seq(Entry) /\ l.flushed \in Nat /\ Len(l.recs) \in Nat
    BY LogFields
  <2> DEFINE q == Append(l.recs, e)
             n == IF sync THEN Len(l.recs) + 1 ELSE l.flushed
  <2>2. /\ q \in Seq(Entry) /\ Len(q) = Len(l.recs) + 1 /\ q[Len(l.recs) + 1] = e
        /\ \A i \in 1 .. Len(l.recs) : q[i] = l.recs[i]
    BY <2>1, SMT
  <2>4. n \in Nat /\ n >= l.flushed /\ n <= Len(l.recs) + 1 /\ (sync => n = Len(l.recs) + 1)
    BY <2>1, SMT
  <2>5. c = [l EXCEPT !.recs = q, !.flushed = n]
    BY DEF Appended
  <2> HIDE DEF q, n
  <2>7. c \in LogFile /\ c.recs = q /\ c.flushed = n
    BY <2>2, <2>4, <2>5 DEF LogFile
  <2> QED BY <2>2, <2>4, <2>7

\* Write keeps the base of the invariant.
<1>WriteBase. ASSUME NEW w \in Writers, Write(w) PROVE BaseInv'
  <2> USE <1>WriteBase
  <2> DEFINE e == [seq |-> versions.seq + 1, key |-> wr[w].key]
             m == db.mem
  <2>1. /\ Succeeds(w, e) \/ Fails(w, e)
        /\ UNCHANGED <<sst, manifest, job, rd, closer, reused>>
        /\ e.seq = versions.seq + 1 /\ e.key = wr[w].key
    BY WriteCases
  <2>2. /\ closer = "none" /\ m \in Files /\ e \in Entry
        /\ versions' \in VersionType /\ versions'.seq = versions.seq + 1 /\ versions'.next = versions.next
        /\ versions'.l0 = versions.l0 /\ versions'.l1 = versions.l1
        /\ db' \in DBType /\ db'.mem = m /\ db'.imm = db.imm /\ db'.shutting_down = db.shutting_down
        /\ wr' \in [Writers -> WriterType] /\ \A v \in InFlight' : wr'[v].key \in Keys
        /\ versions'.seq + Cardinality(InFlight') <= MaxSeq
        /\ bg' \in {bg, WokenBg}
    BY WriteFacts
  <2> HIDE DEF e
  <2>3. TypeOK /\ ControlInv /\ NumberInv
    BY DEF BaseInv
  <2>4. log[m] \in LogFile /\ log[m].flushed <= Len(log[m].recs) /\ wr[w].sync \in BOOLEAN
    BY <2>2, <2>3 DEF TypeOK, WriterType
  <2>5. log' \in [Files -> LogFile] /\ \A n \in Files : log'[n].flushed <= Len(log'[n].recs)
    <3>1. CASE log' = log
      BY <2>3, <3>1 DEF TypeOK
    <3>2. CASE log' = [log EXCEPT ![m].torn = TRUE]
      <4> DEFINE c == [log[m] EXCEPT !.torn = TRUE]
      <4>1. c \in LogFile /\ c.flushed = log[m].flushed /\ c.recs = log[m].recs
        BY <2>4 DEF LogFile
      <4>2. log' = [log EXCEPT ![m] = c]
        BY <3>2
      <4> HIDE DEF c
      <4> QED BY <4>1, <4>2, <2>2, <2>3, <2>4, <1>LogUpdate
    <3>3. ASSUME NEW sync \in BOOLEAN, log' = [log EXCEPT ![m] = Appended(log[m], e, sync)]
          PROVE  log' \in [Files -> LogFile] /\ \A n \in Files : log'[n].flushed <= Len(log'[n].recs)
      <4> DEFINE c == Appended(log[m], e, sync)
      <4>1. c \in LogFile /\ c.flushed <= Len(c.recs)
        BY <2>2, <2>4, <1>AppendedFacts
      <4> HIDE DEF c
      <4>2. log' = [log EXCEPT ![m] = c]
        BY <3>3 DEF c
      <4> QED BY <4>1, <4>2, <2>2, <2>3, <1>LogUpdate
    <3> QED BY <2>1, <2>4, <3>1, <3>2, <3>3 DEF Succeeds, Fails
  <2>6. tables' \in [Files -> SUBSET Entry] /\ \A n \in Files : tables[n] \subseteq tables'[n]
    <3>1. tables' = [tables EXCEPT ![m] = tables[m] \cup {e}] \/ tables' = tables
      BY <2>1 DEF Succeeds, Fails
    <3>2. tables \in [Files -> SUBSET Entry]
      BY <2>3 DEF TypeOK
    <3> QED BY <2>2, <3>1, <3>2
  <2>7. hist' \subseteq Entry
    BY <2>1, <2>2, <2>3 DEF Succeeds, Fails, TypeOK
  <2>8. synced' \in [Keys -> 0 .. MaxSeq] /\ mine' \in [Keys -> 0 .. MaxSeq]
    <3>1. e.seq \in 0 .. MaxSeq /\ e.key \in Keys
      BY <2>2, EntryFields, EngineBounds, SMT
    <3>2. synced \in [Keys -> 0 .. MaxSeq] /\ mine \in [Keys -> 0 .. MaxSeq]
      BY <2>3 DEF TypeOK
    <3> QED BY <2>1, <3>1, <3>2 DEF Succeeds, Fails
  <2>9. bg' \in {"run", "cv", "work", "exit"} /\ (bg' = "work" <=> bg = "work")
    BY <2>2, <2>3 DEF WokenBg, TypeOK
  <2>10. TypeOK'
    BY <2>1, <2>2, <2>3, <2>5, <2>6, <2>7, <2>8, <2>9 DEF TypeOK
  <2>11. ControlInv'
    BY <2>1, <2>2, <2>3, <2>9 DEF ControlInv
  <2>12. NumberInv'
    <3>1. db.imm # 0 => tables'[db.imm] # {}
      BY <2>3, <2>6, BaseFields DEF NumberInv
    <3>2. manifest.l0 = versions.l0 /\ manifest.l1 = versions.l1 /\ job.seq <= versions'.seq
      BY <2>2, <2>3, BaseFields, SMT DEF NumberInv
    <3> QED BY <2>1, <2>2, <2>3, <3>1, <3>2 DEF NumberInv
  <2> QED BY <2>10, <2>11, <2>12 DEF BaseInv

\* A step that builds no table leaves the tables filled.
<1>FilledFrame. ASSUME UNCHANGED sst, job' = job \/ job'.pc \notin {"open", "merge", "replace"}
      PROVE  FilledInv'
  BY <1>FilledFrame DEF FilledInv

\* Writing one table leaves the tables filled when that one is.
<1>FilledWrites. ASSUME NEW n \in Files, NEW t \in TableFile, sst' = [sst EXCEPT ![n] = t],
             t.is = "complete" => t.data # {}, job'.pc # "open",
             job'.pc \in {"merge", "replace"} => job'.data # {}
      PROVE  FilledInv'
  <2> USE <1>FilledWrites
  <2>1. \A i \in Files : sst'[i] = IF i = n THEN t ELSE sst[i]
    BY DEF BaseInv, TypeOK
  <2> QED BY <2>1 DEF FilledInv

\* No flush or compaction writes an empty table.
<1>FilledJob. ASSUME \/ FlushTake \/ FlushBuild \/ FlushInstall \/ FlushClear \/ CompactPick \/ CompactOpen
                     \/ CompactMerge \/ CompactReplace \/ CompactRemove \/ JobFails
      PROVE  FilledInv'
  <2> USE <1>FilledJob
  <2>0. TableFile # {} /\ Partial \in TableFile /\ Partial.is = "partial"
    BY TableFacts
  <2>1. CASE FlushTake
    <3>1. sst' = [sst EXCEPT ![versions.next] = Partial]
      BY <2>1 DEF FlushTake, Truncate
    <3> QED BY <2>0, <2>1, <3>1, FlushTakeFacts, <1>FilledWrites
  <2>2. CASE FlushBuild
    <3> DEFINE t == Table(tables[job.table])
    <3>1. t \in TableFile /\ t.data # {} /\ sst' = [sst EXCEPT ![job.number] = t]
      BY <2>2, FlushBuildFacts, TableFacts DEF FlushBuild
    <3>2. job.number \in Files
      BY <2>2, BaseFields, SMT DEF BaseInv, ControlInv, Files, FlushBuild
    <3> HIDE DEF t
    <3> QED BY <2>2, <3>1, <3>2, FlushBuildFacts, <1>FilledWrites
  <2>3. CASE FlushInstall
    BY <2>3, FlushInstallFacts, <1>FilledFrame DEF FlushInstall
  <2>4. CASE FlushClear
    <3>1. job'.pc = "done" /\ UNCHANGED sst
      BY <2>4, BaseFields DEF FlushClear, JobType, files
    <3> QED BY <3>1, <1>FilledFrame
  <2>5. CASE CompactPick
    <3>1. UNCHANGED sst
      BY <2>5 DEF CompactPick, files
    <3>2. job'.pc = "done" \/ (job'.pc = "open" /\ job'.in0 = versions.l0 /\ versions.l0 # <<>>)
      BY <2>5, CompactPickFacts
    <3> QED BY <3>1, <3>2 DEF FilledInv
  <2>6. CASE CompactOpen
    <3>1. CASE job'.pc = "done" /\ UNCHANGED sst
      BY <3>1, <1>FilledFrame
    <3>2. CASE (\A f \in Inputs : sst[f.number].is = "complete") /\ Truncate(job.number)
               /\ job'.pc = "merge" /\ job'.data = InputData
      <4>1. job.in0 # <<>> /\ job.in0 \in Seq(FileMetaData)
        BY <2>6, BaseFields DEF CompactOpen, FilledInv, JobType
      <4>2. job.in0[1] \in Inputs /\ job.in0[1].number \in Files
        <5>1. 1 \in 1 .. Len(job.in0)
          BY <4>1, SMT
        <5>2. job.in0[1] \in Range(job.in0) /\ job.in0[1] \in FileMetaData
          BY <4>1, <5>1, SMT DEF Range
        <5> QED BY <5>2, FileFields DEF Inputs
      <4>3. sst[job.in0[1].number].data # {}
        BY <3>2, <4>2 DEF FilledInv
      <4>4. InputData # {}
        BY <4>2, <4>3 DEF InputData, Data
      <4>5. sst' = [sst EXCEPT ![job.number] = Partial] /\ job.number \in Files
        BY <2>6, <3>2, CompactOpenFacts DEF Truncate
      <4> QED BY <2>0, <3>2, <4>4, <4>5, <1>FilledWrites
    <3> QED BY <2>6, <3>1, <3>2, CompactOpenFacts
  <2>7. CASE CompactMerge
    <3> DEFINE t == Table(Merged(job.data))
    <3>1. job.data # {} /\ job.data \in SUBSET Entry
      BY <2>7, CompactMergeFacts DEF FilledInv, CompactMerge
    <3>2. Merged(job.data) # {}
      BY <3>1, MergedFacts
    <3>3. t \in TableFile /\ t.data # {} /\ sst' = [sst EXCEPT ![job.number] = t]
      BY <2>7, <3>2, CompactMergeFacts, TableFacts DEF CompactMerge
    <3> HIDE DEF t
    <3> QED BY <2>7, <3>2, <3>3, CompactMergeFacts, <1>FilledWrites
  <2>8. CASE CompactReplace
    BY <2>8, CompactReplaceFacts, <1>FilledFrame DEF CompactReplace
  <2>9. CASE CompactRemove
    <3>1. job'.pc = "done"
      BY <2>9, JobEnds
    <3>2. \A n \in Files : sst'[n] = sst[n] \/ sst'[n].is = "absent"
      BY <2>9, TableFacts DEF CompactRemove
    <3> QED BY <3>1, <3>2 DEF FilledInv
  <2>10. CASE JobFails
    <3>1. job'.pc = "done" /\ UNCHANGED sst
      BY <2>10, JobEnds DEF JobFails, files
    <3> QED BY <3>1, <1>FilledFrame
  <2> QED BY <2>1, <2>2, <2>3, <2>4, <2>5, <2>6, <2>7, <2>8, <2>9, <2>10, ZenonT(30)

\* Steps of the other threads.
<1>FilledOther. ASSUME \/ Open \/ Close \/ CloseWait \/ CloseFlush \/ CloseJoin \/ Crash \/ BgLoop \/ JobDone
                       \/ \E w \in Writers : Write(w) \/ \E k, s : MakeRoomForWrite(w, k, s)
                       \/ \E r \in Readers : (\E k : Get(r, k)) \/ ReadMem(r) \/ ReadFile(r) \/ Return(r)
      PROVE  FilledInv'
  <2> USE <1>FilledOther
  <2>1. CASE Open \/ Close \/ CloseWait
    BY <2>1, <1>FilledFrame DEF Open, Close, CloseWait, files
  <2>2. CASE CloseFlush
    <3>1. job' = job \/ job'.pc = "take"
      BY <2>2, NewJob DEF CloseFlush
    <3> QED BY <2>2, <3>1, <1>FilledFrame DEF CloseFlush, files
  <2>3. CASE CloseJoin \/ Crash
    BY <2>3, NoJobFields, <1>FilledFrame DEF CloseJoin, Crash, Down
  <2>4. CASE BgLoop
    <3>1. job' = job \/ job'.pc \in {"take", "pick"}
      BY <2>4, NewJob DEF BgLoop
    <3> QED BY <2>4, <3>1, <1>FilledFrame DEF BgLoop, files
  <2>5. CASE JobDone
    BY <2>5, NoJobFields, <1>FilledFrame DEF JobDone, files
  <2>6. ASSUME NEW w \in Writers, Write(w) \/ \E k, s : MakeRoomForWrite(w, k, s) PROVE FilledInv'
    <3>1. UNCHANGED <<sst, job>>
      BY <2>6 DEF Write, MakeRoomForWrite, files
    <3> QED BY <3>1, <1>FilledFrame
  <2>7. ASSUME NEW r \in Readers, (\E k : Get(r, k)) \/ ReadMem(r) \/ ReadFile(r) \/ Return(r) PROVE FilledInv'
    <3>1. UNCHANGED <<sst, job>>
      BY <2>7 DEF Get, ReadMem, ReadFile, Return, files
    <3> QED BY <3>1, <1>FilledFrame
  <2> QED BY <2>1, <2>2, <2>3, <2>4, <2>5, <2>6, <2>7

\* All steps together.
<1>1. CASE JobSteps
  <2>1. BaseInv'
    BY <1>1, <1>FlushTakeBase, <1>FlushBuildBase, <1>FlushInstallBase, <1>FlushClearBase, <1>CompactPickBase, <1>CompactOpenBase,
       <1>CompactMergeBase, <1>CompactReplaceBase, <1>JobEndsBase DEF JobSteps
  <2>2. FilledInv'
    BY <1>1, <1>FilledJob DEF JobSteps
  <2> QED BY <2>1, <2>2
<1>2. CASE Open \/ Close \/ Destructor \/ Crash \/ BgLoop \/ JobDone
  <2>1. BaseInv'
    BY <1>2, <1>OpenBase, <1>CloseBase, <1>CloseWaitBase, <1>CloseFlushBase, <1>CloseJoinBase, <1>CrashBase, <1>BgLoopBase,
       <1>JobDoneBase DEF Destructor
  <2>2. FilledInv'
    BY <1>2, <1>FilledOther DEF Destructor
  <2> QED BY <2>1, <2>2
<1>3. ASSUME NEW w \in Writers,
             (\E k \in Keys, s \in Syncs : Put(w, k, s)) \/ Retry(w) \/ Write(w)
      PROVE  BaseInv' /\ FilledInv'
  <2>1. BaseInv'
    BY <1>3, <1>PutBase, <1>RetryBase, <1>WriteBase
  <2>2. Write(w) \/ \E k, s : MakeRoomForWrite(w, k, s)
    BY <1>3 DEF Put, Retry
  <2>3. FilledInv'
    BY <2>2, <1>FilledOther
  <2> QED BY <2>1, <2>3
<1>4. ASSUME NEW r \in Readers, (\E k \in Keys : Get(r, k)) \/ ReadMem(r) \/ ReadFile(r) \/ Return(r)
      PROVE  BaseInv' /\ FilledInv'
  <2>1. BaseInv'
    BY <1>4, <1>GetBase, <1>ReadMemBase, <1>ReadFileBase, <1>ReturnBase
  <2>2. FilledInv'
    BY <1>4, <1>FilledOther
  <2> QED BY <2>1, <2>2
<1> QED BY <1>1, <1>2, <1>3, <1>4 DEF Next, Background, JobSteps

\* So does a step that changes nothing.
LEMMA BaseStutter == ASSUME BaseInv, FilledInv, UNCHANGED vars PROVE BaseInv' /\ FilledInv'
<1>1. UNCHANGED <<log, sst, manifest, versions, tables, db, bg, job, wr, rd, closer, hist, synced, mine, reused>>
  BY DEF vars, files, history
<1>2. TypeOK'
  BY <1>1 DEF BaseInv, TypeOK
<1>3. ControlInv'
  BY <1>1 DEF BaseInv, ControlInv, InFlight
<1>4. NumberInv' /\ FilledInv'
  BY <1>1 DEF BaseInv, NumberInv, FilledInv
<1> QED BY <1>2, <1>3, <1>4 DEF BaseInv

\* Types are kept: no sequence number or file number passes its bound, every file
\* a job installs has a key range, and the log is never flushed beyond its
\* records (DBImpl, VersionSet, whatever fails or dies in between).
THEOREM EngineTypes == Spec => []TypeOK
<1>1. Init => BaseInv /\ FilledInv
  <2>1. Init => FilledInv
    BY TableFacts, NoJobFields DEF Init, FilledInv
  <2> QED BY <2>1, InitBase
<1>2. BaseInv /\ FilledInv /\ [Next]_vars => BaseInv' /\ FilledInv'
  BY BaseNext, BaseStutter
<1>3. BaseInv => TypeOK
  BY DEF BaseInv
<1> QED BY <1>1, <1>2, <1>3, PTL DEF Spec
=============================================================================
