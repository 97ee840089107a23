---------------------------- MODULE LsmEngineInv ----------------------------
(***************************************************************************)
(* The inductive invariant of LsmEngine, in the parts that its properties  *)
(* rest on: who runs and which numbers are taken; which tables exist and   *)
(* what a compaction may replace; sequence numbers; the order of the       *)
(* layers; where a synced write is; what a Get has still to find.          *)
(***************************************************************************)
EXTENDS LsmEngine

\* The entries of the tables the MANIFEST lists, and of the log it names.
Data(f) == sst[f.number].data
LiveFiles == Range(versions.l0) \cup versions.l1
Live == UNION {Data(f) : f \in LiveFiles}
LogData == IF manifest.log = 0 THEN {} ELSE Range(log[manifest.log].recs)
Mem == Table0(db.mem)
Imm == Table0(db.imm)

\* Failing operations are counted.
FaultInv == faults \in Nat

Newer(A, B) == \A a \in A, b \in B : a.seq > b.seq

-----------------------------------------------------------------------------
\* What the threads may be doing: one job at a time, by the background thread
\* or the destructor; a flush has a memtable to flush; no call runs while the
\* destructor does; nothing is left in memory when the database is closed.
ControlInv ==
    /\ closer = "down" => /\ db = NoDB /\ versions = manifest /\ bg = "exit" /\ job = NoJob
                          /\ hist = {} /\ mine = [k \in Keys |-> 0]
    /\ closer # "down" => db.mem # 0
    /\ closer # "none" => InFlight = {} /\ \A r \in Readers : rd[r] = IdleReader
    /\ \A w \in InFlight : wr[w].key \in Keys
    /\ closer \notin {"none", "down"} => db.shutting_down
    /\ job.pc # "none" <=> (bg = "work" \/ closer = "flushing")
    /\ closer \in {"flush", "flushing", "join"} => bg # "work"
    /\ job.pc \in {"take", "build", "install", "clear"} => db.imm # 0
    /\ job.pc \in {"build", "install", "clear"} => job.table = db.imm
    /\ job.pc \in {"build", "install", "open", "merge", "replace"} => job.number # 0
    /\ versions.seq + Cardinality(InFlight) <= MaxSeq

\* Numbers in use are below the counter; mem_ and imm_ differ; imm_ is not empty;
\* memory and MANIFEST list the same tables.
NumberInv ==
    /\ db.mem < versions.next /\ db.imm < versions.next /\ job.number < versions.next
    /\ job.seq <= versions.seq
    /\ db.imm # 0 => db.imm # db.mem /\ tables[db.imm] # {}
    /\ \A r \in Readers : rd[r].mem < versions.next /\ rd[r].imm < versions.next
    /\ versions.l0 = manifest.l0 /\ versions.l1 = manifest.l1

\* No table is written without entries, and no compaction runs without inputs.
FilledInv ==
    /\ \A n \in Files : sst[n].is = "complete" => sst[n].data # {}
    /\ job.pc = "open" => job.in0 # <<>>
    /\ job.pc \in {"merge", "replace"} => job.data # {}

-----------------------------------------------------------------------------
\* A table is complete, not empty, and within the range its metadata states.
Sound(f) ==
    /\ sst[f.number].is = "complete" /\ Data(f) # {}
    /\ \A e \in Data(f) : f.lo <= e.key /\ e.key <= f.hi

\* No two tables of a version have one number.
DistinctNumbers ==
    LET l0 == versions.l0
    IN  /\ \A i, j \in 1 .. Len(l0) : l0[i].number = l0[j].number => i = j
        /\ \A f, g \in versions.l1 : f.number = g.number => f = g
        /\ \A i \in 1 .. Len(l0) : \A f \in versions.l1 : l0[i].number # f.number

\* The inputs of a compaction are all of L0 and what it overlaps of L1: every
\* input of L1 reaches into the range of L0, every other file of L1 is beside it.
Before(f, g) == f.hi < g.lo
PickedInputs ==
    LET L0 == Range(versions.l0)
    IN  /\ job.in0 = versions.l0 /\ versions.l0 # <<>>
        /\ job.in1 \subseteq versions.l1
        /\ \A f \in job.in1 : /\ \E a \in L0 : ~Before(f, a)
                              /\ \E a \in L0 : ~Before(a, f)
        /\ \A f \in versions.l1 \ job.in1 : \/ \A a \in L0 : Before(f, a)
                                            \/ \A a \in L0 : Before(a, f)

InputData == UNION {Data(f) : f \in Inputs}

\* What the file a job writes holds, and that it is not yet one of the MANIFEST.
JobFiles ==
    /\ job.pc \in {"build", "install", "merge", "replace"} => job.number \notin Numbers(versions)
    /\ job.pc = "install" => sst[job.number] = Table(tables[job.table])
    /\ job.pc \in {"open", "merge", "replace"} => PickedInputs
    /\ job.pc = "merge" => job.data = InputData
    /\ job.pc = "replace" => job.data = Merged(InputData) /\ sst[job.number] = Table(job.data)
    /\ job.pc = "remove" => \A f \in Inputs : f.number \notin Numbers(versions)

FileInv ==
    reused \/
    /\ \A f \in LiveFiles : Sound(f)
    /\ DistinctNumbers
    /\ JobFiles
    /\ \A f, g \in versions.l1 : f # g => Before(f, g) \/ Before(g, f)

-----------------------------------------------------------------------------
\* Sequence numbers: what is served, logged or in a table is numbered once and
\* not beyond the counters, and what is in memory or in a table is served.
JobSequence ==
    /\ job.pc \in {"install", "replace"} => manifest.seq <= job.seq
    /\ job.pc = "install" => \A e \in tables[job.table] : e.seq <= job.seq

SequenceInv ==
    reused \/
    /\ \A e, f \in hist \cup LogData \cup Live : e.seq = f.seq => e = f
    /\ closer # "down" => /\ \A e \in hist \cup LogData : e.seq <= versions.seq
                          /\ Mem \cup Imm \cup Live \subseteq hist
    /\ \A e \in Live : e.seq <= manifest.seq
    /\ manifest.seq <= versions.seq
    /\ JobSequence

\* Every write served is in memory or in a table, or a newer one of its key is;
\* a flushed memtable that is still imm_ is in a table.
ServedInv ==
    reused \/
    /\ \A e \in hist : \E x \in Mem \cup Imm \cup Live : x.key = e.key /\ x.seq >= e.seq
    /\ job.pc = "clear" => Imm \subseteq Live

-----------------------------------------------------------------------------
\* Without a failing operation the layers hold disjoint stretches of the
\* writes: the log and mem_ the newest, then imm_, then L0 from its end, then L1.
\* A flush between its two last steps has imm_ in memory and as the last table.
LayerInv ==
    LET l0 == versions.l0
    IN  reused \/ faults > 0 \/
        /\ Newer(LogData, Live)
        /\ closer # "down" => /\ manifest.log = db.mem
                              /\ LogData \subseteq Mem
                              /\ Newer(Mem, Imm \cup Live)
        /\ job.pc # "clear" => Newer(Imm, Live)
        /\ job.pc = "clear" => l0 # <<>> /\ Data(l0[Len(l0)]) = Imm
        /\ \A i \in 1 .. Len(l0) :
              /\ \A j \in 1 .. i - 1 : Newer(Data(l0[i]), Data(l0[j]))
              /\ \A f \in versions.l1 : Newer(Data(l0[i]), Data(f))

\* Without a failing operation a synced write of this process is in the part
\* of the log that left the buffer, in imm_, or in a table (or a newer one is).
Write_(s, k) == [seq |-> s, key |-> k]
SyncInv ==
    reused \/ faults > 0 \/ closer = "down" \/
    \A k \in Keys :
        \/ mine[k] = 0
        \/ \E i \in 1 .. log[db.mem].flushed : log[db.mem].recs[i] = Write_(mine[k], k)
        \/ Write_(mine[k], k) \in Imm
        \/ \E x \in Live : x.key = k /\ x.seq >= mine[k]

-----------------------------------------------------------------------------
\* A Get under way, with its state me.  What it looks for is the newest write of
\* its key up to its snapshot; the first layer on its way that has anything for
\* it has that one, unless the table was removed.
Visible(E, me) == {e \in E : e.key = me.key /\ e.seq <= me.snapshot}
Goal(me) == NewestSeq(hist, me.key, me.snapshot)
GoalIn(E, me) == Write_(Goal(me), me.key) \in E
Removed(f) == sst[f.number].is # "complete"
Has(f, me) == Covers(f, me.key) /\ (Removed(f) \/ GoalIn(Data(f), me))
HasNothing(f, me) == Removed(f) \/ Visible(Data(f), me) = {}

InMemory(me) ==
    \/ GoalIn(Table0(me.mem), me)
    \/ Visible(Table0(me.mem), me) = {} /\ GoalIn(Table0(me.imm), me)

InFiles(me) ==
    \/ \E i \in 1 .. Len(me.l0) : /\ Has(me.l0[i], me)
                                  /\ \A j \in i + 1 .. Len(me.l0) : HasNothing(me.l0[j], me)
    \/ /\ \A j \in 1 .. Len(me.l0) : HasNothing(me.l0[j], me)
       /\ \E f \in me.l1 : /\ Has(f, me)
                           /\ \A g \in me.l1 : Covers(g, me.key) => g = f

Searching(me) ==
    /\ me.res = 0
    /\ \A f \in Range(me.l0) \cup me.l1 : Removed(f) \/ Data(f) \subseteq hist
    /\ me.pc = "mem" => Table0(me.mem) \cup Table0(me.imm) \subseteq hist
    /\ \/ Goal(me) = 0
       \/ me.pc = "mem" /\ InMemory(me)
       \/ /\ me.pc = "mem" => Visible(Table0(me.mem) \cup Table0(me.imm), me) = {}
          /\ InFiles(me)

\* Without a failing operation, every Get is on its way to what it looks for,
\* and no table that a Get has yet to read is being written.
Gets == {rd[r] : r \in Readers}
ReadInv ==
    reused \/ faults > 0 \/
    /\ job.pc \in {"build", "merge"} => job.number \notin BeingRead
    /\ \A me \in Gets : /\ me.snapshot <= versions.seq
                        /\ me.pc \in {"mem", "files"} => Searching(me)
                        /\ me.pc = "done" => me.res = Goal(me)

-----------------------------------------------------------------------------
\* Together: what holds whatever fails, and what holds while nothing has failed.
BaseInv == TypeOK /\ ControlInv /\ NumberInv
EngineInv == BaseInv /\ FilledInv /\ FileInv /\ SequenceInv /\ ServedInv
LayeredInv == FaultInv /\ LayerInv /\ SyncInv /\ ReadInv

\* The inductive invariant of the engine: who runs, which numbers are taken, that live
\* tables are complete and disjoint, that sequence numbers grow, that every write is
\* found in some layer, and, while nothing has failed, that the layers are ordered,
\* synced writes are on their way to disk and every Get to its answer (all of db.cpp).
LsmInv == EngineInv /\ LayeredInv
=============================================================================
