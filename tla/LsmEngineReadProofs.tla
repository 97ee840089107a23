------------------------ MODULE LsmEngineReadProofs ------------------------
(********************************************************************************)
(* While nothing has failed the layers are ordered from newest to oldest, a     *)
(* synced write is where it can be recovered, and a Get answers its snapshot    *)
(* (LayerInv, SyncInv and ReadInv of LsmEngineInv).  Ends with the theorems     *)
(* about the whole engine.                                                      *)
(********************************************************************************)
EXTENDS LsmEngineFileProofs

\* Zenon proves every leaf that names no other prover.
USE Zenon

-----------------------------------------------------------------------------
\* The order of the layers.

\* What LayerInv says where it says something.
Ordered ==
    LET l0 == versions.l0
    IN  /\ Newer(LogData, Live)
        /\ closer # "down" => manifest.log = db.mem /\ LogData \subseteq Mem /\ Newer(Mem, Imm \cup Live)
        /\ job.pc # "clear" => Newer(Imm, Live)
        /\ job.pc = "clear" => l0 # <<>> /\ Data(l0[Len(l0)]) = Imm

\* The other half: a level-0 file is newer than the ones before it and than level
\* 1.
Levels ==
    LET l0 == versions.l0
    IN  \A i \in 1 .. Len(l0) :
              /\ \A j \in 1 .. i - 1 : Newer(Data(l0[i]), Data(l0[j]))
              /\ \A f \in versions.l1 : Newer(Data(l0[i]), Data(f))

\* The two halves are the invariant about layers.
LEMMA LayerParts == LayerInv <=> (reused \/ faults > 0 \/ (Ordered /\ Levels))
BY DEF LayerInv, Ordered, Levels

\* A run without failures so far had none before.
LEMMA NoFaults == ASSUME FaultInv, [Next]_vars, ~(faults' > 0) PROVE faults = 0 /\ faults' = 0 /\ ~(faults > 0)
BY FaultNext, SMT DEF FaultInv

-----------------------------------------------------------------------------
\* A step that fails nothing either switches memtables in full or only moves the writer.
LEMMA RoomCases ==
    ASSUME FaultInv, faults' = 0, NEW w \in Writers, NEW k \in Keys, NEW s \in BOOLEAN, MakeRoomForWrite(w, k, s)
    PROVE  /\ Moves(w, k, s) \/ Switches(w, k, s, TRUE)
           /\ UNCHANGED <<job, rd, closer, hist, synced, mine>>
<1>1. Switches(w, k, s, FALSE) => faults' = faults + 1
  BY DEF Switches
<1>3. faults' # faults + 1
  BY SMT DEF FaultInv
<1>2. ~Switches(w, k, s, FALSE)
  BY <1>1, <1>3
<1> QED BY <1>2, MakeRoomCases

\* Every step keeps the layers in order, as long as nothing fails.
LEMMA LayerNext ==
    ASSUME EngineInv, FaultInv, LayerInv, Next
    PROVE  LayerInv'
\* The same levels with the same files stay in order.
<1>SameLevels. ASSUME BaseInv, Levels, versions'.l0 = versions.l0, versions'.l1 = versions.l1,
             \A n \in Numbers(versions) : sst'[n] = sst[n]
      PROVE  Levels'
  <2> USE <1>SameLevels
  <2>1. versions.l0 \in Seq(FileMetaData)
    BY BaseFields, VersionFields
  <2>2. \A i \in 1 .. Len(versions.l0) : versions.l0[i] \in LiveFiles
    BY <2>1, SMT DEF LiveFiles, Range
  <2>3. \A f \in versions.l1 : f \in LiveFiles
    BY DEF LiveFiles
  <2>4. \A f \in LiveFiles : sst'[f.number] = sst[f.number]
    BY SameTables
  <2>5. \A i \in 1 .. Len(versions.l0) : \A j \in 1 .. i - 1 : j \in 1 .. Len(versions.l0)
    BY <2>1, SMT
  <2> QED BY <2>2, <2>3, <2>4, <2>5, ZenonT(30) DEF Levels, Newer, Data

\* The steps of a job that change no level keep the layers in order.
<1>QuietOrder. ASSUME BaseInv, FileInv, ~reused', QuietJobStep, Ordered, Levels
      PROVE  Ordered' /\ Levels'
  <2> USE <1>QuietOrder
  <2>1. /\ UNCHANGED <<manifest, closer>> /\ db'.mem = db.mem /\ job'.pc # "clear"
        /\ versions'.l0 = versions.l0 /\ versions'.l1 = versions.l1
        /\ \A n \in Numbers(versions) : sst'[n] = sst[n]
    BY QuietJob
  <2>2. /\ Live' = Live /\ LogData' = LogData /\ Mem' = Mem
        /\ \/ job.pc # "clear" /\ Imm' = Imm
           \/ job.pc = "clear" /\ Imm' = {}
    BY QuietLayers
  <2>3. Levels'
    BY <2>1, <1>SameLevels
  <2>4. Ordered'
    BY <2>1, <2>2 DEF Ordered, Newer
  <2> QED BY <2>3, <2>4

\* A flushed table becomes the last file of level 0, newer than the others
\* because the memtable was.
<1>InstallOrder. ASSUME BaseInv, FileInv, ~reused', FlushInstall, Ordered, Levels
      PROVE  Ordered' /\ Levels'
  <2> USE <1>InstallOrder
  <2>0. PICK f : f = Meta(job.number, tables[job.table])
    OBVIOUS
  <2> DEFINE s == versions.l0
             t == versions'.l0
  <2>1. /\ UNCHANGED <<sst, closer, db>> /\ f \in FileMetaData /\ sst[f.number].data = Imm
        /\ Live' = Live \cup Imm /\ LogData' = LogData /\ Mem' = Mem /\ Imm' = Imm
    BY <2>0, InstallLayers
  <2>2. /\ versions'.l0 = Append(s, f) /\ versions'.l1 = versions.l1
        /\ job'.pc = "clear" /\ manifest'.log = manifest.log
    BY <2>0, FlushInstallFacts
  <2>3. s \in Seq(FileMetaData)
    BY BaseFields, VersionFields
  <2>4. /\ Len(t) = Len(s) + 1 /\ t[Len(s) + 1] = f /\ Len(s) \in Nat
        /\ \A i \in 1 .. Len(s) : t[i] = s[i]
    BY <2>1, <2>2, <2>3, AppendFacts, SMT
  <2>5. job.pc = "install" /\ closer # "down"
    BY JobOpen DEF FlushInstall
  <2>6. Newer(Imm, Live) /\ Newer(Mem, Imm \cup Live) /\ LogData \subseteq Mem
    BY <2>5 DEF Ordered
  <2>7. t # <<>> /\ sst'[t[Len(t)].number].data = Imm'
    BY <2>1, <2>4, SMT
  <2>8. Ordered'
    <3>1. Newer(LogData', Live') /\ LogData' \subseteq Mem' /\ Newer(Mem', Imm' \cup Live')
      BY <2>1, <2>6 DEF Newer
    <3>2. manifest'.log = db'.mem
      BY <2>1, <2>2, <2>5 DEF Ordered
    <3> QED BY <2>2, <2>7, <3>1, <3>2 DEF Ordered, Newer, Data
  <2>9. Levels'
    <3>1. \A i \in 1 .. Len(s) : Data(s[i]) \subseteq Live
      BY <2>3, SMT DEF Live, LiveFiles, Range
    <3>2. \A g \in versions.l1 : Data(g) \subseteq Live
      BY DEF Live, LiveFiles
    <3> SUFFICES ASSUME NEW i \in 1 .. Len(t)
                 PROVE  /\ \A j \in 1 .. i - 1 : Newer(sst[t[i].number].data, sst[t[j].number].data)
                        /\ \A g \in versions.l1 : Newer(sst[t[i].number].data, sst[g.number].data)
      BY <2>1, <2>2 DEF Levels, Newer, Data
    <3>3. CASE i \in 1 .. Len(s)
      <4>1. \A j \in 1 .. i - 1 : j \in 1 .. Len(s)
        BY <2>4, <3>3, SMT
      <4> QED BY <2>4, <3>3, <4>1 DEF Levels, Newer, Data
    <3>4. CASE i = Len(s) + 1
      <4>1. \A j \in 1 .. i - 1 : j \in 1 .. Len(s)
        BY <2>4, <3>4, SMT
      <4>2. sst[t[i].number].data = Imm
        BY <2>1, <2>4, <3>4, SMT
      <4> QED BY <2>4, <2>6, <3>1, <3>2, <3>4, <4>1, <4>2 DEF Newer, Data
    <3> QED BY <2>4, <3>3, <3>4, SMT
  <2> QED BY <2>8, <2>9

\* A compaction empties level 0 and leaves nothing newer than what was there.
<1>ReplaceOrder. ASSUME BaseInv, FilledInv, FileInv, ~reused', CompactReplace, Ordered
      PROVE  Ordered' /\ Levels'
  <2> USE <1>ReplaceOrder
  <2>0. PICK f : f = Meta(job.number, job.data)
    OBVIOUS
  <2>1. /\ ~reused /\ UNCHANGED <<closer, db>>
        /\ Live' \subseteq Live /\ LogData' = LogData /\ Mem' = Mem /\ Imm' = Imm
    BY ReplaceLayers
  <2>2. versions'.l0 = <<>>
    BY <2>0, <2>1, ReplaceLevels, SMT
  <2>3. job'.pc = "remove" /\ manifest'.log = manifest.log
    BY CompactReplaceFacts
  <2>4. job.pc = "replace"
    BY DEF CompactReplace
  <2>5. Levels'
    <3>1. Len(versions'.l0) = 0
      BY <2>2, SMT
    <3> QED BY <3>1, SMT DEF Levels
  <2>6. Ordered'
    BY <2>1, <2>3, <2>4 DEF Ordered, Newer
  <2> QED BY <2>5, <2>6

\* After Open the memtable holds the log, which was newer than the tables.
<1>OpenOrder. ASSUME BaseInv, ~reused', Open, Ordered, Levels PROVE Ordered' /\ Levels'
  <2> USE <1>OpenOrder
  <2>1. /\ Live' = Live /\ Mem' = LogData /\ Imm' = {} /\ LogData' = {}
        /\ db'.mem = manifest'.log /\ job' = job /\ job.pc = "none" /\ UNCHANGED sst
        /\ versions'.l0 = versions.l0 /\ versions'.l1 = versions.l1
    BY OpenLayers
  <2>2. Levels'
    BY <2>1, <1>SameLevels
  <2>3. Ordered'
    BY <2>1 DEF Ordered, Newer
  <2> QED BY <2>2, <2>3

\* Shutting down or dying leaves a part of the log, still newer than the tables.
<1>DownOrder. ASSUME BaseInv, CloseJoin \/ Crash, Ordered, Levels PROVE Ordered' /\ Levels'
  <2> USE <1>DownOrder
  <2>1. /\ Live' = Live /\ LogData' \subseteq LogData /\ Mem' = {} /\ Imm' = {}
        /\ versions'.l0 = versions.l0 /\ versions'.l1 = versions.l1
    BY DownLayers
  <2>2. job'.pc = "none" /\ closer' = "down" /\ sst' = sst
    BY DownEffects, NoJobFields
  <2>3. Levels'
    BY <2>1, <2>2, <1>SameLevels
  <2>4. Ordered'
    BY <2>1, <2>2 DEF Ordered, Newer
  <2> QED BY <2>3, <2>4

\* Switching memtables keeps the layers in order.
<1>SwitchOrder. ASSUME BaseInv, ~reused', closer = "none", NEW w \in Writers, NEW k \in Keys,
             NEW s \in BOOLEAN, Switches(w, k, s, TRUE), job' = job, Ordered, Levels
      PROVE  Ordered' /\ Levels'
  <2> USE <1>SwitchOrder
  <2>1. /\ Live' = Live /\ Mem' = {} /\ Imm' = Mem /\ db.imm = 0 /\ LogData' = {} /\ manifest'.log = db'.mem
        /\ versions'.l0 = versions.l0 /\ versions'.l1 = versions.l1 /\ sst' = sst
    BY SwitchLayers
  <2>2. job.pc # "clear"
    BY <2>1, SMT DEF BaseInv, ControlInv
  <2>3. Levels'
    BY <2>1, <1>SameLevels
  <2>4. Newer(Mem, Live)
    BY DEF Ordered, Newer
  <2>5. Ordered'
    BY <2>1, <2>2, <2>4 DEF Ordered, Newer
  <2> QED BY <2>3, <2>5

\* A write puts the largest sequence number into the newest layer.
<1>WriteOrder. ASSUME BaseInv, SequenceInv, ~reused', NEW w \in Writers, Write(w),
             faults' = faults, faults \in Nat, Ordered, Levels
      PROVE  Ordered' /\ Levels'
  <2> USE <1>WriteOrder
  <2>0. PICK e : e = [seq |-> versions.seq + 1, key |-> wr[w].key]
    OBVIOUS
  <2>1. /\ Live' = Live /\ Imm' = Imm /\ e \in Entry /\ e.seq = versions.seq + 1
        /\ UNCHANGED <<sst, manifest, job, closer, reused>> /\ closer = "none"
        /\ versions'.l0 = versions.l0 /\ versions'.l1 = versions.l1
        /\ db'.mem = db.mem
        /\ LogData' \subseteq LogData \cup {e}
    BY <2>0, WriteLayers
  <2>2. \/ Mem' = Mem \cup {e}
        \/ Mem' = Mem /\ (log' = log \/ faults' = faults + 1)
    BY <2>0, WriteLayers
  <2>3. Levels'
    BY <2>1, <1>SameLevels
  <2>4. \A x \in Imm \cup Live : e.seq > x.seq
    <3>1. \A x \in Imm \cup Live : x.seq <= versions.seq
      BY <2>1 DEF SequenceInv
    <3>2. versions.seq \in Nat /\ \A x \in Imm \cup Live : x.seq \in Nat
      BY LayerTypes, EntryFields
    <3> QED BY <2>1, <3>1, <3>2, SMT
  <2>5. Newer(Mem', Imm' \cup Live') /\ Newer(LogData', Live')
    <3>1. Newer(Mem, Imm \cup Live) /\ Newer(LogData, Live) /\ Mem' \subseteq Mem \cup {e}
      BY <2>1, <2>2 DEF Ordered
    <3> QED BY <2>1, <2>4, <3>1 DEF Newer
  <2>6. LogData' \subseteq Mem'
    <3>1. LogData \subseteq Mem
      BY <2>1 DEF Ordered
    <3>2. CASE Mem' = Mem \cup {e}
      BY <2>1, <3>1, <3>2
    <3>3. CASE Mem' = Mem /\ log' = log
      BY <2>1, <3>1, <3>3 DEF LogData
    <3> QED BY <2>2, <3>2, <3>3, SMT
  <2>7. Ordered'
    BY <2>1, <2>5, <2>6 DEF Ordered, Newer, Data
  <2> QED BY <2>3, <2>7

\* All steps together.
<1> SUFFICES ASSUME ~reused', ~(faults' > 0) PROVE Ordered' /\ Levels'
  BY LayerParts DEF LayerInv, Ordered, Levels
<1>0. BaseInv /\ FilledInv /\ FileInv /\ SequenceInv
  BY DEF EngineInv
<1>1. faults = 0 /\ faults' = 0 /\ ~(faults > 0)
  BY NoFaults
<1>2. ASSUME ~reused PROVE Ordered /\ Levels
  BY <1>1, <1>2, LayerParts
<1>3. ASSUME ~reused, UNCHANGED <<sst, closer>> \/ ThreadSteps, UNCHANGED manifest,
             versions'.l0 = versions.l0, versions'.l1 = versions.l1,
             \A n \in Numbers(versions) : sst'[n] = sst[n],
             Live' = Live, LogData' = LogData, Mem' = Mem, Imm' = Imm, db'.mem = db.mem,
             job' = job \/ ThreadSteps
      PROVE  Ordered' /\ Levels'
  <2>1. Levels'
    BY <1>0, <1>2, <1>3, <1>SameLevels
  <2>2. \/ UNCHANGED <<sst, closer, job>>
        \/ /\ sst' = sst /\ closer # "down" /\ closer' # "down"
           /\ job' = job \/ (job'.pc # "clear" /\ job.pc # "clear")
    <3>1. CASE ThreadSteps
      <4>1. sst' = sst /\ closer # "down" /\ closer' # "down"
        BY <1>0, <3>1, ThreadEffects
      <4>2. /\ job' = job \/ job'.pc \in {"none", "take", "pick"}
            /\ job'.pc = job.pc \/ job.pc \in {"none", "done"}
        BY <1>0, <3>1, ThreadEffects
      <4>3. job' = job \/ (job'.pc # "clear" /\ job.pc # "clear")
        BY <4>2
      <4> QED BY <4>1, <4>3, SMT
    <3>2. CASE ~ThreadSteps
      BY <1>3, <3>2
    <3> QED BY <3>1, <3>2
  <2>3. Ordered
    BY <1>2, <1>3
  <2>4. CASE UNCHANGED <<sst, closer, job>>
    BY <1>3, <2>1, <2>3, <2>4 DEF Ordered, Newer, Data
  <2>5. CASE sst' = sst /\ closer # "down" /\ closer' # "down" /\ job' = job
    BY <1>3, <2>1, <2>3, <2>5 DEF Ordered, Newer, Data
  <2>6. CASE closer # "down" /\ closer' # "down" /\ job'.pc # "clear" /\ job.pc # "clear"
    BY <1>3, <2>1, <2>3, <2>6 DEF Ordered, Newer
  <2> QED BY <2>1, <2>2, <2>4, <2>5, <2>6
<1>4. CASE QuietJobStep
  <2>1. ~reused
    BY <1>0, <1>4, QuietJob
  <2> QED BY <1>0, <1>2, <1>4, <2>1, <1>QuietOrder
<1>5. CASE FlushInstall
  <2>1. ~reused
    BY <1>5 DEF FlushInstall, history
  <2> QED BY <1>0, <1>2, <1>5, <2>1, <1>InstallOrder
<1>6. CASE CompactReplace
  <2>1. ~reused
    BY <1>6 DEF CompactReplace, history
  <2> QED BY <1>0, <1>2, <1>6, <2>1, <1>ReplaceOrder
<1>7. CASE JobSteps
  BY <1>4, <1>5, <1>6, <1>7 DEF JobSteps, QuietJobStep
<1>8. CASE ThreadSteps
  <2>1. UNCHANGED <<sst, manifest, versions, reused>> /\ db'.mem = db.mem
    BY <1>0, <1>8, ThreadEffects
  <2>2. Live' = Live /\ LogData' = LogData /\ Mem' = Mem /\ Imm' = Imm
    BY <1>0, <1>8, ThreadLayers
  <2> QED BY <1>3, <1>8, <2>1, <2>2
<1>9. ASSUME NEW r \in Readers, ReaderSteps(r) PROVE Ordered' /\ Levels'
  <2>1. UNCHANGED <<sst, manifest, versions, db, job, closer, reused>>
    BY <1>9, ReaderEffects
  <2>2. Live' = Live /\ LogData' = LogData /\ Mem' = Mem /\ Imm' = Imm
    BY <1>0, <1>9, ReaderLayers
  <2> QED BY <1>3, <2>1, <2>2
<1>10. CASE Open
  <2>1. ~reused
    BY <1>0, <1>10, OpenLayers
  <2> QED BY <1>0, <1>2, <1>10, <2>1, <1>OpenOrder
<1>11. CASE CloseJoin \/ Crash
  <2>1. ~reused
    BY <1>0, <1>11, DownEffects
  <2> QED BY <1>0, <1>2, <1>11, <2>1, <1>DownOrder
<1>12. ASSUME NEW w \in Writers, Write(w) PROVE Ordered' /\ Levels'
  <2>1. ~reused
    BY <1>12 DEF Write
  <2> QED BY <1>0, <1>1, <1>2, <1>12, <2>1, <1>WriteOrder
<1>13. ASSUME NEW w \in Writers, NEW k \in Keys, NEW s \in BOOLEAN, closer = "none", MakeRoomForWrite(w, k, s)
       PROVE  Ordered' /\ Levels'
  <2>1. UNCHANGED <<job, closer>> /\ (Moves(w, k, s) \/ Switches(w, k, s, TRUE))
    BY <1>1, <1>13, RoomCases
  <2>2. CASE Moves(w, k, s)
    <3>1. UNCHANGED <<sst, manifest, versions, db, reused>>
      BY <2>2 DEF Moves
    <3>2. Live' = Live /\ LogData' = LogData /\ Mem' = Mem /\ Imm' = Imm
      BY <1>0, <2>2, MovesLayers
    <3> QED BY <1>3, <2>1, <3>1, <3>2
  <2>3. CASE Switches(w, k, s, TRUE)
    <3>1. ~reused
      BY <2>3 DEF Switches
    <3> QED BY <1>0, <1>2, <1>13, <2>1, <2>3, <3>1, <1>SwitchOrder
  <2> QED BY <2>1, <2>2, <2>3
<1>14. ASSUME NEW w \in Writers, WriterSteps(w) PROVE Ordered' /\ Levels'
  BY <1>12, <1>13, <1>14, SMT DEF WriterSteps
<1> QED BY <1>0, <1>7, <1>8, <1>9, <1>10, <1>11, <1>14, NextCases

-----------------------------------------------------------------------------
\* Where a synced write is.

\* A write of key k numbered s is safe: what SyncInv says of it.
Safe(s, k) ==
    \/ s = 0
    \/ \E i \in 1 .. log[db.mem].flushed : log[db.mem].recs[i] = Write_(s, k)
    \/ Write_(s, k) \in Imm
    \/ \E x \in Live : x.key = k /\ x.seq >= s

\* The invariant about synced writes says that the last one of every key is safe.
LEMMA SyncParts == SyncInv <=> (reused \/ faults > 0 \/ closer = "down" \/ \A k \in Keys : Safe(mine[k], k))
BY DEF SyncInv, Safe

\* Every step keeps synced writes safe, as long as nothing fails.
LEMMA SyncNext ==
    ASSUME EngineInv, FaultInv, LayerInv, SyncInv, Next
    PROVE  SyncInv'
\* A safe write stays safe when the log is left alone and no table entry is lost
\* without a newer one.
<1>SafeFrame. ASSUME BaseInv, NEW k \in Keys, NEW s \in Nat, Safe(s, k), log' = log,
             db'.mem = db.mem, Imm \subseteq Imm' \cup Live',
             \A e \in Live : \E x \in Live' : x \in Entry /\ x.key = e.key /\ x.seq >= e.seq
      PROVE  Safe(s, k)'
  <2> USE <1>SafeFrame
  <2>1. ASSUME NEW e \in Live, e.key = k, e.seq >= s PROVE \E x \in Live' : x.key = k /\ x.seq >= s
    <3>1. PICK x \in Live' : x \in Entry /\ x.key = e.key /\ x.seq >= e.seq
      OBVIOUS
    <3>2. x.seq \in Nat /\ e.seq \in Nat
      BY <3>1, LayerTypes, EntryFields
    <3> QED BY <2>1, <3>1, <3>2, SMT
  <2>2. ASSUME Write_(s, k) \in Live' PROVE \E x \in Live' : x.key = k /\ x.seq >= s
    BY <2>2, SMT DEF Write_
  <2> QED BY <2>1, <2>2 DEF Safe, Write_

\* Safety of a number carries over to the variable that holds it.
<1>SafeMine. ASSUME NEW k, NEW s, mine'[k] = s, Safe(s, k)' PROVE Safe(mine[k], k)'
  BY <1>SafeMine DEF Safe, Write_

\* A write leaves the last synced write of every key safe: with sync its own
\* record is out of the buffer, else it comes after the others.
<1>WriteSafe. ASSUME BaseInv, NEW w \in Writers, Write(w), faults' = faults, faults \in Nat,
             NEW k \in Keys, Safe(mine[k], k)
      PROVE  Safe(mine[k], k)'
  <2> USE <1>WriteSafe
  <2>0. PICK e : e = [seq |-> versions.seq + 1, key |-> wr[w].key]
    OBVIOUS
  <2> DEFINE m == db.mem
  <2>1. /\ Live' = Live /\ Imm' = Imm /\ e \in Entry /\ e = Write_(e.seq, e.key)
        /\ m \in Files /\ db'.mem = m
    BY <2>0, WriteLayers
  <2>2. \/ Succeeds(w, e)
        \/ mine' = mine /\ (log' = log \/ faults' = faults + 1)
    BY <2>0, WriteLayers
  <2>3. CASE mine' = mine /\ log' = log
    BY <2>1, <2>3 DEF Safe
  <2>5. faults' # faults + 1
    BY SMT
  <2>4. CASE Succeeds(w, e)
    <3>1. log[m] \in LogFile /\ log[m].flushed <= Len(log[m].recs) /\ log \in [Files -> LogFile] /\ wr[w].sync \in BOOLEAN
      BY <2>1, SMT DEF BaseInv, TypeOK, WriterType
    <3>2. PICK c : c = Appended(log[m], e, wr[w].sync)
      OBVIOUS
    <3>3. log'[m] = c
      BY <2>1, <2>4, <3>1, <3>2 DEF Succeeds
    <3>9. c \in LogFile /\ c.flushed >= log[m].flushed /\ (wr[w].sync => c.flushed = Len(log[m].recs) + 1)
          /\ c.recs[Len(log[m].recs) + 1] = e
          /\ \A i \in 1 .. Len(log[m].recs) : c.recs[i] = log[m].recs[i]
      <4>1. PICK l, y : l = log[m] /\ y = wr[w].sync
        OBVIOUS
      <4>2. l \in LogFile /\ l.flushed <= Len(l.recs) /\ y \in BOOLEAN /\ c = Appended(l, e, y) /\ e \in Entry
        BY <2>1, <3>1, <3>2, <4>1
      <4>3. c \in LogFile /\ c.flushed >= l.flushed /\ (y => c.flushed = Len(l.recs) + 1)
            /\ c.recs[Len(l.recs) + 1] = e
            /\ \A i \in 1 .. Len(l.recs) : c.recs[i] = l.recs[i]
        <5>1. l.recs \in Seq(Entry) /\ l.flushed \in Nat /\ Len(l.recs) \in Nat
          BY <4>2, LogFields
        <5>2. PICK q : q = Append(l.recs, e)
          OBVIOUS
        <5>3. q \in Seq(Entry) /\ q[Len(l.recs) + 1] = e /\ \A i \in 1 .. Len(l.recs) : q[i] = l.recs[i]
          BY <4>2, <5>1, <5>2, SMT
        <5>4. PICK n : n = IF y THEN Len(l.recs) + 1 ELSE l.flushed
          OBVIOUS
        <5>5. n \in Nat /\ n >= l.flushed /\ (y => n = Len(l.recs) + 1)
          BY <4>2, <5>1, <5>4, SMT
        <5>6. c = [l EXCEPT !.recs = q, !.flushed = n]
          BY <4>2, <5>2, <5>4 DEF Appended
        <5>7. c \in LogFile /\ c.recs = q /\ c.flushed = n
          BY <4>2, <5>3, <5>5, <5>6 DEF LogFile
        <5> QED BY <5>3, <5>5, <5>7
      <4> QED BY <4>1, <4>3
    <3>4. /\ c.flushed >= log[m].flushed /\ c.flushed \in Nat /\ (wr[w].sync => c.flushed = Len(log[m].recs) + 1)
          /\ c.recs[Len(log[m].recs) + 1] = e
          /\ \A i \in 1 .. Len(log[m].recs) : c.recs[i] = log[m].recs[i]
      BY <3>9, LogFields
    <3>5. log[m].flushed \in Nat /\ Len(log[m].recs) \in Nat
      BY <3>1, LogFields
    <3>6. ASSUME mine'[k] = mine[k] PROVE Safe(mine[k], k)'
      <4>1. ASSUME NEW i \in 1 .. log[m].flushed, log[m].recs[i] = Write_(mine[k], k)
            PROVE  \E j \in 1 .. c.flushed : c.recs[j] = Write_(mine[k], k)
        <5>1. i \in 1 .. c.flushed /\ i \in 1 .. Len(log[m].recs)
          BY <3>1, <3>4, <3>5, SMT
        <5> QED BY <3>4, <4>1, <5>1
      <4>2. PICK s : s = mine[k]
        OBVIOUS
      <4>3. Safe(s, k)'
        BY <2>1, <3>3, <4>1, <4>2 DEF Safe
      <4> QED BY <3>6, <4>2, <4>3, <1>SafeMine
    <3>7. ASSUME wr[w].sync, e.key = k, mine'[k] = e.seq PROVE Safe(mine[k], k)'
      <4>1. Len(log[m].recs) + 1 \in 1 .. c.flushed /\ c.recs[Len(log[m].recs) + 1] = Write_(e.seq, k)
        BY <2>1, <3>4, <3>5, <3>7, SMT
      <4>2. Safe(e.seq, k)'
        BY <2>1, <3>3, <4>1 DEF Safe
      <4> QED BY <3>7, <4>2, <1>SafeMine
    <3>8. mine'[k] = mine[k] \/ (wr[w].sync /\ e.key = k /\ mine'[k] = e.seq)
      <4>1. mine \in [Keys -> 0 .. MaxSeq]
        BY DEF BaseInv, TypeOK
      <4> QED BY <2>4, <4>1 DEF Succeeds
    <3> QED BY <3>6, <3>7, <3>8
  <2> QED BY <2>2, <2>3, <2>4, <2>5

\* Switching memtables makes the records of the log the immutable memtable.
<1>SwitchSafe. ASSUME BaseInv, ~reused', closer = "none", NEW w \in Writers, NEW k \in Keys,
             NEW s \in BOOLEAN, Switches(w, k, s, TRUE), Ordered, NEW q \in Keys, NEW n,
             Safe(n, q)
      PROVE  Safe(n, q)'
  <2> USE <1>SwitchSafe
  <2>1. Live' = Live /\ Imm' = Mem /\ Imm = {} /\ db.mem \in Files
    BY SwitchLayers
  <2>2. manifest.log = db.mem /\ LogData \subseteq Mem
    BY DEF Ordered
  <2>3. log[db.mem] \in LogFile /\ log[db.mem].flushed <= Len(log[db.mem].recs)
    BY <2>1 DEF BaseInv, TypeOK
  <2>4. \A i \in 1 .. log[db.mem].flushed : log[db.mem].recs[i] \in Mem
    <3> TAKE i \in 1 .. log[db.mem].flushed
    <3>1. i \in 1 .. Len(log[db.mem].recs) /\ log[db.mem].recs \in Seq(Entry)
      BY <2>3, LogFields, SMT
    <3>2. log[db.mem].recs[i] \in Range(log[db.mem].recs)
      BY <3>1, SMT DEF Range
    <3>3. LogData = Range(log[db.mem].recs)
      BY <2>1, <2>2, SMT DEF LogData, Files
    <3> QED BY <2>2, <3>2, <3>3
  <2> QED BY <2>1, <2>4 DEF Safe, Write_

\* All steps together.
<1> SUFFICES ASSUME ~reused', ~(faults' > 0), closer' # "down", NEW k \in Keys PROVE Safe(mine[k], k)'
  <2>1. (reused' \/ faults' > 0 \/ closer' = "down" \/ \A k \in Keys : Safe(mine[k], k)') => SyncInv'
    BY DEF SyncInv, Safe
  <2> QED BY <2>1
<1>0. BaseInv /\ FilledInv /\ FileInv /\ SequenceInv /\ ServedInv
  BY DEF EngineInv
<1>1. faults = 0 /\ faults' = 0 /\ ~(faults > 0)
  BY NoFaults
<1>2. ASSUME ~reused, closer # "down" PROVE Safe(mine[k], k)
  BY <1>1, <1>2, SyncParts
<1>3. mine[k] \in Nat
  BY <1>0, EngineBounds, SMT DEF BaseInv, TypeOK
<1>4. \A e \in Live : e \in Entry /\ e.key = e.key /\ e.seq >= e.seq
  BY <1>0, LayerTypes, EntryFields, SMT
<1>20. PICK s0 : s0 = mine[k]
  OBVIOUS
<1>5. ASSUME ~reused, closer # "down", UNCHANGED <<log, mine>>, db'.mem = db.mem, Imm \subseteq Imm' \cup Live', Live \subseteq Live'
      PROVE  Safe(mine[k], k)'
  <2>2. \A e \in Live : \E x \in Live' : x \in Entry /\ x.key = e.key /\ x.seq >= e.seq
    BY <1>4, <1>5
  <2>1. Safe(s0, k)'
    BY <1>0, <1>2, <1>3, <1>5, <1>20, <2>2, <1>SafeFrame
  <2> QED BY <1>5, <1>20, <2>1, <1>SafeMine
<1>6. CASE QuietJobStep
  <2>1. ~reused /\ UNCHANGED <<log, mine, closer>> /\ db'.mem = db.mem
    BY <1>0, <1>6, QuietJob
  <2>2. /\ Live' = Live
        /\ \/ job.pc # "clear" /\ Imm' = Imm
           \/ job.pc = "clear" /\ Imm' = {}
    BY <1>0, <1>6, QuietLayers
  <2>3. job.pc = "clear" => Imm \subseteq Live
    BY <1>0, <2>1 DEF ServedInv
  <2> QED BY <1>5, <2>1, <2>2, <2>3
<1>7. CASE FlushInstall
  <2>1. PICK f : f = Meta(job.number, tables[job.table])
    OBVIOUS
  <2>2. ~reused /\ UNCHANGED <<log, mine, closer, db>> /\ Live' = Live \cup Imm /\ Imm' = Imm
    BY <1>0, <1>7, <2>1, InstallLayers
  <2> QED BY <1>5, <2>2
<1>8. CASE CompactReplace
  <2>1. /\ ~reused /\ UNCHANGED <<log, mine, closer, db>> /\ Live' \subseteq Live /\ Imm' = Imm
        /\ \A e \in Live : \E x \in Live' : x.key = e.key /\ x.seq >= e.seq
    BY <1>0, <1>8, ReplaceLayers
  <2>3. \A e \in Live : \E x \in Live' : x \in Entry /\ x.key = e.key /\ x.seq >= e.seq
    BY <1>4, <2>1
  <2>2. Safe(s0, k)'
    BY <1>0, <1>2, <1>3, <1>20, <2>1, <2>3, <1>SafeFrame
  <2> QED BY <1>20, <2>1, <2>2, <1>SafeMine
<1>9. CASE JobSteps
  BY <1>6, <1>7, <1>8, <1>9 DEF JobSteps, QuietJobStep
<1>10. CASE ThreadSteps
  <2>1. UNCHANGED <<log, mine, reused>> /\ db'.mem = db.mem /\ closer # "down"
    BY <1>0, <1>10, ThreadEffects
  <2>2. Live' = Live /\ Imm' = Imm
    BY <1>0, <1>10, ThreadLayers
  <2> QED BY <1>5, <2>1, <2>2
<1>11. ASSUME NEW r \in Readers, ReaderSteps(r) PROVE Safe(mine[k], k)'
  <2>1. UNCHANGED <<log, mine, reused, db, closer>>
    BY <1>11, ReaderEffects
  <2>2. Live' = Live /\ Imm' = Imm
    BY <1>0, <1>11, ReaderLayers
  <2> QED BY <1>5, <2>1, <2>2
<1>12. CASE Open
  <2>1. mine' = mine /\ mine = [q \in Keys |-> 0]
    BY <1>0, <1>12, OpenLayers
  <2>2. mine'[k] = 0 /\ Safe(0, k)'
    BY <2>1 DEF Safe
  <2> QED BY <2>2, <1>SafeMine
<1>13. CASE CloseJoin \/ Crash
  BY <1>0, <1>13, DownEffects
<1>14. ASSUME NEW w \in Writers, Write(w) PROVE Safe(mine[k], k)'
  <2>1. ~reused /\ closer # "down"
    BY <1>0, <1>14, WriteFacts DEF Write
  <2> QED BY <1>0, <1>1, <1>2, <1>14, <2>1, <1>WriteSafe
<1>15. ASSUME NEW w \in Writers, NEW q \in Keys, NEW s \in BOOLEAN, closer = "none", MakeRoomForWrite(w, q, s)
       PROVE  Safe(mine[k], k)'
  <2>1. UNCHANGED <<mine, closer>> /\ (Moves(w, q, s) \/ Switches(w, q, s, TRUE))
    BY <1>1, <1>15, RoomCases
  <2>2. CASE Moves(w, q, s)
    <3>1. UNCHANGED <<log, db, reused>>
      BY <2>2 DEF Moves
    <3>2. Live' = Live /\ Imm' = Imm
      BY <1>0, <2>2, MovesLayers
    <3> QED BY <1>5, <1>15, <2>1, <3>1, <3>2, SMT
  <2>3. CASE Switches(w, q, s, TRUE)
    <3>1. ~reused
      BY <2>3 DEF Switches
    <3>2. Ordered /\ Safe(mine[k], k)
      BY <1>1, <1>2, <1>15, <3>1, LayerParts
    <3>3. Safe(s0, k)'
      BY <1>0, <1>15, <1>20, <2>3, <3>2, <1>SwitchSafe
    <3> QED BY <1>20, <2>1, <3>3, <1>SafeMine
  <2> QED BY <2>1, <2>2, <2>3
<1>16. ASSUME NEW w \in Writers, WriterSteps(w) PROVE Safe(mine[k], k)'
  BY <1>14, <1>15, <1>16 DEF WriterSteps
<1> QED BY <1>0, <1>9, <1>10, <1>11, <1>12, <1>13, <1>16, NextCases

-----------------------------------------------------------------------------
\* What the layers' order and the place of synced writes give.

\* The invariant gives the order in which Get searches.
LEMMA LayersFromInv ==
    ASSUME BaseInv, LayerInv, faults = 0
    PROVE  LayersOrdered
\* Layers without a common stretch are in order.
<1>NewerNotOlder. ASSUME NEW A \in SUBSET Entry, NEW B \in SUBSET Entry,
             \A b \in B : b \in A \/ \A a \in A : a.seq > b.seq
      PROVE  NotOlder(A, B)
  <2> USE <1>NewerNotOlder
  <2> SUFFICES ASSUME NEW a \in A, NEW b \in B PROVE a.seq >= b.seq \/ b \in A
    BY DEF NotOlder
  <2>1. a.seq \in Nat /\ b.seq \in Nat
    BY EntryFields
  <2> QED BY <2>1, SMT

\* All steps together.
<1> SUFFICES ASSUME ~reused, closer # "down" PROVE LayersOrdered
  BY DEF LayersOrdered
<1> DEFINE l0 == versions.l0
           L1 == UNION {Data(f) : f \in versions.l1}
<1>1. Ordered /\ Levels
  BY LayerParts, SMT
<1>2. /\ Live \in SUBSET Entry /\ Mem \in SUBSET Entry /\ Imm \in SUBSET Entry
      /\ l0 \in Seq(FileMetaData) /\ Len(l0) \in Nat
  BY LayerTypes, BaseFields, VersionFields, SMT
<1>3. \A i \in 1 .. Len(l0) : l0[i] \in LiveFiles /\ Data(l0[i]) \subseteq Live
  BY <1>2, SMT DEF LiveFiles, Live, Range
<1>4. L1 \subseteq Live /\ \A f \in versions.l1 : Data(f) \subseteq Live
  BY DEF LiveFiles, Live
<1>5. Newer(Mem, Imm \cup Live)
  BY <1>1 DEF Ordered
<1>6. \A b \in Live : b \in Imm \/ \A a \in Imm : a.seq > b.seq
  <2>1. CASE job.pc # "clear"
    BY <1>1, <2>1 DEF Ordered, Newer
  <2>2. CASE job.pc = "clear"
    <3>1. l0 # <<>> /\ Data(l0[Len(l0)]) = Imm
      BY <1>1, <2>2 DEF Ordered
    <3>2. Len(l0) \in 1 .. Len(l0)
      BY <1>2, <3>1, SMT
    <3>3. ASSUME NEW f \in LiveFiles, NEW b \in Data(f) PROVE b \in Imm \/ \A a \in Imm : a.seq > b.seq
      <4>1. CASE f \in versions.l1
        BY <1>1, <3>1, <3>2, <3>3, <4>1 DEF Levels, Newer
      <4>2. CASE f \in Range(l0)
        <5>1. PICK j \in 1 .. Len(l0) : f = l0[j]
          BY <1>2, <4>2, SMT DEF Range
        <5>2. j = Len(l0) \/ j \in 1 .. Len(l0) - 1
          BY <1>2, SMT
        <5> QED BY <1>1, <3>1, <3>2, <3>3, <5>1, <5>2 DEF Levels, Newer
      <4> QED BY <4>1, <4>2 DEF LiveFiles
    <3> QED BY <3>3 DEF Live
  <2> QED BY <2>1, <2>2
<1>7. NotOlder(Mem, Imm)
  BY <1>2, <1>5, <1>NewerNotOlder DEF Newer
<1>8. ASSUME NEW B \in SUBSET Live PROVE NotOlder(Mem \cup Imm, B)
  <2>1. \A b \in B : b \in Mem \cup Imm \/ \A a \in Mem \cup Imm : a.seq > b.seq
    BY <1>5, <1>6 DEF Newer
  <2> QED BY <1>2, <2>1, <1>NewerNotOlder
<1>9. ASSUME NEW i \in 1 .. Len(l0)
      PROVE  /\ \A j \in 1 .. i - 1 : NotOlder(Data(l0[i]), Data(l0[j]))
             /\ NotOlder(Data(l0[i]), L1)
  <2>1. Data(l0[i]) \in SUBSET Entry /\ L1 \in SUBSET Entry
    BY <1>2, <1>3, <1>4
  <2>2. ASSUME NEW j \in 1 .. i - 1 PROVE NotOlder(Data(l0[i]), Data(l0[j]))
    <3>1. j \in 1 .. Len(l0)
      BY <1>2, SMT
    <3>2. Data(l0[j]) \in SUBSET Entry
      BY <1>2, <1>3, <3>1
    <3>3. Newer(Data(l0[i]), Data(l0[j]))
      BY <1>1 DEF Levels
    <3> QED BY <2>1, <3>2, <3>3, <1>NewerNotOlder DEF Newer
  <2>3. Newer(Data(l0[i]), L1)
    BY <1>1 DEF Levels, Newer
  <2>4. NotOlder(Data(l0[i]), L1)
    BY <2>1, <2>3, <1>NewerNotOlder DEF Newer
  <2> QED BY <2>2, <2>4
<1>10. \A i \in 1 .. Len(l0) : NotOlder(Mem \cup Imm, Data(l0[i]))
  BY <1>3, <1>8
<1>11. NotOlder(Mem \cup Imm, L1)
  BY <1>4, <1>8
<1> QED BY <1>7, <1>9, <1>10, <1>11 DEF LayersOrdered, Mem, Imm, Data

\* The invariant gives that a recovery finds every synced write or a newer one.
LEMMA SyncedFromInv ==
    ASSUME BaseInv, FaultInv, LayerInv, SyncInv
    PROVE  SyncedRecoverable
\* A write that can be recovered is no newer than the newest that can.
<1>RecoverableBound. ASSUME NEW E \in SUBSET Entry, NEW e \in E, NEW k, e.key = k, NEW s \in Nat,
             e.seq >= s
      PROVE  NewestSeq(E, k, MaxSeq) >= s
  <2> USE <1>RecoverableBound
  <2>1. e.seq \in Nat /\ e.seq <= MaxSeq /\ MaxSeq \in Nat
    BY EntryFields, EngineBounds, SMT
  <2>2. NewestSeq(E, k, MaxSeq) \in Nat /\ e.seq <= NewestSeq(E, k, MaxSeq)
    BY <2>1, NewestFacts, SMT
  <2> QED BY <2>1, <2>2, SMT

\* What a recovery would find are entries, those of the tables among them.
<1>RecoverableType. Recoverable \in SUBSET Entry /\ Live \subseteq Recoverable
  <2>1. versions.l0 = manifest.l0 /\ versions.l1 = manifest.l1
    BY DEF BaseInv, NumberInv
  <2>2. Live = UNION {sst[n].data : n \in Numbers(manifest)}
    BY <2>1 DEF Live, LiveFiles, Numbers, Data
  <2>3. manifest.log \in Nat /\ manifest.log <= MaxFile
    BY BaseFields, VersionFields, SMT
  <2>4. ASSUME manifest.log # 0
        PROVE  LET l == log[manifest.log] IN Range(SubSeq(l.recs, 1, l.flushed)) \subseteq Entry
    <3>1. manifest.log \in Files
      BY <2>3, <2>4, EngineBounds, SMT DEF Files
    <3>2. log[manifest.log] \in LogFile /\ log[manifest.log].flushed <= Len(log[manifest.log].recs)
      BY <3>1 DEF BaseInv, TypeOK
    <3>3. Range(Prefix(log[manifest.log], log[manifest.log].flushed).recs) \subseteq Range(log[manifest.log].recs)
      BY <3>2, PrefixFacts, LogFields
    <3>4. Range(log[manifest.log].recs) \subseteq Entry
      BY <3>2, LogFields, RangeOfRecs
    <3> QED BY <3>3, <3>4 DEF Prefix
  <2> QED BY <2>2, <2>4, LayerTypes DEF Recoverable

\* All steps together.
<1> SUFFICES ASSUME closer # "down", ~reused, faults = 0, NEW k \in Keys
             PROVE  NewestSeq(Recoverable, k, MaxSeq) >= mine[k] \/ mine[k] \in Seqs(Table0(db.imm))
  BY DEF SyncedRecoverable
<1>1. Safe(mine[k], k)
  BY SyncParts, SMT
<1>2. Ordered
  BY LayerParts, SMT
<1>3. mine[k] \in Nat
  BY EngineBounds, SMT DEF BaseInv, TypeOK
<1>4. Recoverable \in SUBSET Entry /\ Live \subseteq Recoverable
  BY <1>RecoverableType
<1>5. CASE mine[k] = 0
  BY <1>4, <1>5, NewestFacts, EngineBounds, SMT
<1>6. ASSUME NEW i \in 1 .. log[db.mem].flushed, log[db.mem].recs[i] = Write_(mine[k], k)
      PROVE  NewestSeq(Recoverable, k, MaxSeq) >= mine[k]
  <2>1. manifest.log = db.mem /\ db.mem \in Files /\ db.mem # 0
    BY <1>2, BaseFields, SMT DEF Ordered, Files
  <2>2. log[db.mem] \in LogFile /\ log[db.mem].flushed <= Len(log[db.mem].recs)
    BY <2>1 DEF BaseInv, TypeOK
  <2>3. PICK q : q = SubSeq(log[db.mem].recs, 1, log[db.mem].flushed)
    OBVIOUS
  <2>4. Len(q) = log[db.mem].flushed /\ q[i] = log[db.mem].recs[i]
    BY <2>2, <2>3, LogFields, SMT
  <2>5. q[i] \in Range(q)
    BY <2>4, SMT DEF Range
  <2>6. Write_(mine[k], k) \in Recoverable
    BY <1>6, <2>1, <2>3, <2>4, <2>5 DEF Recoverable
  <2>7. Write_(mine[k], k).key = k /\ Write_(mine[k], k).seq = mine[k]
    BY DEF Write_
  <2>8. Write_(mine[k], k).seq >= mine[k]
    BY <1>3, <2>7, SMT
  <2> QED BY <1>3, <1>4, <2>6, <2>7, <2>8, <1>RecoverableBound
<1>7. CASE Write_(mine[k], k) \in Imm
  BY <1>7, SMT DEF Imm, Seqs, Write_
<1>8. ASSUME NEW x \in Live, x.key = k, x.seq >= mine[k] PROVE NewestSeq(Recoverable, k, MaxSeq) >= mine[k]
  BY <1>3, <1>4, <1>8, <1>RecoverableBound
<1> QED BY <1>1, <1>5, <1>6, <1>7, <1>8 DEF Safe


-----------------------------------------------------------------------------
\* What a Get under way relies on, and which steps leave it alone.

\* What ReadInv says of one Get.
Found(me) ==
    /\ me.snapshot <= versions.seq
    /\ me.pc \in {"mem", "files"} => Searching(me)
    /\ me.pc = "done" => me.res = Goal(me)

\* The invariant about reads says so of every Get, and that the running job
\* writes no file one of them holds.
LEMMA ReadParts ==
    ReadInv <=> \/ reused \/ faults > 0
                \/ /\ job.pc \in {"build", "merge"} => job.number \notin BeingRead
                   /\ \A me \in Gets : Found(me)
BY DEF ReadInv, Found

\* The fields of a Get.
LEMMA GetFields ==
    ASSUME BaseInv, NEW me \in Gets
    PROVE  /\ me \in ReaderType /\ me.snapshot \in Nat /\ me.l0 \in Seq(FileMetaData) /\ Len(me.l0) \in Nat
           /\ me.l1 \in SUBSET FileMetaData /\ me.mem \in {0} \cup Files /\ me.imm \in {0} \cup Files
           /\ me.mem < versions.next /\ me.imm < versions.next
           /\ \A i \in 1 .. Len(me.l0) : me.l0[i] \in FileMetaData /\ me.l0[i] \in Range(me.l0)
           /\ \A f \in Range(me.l0) \cup me.l1 : f.number \in BeingRead /\ f.number \in Files
           /\ Table0(me.mem) \in SUBSET Entry /\ Table0(me.imm) \in SUBSET Entry
<1>1. PICK r \in Readers : me = rd[r]
  BY DEF Gets
<1>2. /\ me \in ReaderType /\ me.mem \in 0 .. MaxFile /\ me.imm \in 0 .. MaxFile
      /\ me.snapshot \in Nat /\ me.l0 \in Seq(FileMetaData) /\ me.l1 \in SUBSET FileMetaData
      /\ me.mem < versions.next /\ me.imm < versions.next
  BY <1>1, ReaderFields
<1>3. me.mem \in {0} \cup Files /\ me.imm \in {0} \cup Files
  BY <1>2, EngineBounds, SMT DEF Files
<1>4. Len(me.l0) \in Nat /\ \A i \in 1 .. Len(me.l0) : me.l0[i] \in FileMetaData /\ me.l0[i] \in Range(me.l0)
  BY <1>2, SMT DEF Range
<1>5. Range(me.l0) \subseteq FileMetaData
  BY <1>2, SMT DEF Range
<1>6. \A f \in Range(me.l0) \cup me.l1 : f.number \in BeingRead /\ f.number \in Files
  BY <1>1, <1>2, <1>5, FileFields, SMT DEF BeingRead
<1>7. Table0(me.mem) \in SUBSET Entry /\ Table0(me.imm) \in SUBSET Entry
  BY <1>3 DEF Table0, BaseInv, TypeOK
<1> QED BY <1>2, <1>3, <1>4, <1>6, <1>7

\* A write numbered after the snapshot does not change what a Get looks for.
LEMMA SameGoal ==
    ASSUME BaseInv, BaseInv', NEW me \in Gets, hist \subseteq hist', \A e \in hist' \ hist : e.seq > me.snapshot
    PROVE  Goal(me)' = Goal(me)
<1>1. hist \in SUBSET Entry /\ hist' \in SUBSET Entry
  BY LayerTypes DEF BaseInv, TypeOK
<1>2. me.snapshot \in Nat
  BY GetFields
<1>3. PICK n : n = NewestSeq(hist, me.key, me.snapshot)
  OBVIOUS
<1>4. /\ n \in Nat /\ n <= me.snapshot /\ (n # 0 => Write_(n, me.key) \in hist)
      /\ \A e \in hist : e.key = me.key /\ e.seq <= me.snapshot => e.seq <= n
  BY <1>1, <1>2, <1>3, NewestFacts, EngineBounds, SMT
<1>5. \A e \in hist' : e.key = me.key /\ e.seq <= me.snapshot => e.seq <= n
  <2> TAKE e \in hist'
  <2>1. e.seq \in Nat
    BY <1>1, EntryFields
  <2> QED BY <1>2, <1>4, <2>1, SMT
<1>6. NewestSeq(hist', me.key, me.snapshot) = n
  <2>1. CASE n # 0
    BY <1>1, <1>2, <1>4, <1>5, <2>1, NewestIs
  <2>2. CASE n = 0
    <3>1. \A e \in hist' : e.key = me.key => e.seq > me.snapshot
      BY <1>1, <1>2, <1>5, <2>2, EntryFields, SMT
    <3> QED BY <1>1, <1>2, <2>2, <3>1, NewestNone
  <2> QED BY <2>1, <2>2
<1> QED BY <1>3, <1>6 DEF Goal

\* A step under which a Get keeps finding what it looks for: tables it has yet to
\* read stay or go, memtables and served writes only gain what is newer than the snapshot.
Harmless(me) ==
    /\ hist \subseteq hist' /\ \A e \in hist' \ hist : e.seq > me.snapshot
    /\ \A n \in BeingRead : sst'[n] = sst[n] \/ sst'[n].is # "complete"
    /\ \A n \in {me.mem, me.imm} \ {0} :
          tables[n] \subseteq tables'[n] /\ \A e \in tables'[n] \ tables[n] : e \in hist' /\ e.seq > me.snapshot

\* After a harmless step the files of a Get hold what they held or are gone.
LEMMA HarmlessFiles ==
    ASSUME BaseInv, BaseInv', NEW me \in Gets, Harmless(me)
    PROVE  /\ \A f \in Range(me.l0) \cup me.l1 :
                 /\ Removed(f)' \/ (Data(f)' = Data(f) /\ Removed(f)' = Removed(f))
                 /\ Has(f, me) => Has(f, me)'
                 /\ HasNothing(f, me) => HasNothing(f, me)'
           /\ InFiles(me) => InFiles(me)'
<1>1. Goal(me)' = Goal(me)
  BY SameGoal DEF Harmless
<1>2. ASSUME NEW f \in Range(me.l0) \cup me.l1
      PROVE  /\ Removed(f)' \/ (Data(f)' = Data(f) /\ Removed(f)' = Removed(f))
             /\ Has(f, me) => Has(f, me)'
             /\ HasNothing(f, me) => HasNothing(f, me)'
  <2>1. f.number \in BeingRead
    BY GetFields
  <2>2. sst'[f.number] = sst[f.number] \/ sst'[f.number].is # "complete"
    BY <2>1 DEF Harmless
  <2>3. Removed(f)' \/ (Data(f)' = Data(f) /\ Removed(f)' = Removed(f))
    BY <2>2 DEF Removed, Data
  <2>4. Has(f, me) => Has(f, me)'
    BY <1>1, <2>3 DEF Has, GoalIn
  <2>5. HasNothing(f, me) => HasNothing(f, me)'
    BY <2>3 DEF HasNothing, Visible
  <2> QED BY <2>3, <2>4, <2>5
<1>3. /\ \A i \in 1 .. Len(me.l0) : me.l0[i] \in Range(me.l0)
      /\ Len(me.l0) \in Nat
  BY GetFields
<1>4. \A i \in 1 .. Len(me.l0) : \A j \in i + 1 .. Len(me.l0) : j \in 1 .. Len(me.l0)
  BY <1>3, SMT
<1>5. InFiles(me) => InFiles(me)'
  <2>1. ASSUME NEW i \in 1 .. Len(me.l0), Has(me.l0[i], me), \A j \in i + 1 .. Len(me.l0) : HasNothing(me.l0[j], me)
        PROVE  Has(me.l0[i], me)' /\ \A j \in i + 1 .. Len(me.l0) : HasNothing(me.l0[j], me)'
    BY <1>2, <1>3, <1>4, <2>1
  <2>2. ASSUME \A j \in 1 .. Len(me.l0) : HasNothing(me.l0[j], me) PROVE \A j \in 1 .. Len(me.l0) : HasNothing(me.l0[j], me)'
    BY <1>2, <1>3, <2>2
  <2>3. ASSUME NEW f \in me.l1, Has(f, me) PROVE Has(f, me)'
    BY <1>2, <2>3
  <2> QED BY <2>1, <2>2, <2>3 DEF InFiles
<1> QED BY <1>2, <1>5

\* After a harmless step its memtables show it what they showed.
LEMMA HarmlessMemory ==
    ASSUME BaseInv, BaseInv', NEW me \in Gets, Harmless(me), NEW n \in {me.mem, me.imm}
    PROVE  /\ Table0(n) \subseteq Table0(n)' /\ Visible(Table0(n)', me) = Visible(Table0(n), me)
           /\ Table0(n) \subseteq hist => Table0(n)' \subseteq hist'
<1>0. n \in {0} \cup Files /\ me.snapshot \in Nat /\ n < versions.next
  BY GetFields
<1>1. CASE n = 0
  BY <1>1 DEF Table0
<1>2. CASE n # 0
  <2>1. Table0(n) = tables[n] /\ Table0(n)' = tables'[n]
    BY <1>2 DEF Table0
  <2>2. /\ tables[n] \subseteq tables'[n] /\ hist \subseteq hist'
        /\ \A e \in tables'[n] \ tables[n] : e \in hist' /\ e.seq > me.snapshot
    BY <1>2 DEF Harmless
  <2>3. tables'[n] \in SUBSET Entry
    BY <1>0, <1>2 DEF BaseInv, TypeOK
  <2>4. \A e \in tables'[n] : e.seq <= me.snapshot => e \in tables[n]
    BY <1>0, <2>2, <2>3, EntryFields, SMT
  <2> QED BY <2>1, <2>2, <2>4 DEF Visible
<1> QED BY <1>1, <1>2

\* A harmless step leaves the search on its way.
LEMMA HarmlessFound ==
    ASSUME BaseInv, BaseInv', NEW me \in Gets, Harmless(me), versions.seq <= versions'.seq, Found(me)
    PROVE  Found(me)'
<1>1. Goal(me)' = Goal(me)
  BY SameGoal DEF Harmless
<1>2. me.snapshot <= versions'.seq
  <2>1. me.snapshot \in Nat /\ versions.seq \in Nat /\ versions'.seq \in Nat
    <3>1. versions \in VersionType /\ versions' \in VersionType
      BY DEF BaseInv, TypeOK
    <3> QED BY <3>1, GetFields, VersionFields
  <2> QED BY <2>1, SMT DEF Found
<1>3. ASSUME Searching(me) PROVE Searching(me)'
  <2>1. /\ Table0(me.mem) \subseteq Table0(me.mem)' /\ Visible(Table0(me.mem)', me) = Visible(Table0(me.mem), me)
        /\ Table0(me.mem) \subseteq hist => Table0(me.mem)' \subseteq hist'
    BY HarmlessMemory
  <2>2. /\ Table0(me.imm) \subseteq Table0(me.imm)' /\ Visible(Table0(me.imm)', me) = Visible(Table0(me.imm), me)
        /\ Table0(me.imm) \subseteq hist => Table0(me.imm)' \subseteq hist'
    BY HarmlessMemory
  <2>3. ASSUME NEW f \in Range(me.l0) \cup me.l1 PROVE Removed(f)' \/ Data(f)' \subseteq hist'
    BY <1>3, <2>3, HarmlessFiles DEF Searching, Harmless
  <2>4. me.pc = "mem" => (Table0(me.mem) \cup Table0(me.imm))' \subseteq hist'
    BY <1>3, <2>1, <2>2 DEF Searching
  <2>5. InMemory(me) => InMemory(me)'
    BY <1>1, <2>1, <2>2 DEF InMemory, GoalIn
  <2>6. Visible(Table0(me.mem) \cup Table0(me.imm), me) = {} => Visible((Table0(me.mem) \cup Table0(me.imm))', me) = {}
    BY <2>1, <2>2 DEF Visible
  <2>7. InFiles(me) => InFiles(me)'
    BY HarmlessFiles
  <2> QED BY <1>1, <1>3, <2>3, <2>4, <2>5, <2>6, <2>7 DEF Searching, Visible
<1> QED BY <1>1, <1>2, <1>3 DEF Found

-----------------------------------------------------------------------------
\* Steps of others under a Get.

\* No Get is started or moves, and none is disturbed.
LEMMA ReadFrame ==
    ASSUME BaseInv, BaseInv', FaultInv, ReadInv, [Next]_vars, rd' = rd, reused => reused',
           ~reused' /\ faults' = 0 =>
               /\ \A me \in Gets : Harmless(me)
               /\ versions.seq <= versions'.seq
               /\ job'.pc \in {"build", "merge"} => job'.number \notin BeingRead
    PROVE  ReadInv'
<1>1. Gets' = Gets /\ BeingRead' = BeingRead
  BY DEF Gets, BeingRead
<1>2. ASSUME ~reused', ~(faults' > 0)
      PROVE  /\ job'.pc \in {"build", "merge"} => job'.number \notin BeingRead'
             /\ \A me \in Gets' : Found(me)'
  <2>1. faults = 0 /\ faults' = 0 /\ ~(faults > 0)
    BY <1>2, NoFaults
  <2>2. \A me \in Gets : Found(me)
    BY <1>2, <2>1, ReadParts
  <2>3. \A me \in Gets : Found(me)'
    BY <1>2, <2>1, <2>2, HarmlessFound
  <2> QED BY <1>1, <1>2, <2>1, <2>3
<1>3. (\/ reused' \/ faults' > 0
       \/ /\ job'.pc \in {"build", "merge"} => job'.number \notin BeingRead'
          /\ \A me \in Gets' : Found(me)') => ReadInv'
  BY DEF ReadInv, Found
<1> QED BY <1>2, <1>3

\* A step that leaves history and memtables alone is harmless when it only
\* removes files.
LEMMA StillHarmless ==
    ASSUME NEW me, hist' = hist, tables' = tables, \A n \in BeingRead : sst'[n] = sst[n] \/ sst'[n].is # "complete"
    PROVE  Harmless(me)
BY DEF Harmless

\* A flush or a compaction: the table it writes is not one a Get has yet to read.
LEMMA JobReads ==
    ASSUME BaseInv, BaseInv', FilledInv, FileInv, FaultInv, ReadInv, Next, JobSteps
    PROVE  ReadInv'
<1>1. ASSUME NEW n \in Files, NEW t, sst' = [sst EXCEPT ![n] = t], n \notin BeingRead
      PROVE  \A m \in BeingRead : sst'[m] = sst[m]
  <2>1. BeingRead \subseteq Files
    <3>1. ASSUME NEW r \in Readers, NEW f \in Range(rd[r].l0) \cup rd[r].l1 PROVE f.number \in Files
      <4>1. rd[r] \in Gets
        BY DEF Gets
      <4> QED BY <4>1, GetFields
    <3> QED BY <3>1, SMT DEF BeingRead
  <2> QED BY <1>1, <2>1, OtherFiles
<1>2. ASSUME ~reused', faults' = 0
      PROVE  job.pc \in {"build", "merge"} => job.number \notin BeingRead
  <2>1. ~(faults > 0) /\ (JobSteps => (reused => reused'))
    <3>1. faults = 0
      BY <1>2, NoFaults, SMT
    <3>2. JobSteps => (reused => reused')
      BY DEF JobSteps, FlushTake, FlushBuild, FlushInstall, FlushClear, CompactPick, CompactOpen,
         CompactMerge, CompactReplace, CompactRemove, JobFails, Truncate, history
    <3> QED BY <3>1, <3>2, SMT
  <2> QED BY <1>2, <2>1, ReadParts
<1>3. CASE FlushTake
  <2>1. versions.next \in Files /\ versions'.seq = versions.seq /\ job'.pc = "build" /\ job'.number = versions.next
    BY <1>3, FlushTakeFacts
  <2>2. /\ UNCHANGED <<hist, tables, rd>> /\ Truncate(versions.next)
        /\ sst' = [sst EXCEPT ![versions.next] = Partial]
    BY <1>3 DEF FlushTake, Truncate
  <2>3. ~reused' => versions.next \notin BeingRead
    BY <2>1, <2>2, Fresh
  <2>4. reused => reused'
    BY <2>2 DEF Truncate
  <2>5. ~reused' => \A m \in BeingRead : sst'[m] = sst[m]
    BY <1>1, <2>1, <2>2, <2>3
  <2>6. ~reused' => \A me \in Gets : Harmless(me)
    BY <2>2, <2>5, StillHarmless
  <2>7. versions.seq <= versions'.seq
    BY <2>1, BaseFields, SMT
  <2> QED BY <2>1, <2>2, <2>3, <2>4, <2>6, <2>7, ReadFrame
<1>4. CASE FlushBuild
  <2>1. job.number \in Files /\ job'.pc = "install" /\ job.pc = "build" /\ versions' = versions
    <3>1. job.number # 0 /\ job.number \in Nat /\ job.number <= MaxFile
      BY <1>4, BaseFields DEF FlushBuild, BaseInv, ControlInv
    <3> QED BY <1>4, <3>1, FlushBuildFacts, EngineBounds, SMT DEF Files, FlushBuild
  <2>2. UNCHANGED <<hist, tables, rd, reused>> /\ sst' = [sst EXCEPT ![job.number] = Table(tables[job.table])]
    BY <1>4 DEF FlushBuild, history
  <2>3. ~reused' /\ faults' = 0 => \A m \in BeingRead : sst'[m] = sst[m]
    BY <1>1, <1>2, <2>1, <2>2
  <2>6. ~reused' /\ faults' = 0 => \A me \in Gets : Harmless(me)
    BY <2>2, <2>3, StillHarmless
  <2>7. versions.seq <= versions'.seq
    BY <2>1, BaseFields, SMT
  <2>8. job'.pc \notin {"build", "merge"}
    BY <2>1
  <2> QED BY <2>2, <2>6, <2>7, <2>8, ReadFrame
<1>5. CASE CompactMerge
  <2>1. job.number \in Files /\ job'.pc = "replace" /\ job.pc = "merge" /\ versions' = versions
    BY <1>5, CompactMergeFacts DEF CompactMerge
  <2>2. UNCHANGED <<hist, tables, rd, reused>> /\ sst' = [sst EXCEPT ![job.number] = Table(Merged(job.data))]
    BY <1>5 DEF CompactMerge, history
  <2>3. ~reused' /\ faults' = 0 => \A m \in BeingRead : sst'[m] = sst[m]
    BY <1>1, <1>2, <2>1, <2>2
  <2>6. ~reused' /\ faults' = 0 => \A me \in Gets : Harmless(me)
    BY <2>2, <2>3, StillHarmless
  <2>7. versions.seq <= versions'.seq
    BY <2>1, BaseFields, SMT
  <2>8. job'.pc \notin {"build", "merge"}
    BY <2>1
  <2> QED BY <2>2, <2>6, <2>7, <2>8, ReadFrame
<1>6. CASE CompactOpen
  <2>1. /\ UNCHANGED <<hist, tables, rd, versions>> /\ job.number \in Files /\ job'.number = job.number
        /\ \/ Truncate(job.number) /\ job'.pc = "merge"
           \/ job'.pc = "done" /\ UNCHANGED <<sst, reused>>
    BY <1>6, CompactOpenFacts DEF CompactOpen
  <2>2. Truncate(job.number) => sst' = [sst EXCEPT ![job.number] = Partial] /\ (reused => reused')
    BY DEF Truncate
  <2>3. ~reused' => (job'.pc = "merge" => job.number \notin BeingRead) /\ \A m \in BeingRead : sst'[m] = sst[m]
    BY <1>1, <2>1, <2>2, Fresh
  <2>6. ~reused' => \A me \in Gets : Harmless(me)
    BY <2>1, <2>3, StillHarmless
  <2>7. versions.seq <= versions'.seq
    BY <2>1, BaseFields, SMT
  <2>8. (reused => reused') /\ job'.pc # "build"
    BY <2>1, <2>2, SMT
  <2> QED BY <2>1, <2>3, <2>6, <2>7, <2>8, ReadFrame
<1>7. CASE CompactRemove
  <2>1. UNCHANGED <<hist, tables, rd, reused, versions>> /\ job'.pc = "done"
    BY <1>7, JobEnds
  <2>2. \A n \in BeingRead : sst'[n] = sst[n] \/ sst'[n].is # "complete"
    <3>1. ASSUME NEW r \in Readers, NEW f \in Range(rd[r].l0) \cup rd[r].l1
          PROVE  sst'[f.number] = sst[f.number] \/ sst'[f.number].is # "complete"
      <4>1. rd[r] \in Gets
        BY DEF Gets
      <4>2. f.number \in Files
        BY <4>1, GetFields
      <4> QED BY <1>7, <4>2 DEF CompactRemove, NoFile
    <3> QED BY <3>1 DEF BeingRead
  <2>6. \A me \in Gets : Harmless(me)
    BY <2>1, <2>2, StillHarmless
  <2>7. versions.seq <= versions'.seq /\ job'.pc \notin {"build", "merge"}
    BY <2>1, BaseFields, SMT
  <2> QED BY <2>1, <2>6, <2>7, ReadFrame
<1>8. CASE FlushInstall \/ FlushClear \/ CompactPick \/ CompactReplace \/ JobFails
  <2>1. UNCHANGED <<hist, tables, rd, reused, sst>>
    BY <1>8 DEF FlushInstall, FlushClear, CompactPick, CompactReplace, JobFails, history, files
  <2>2. versions'.seq = versions.seq /\ job'.pc \notin {"build", "merge"}
    <3>1. CASE FlushInstall
      BY <3>1, FlushInstallFacts
    <3>2. CASE FlushClear
      <4>1. job \in JobType
        BY BaseFields
      <4> QED BY <3>2, <4>1 DEF FlushClear, JobType
    <3>3. CASE CompactPick
      BY <3>3, CompactPickFacts
    <3>4. CASE CompactReplace
      BY <3>4, CompactReplaceFacts
    <3>5. CASE JobFails
      BY <3>5, JobEnds
    <3> QED BY <1>8, <3>1, <3>2, <3>3, <3>4, <3>5
  <2>6. \A me \in Gets : Harmless(me)
    BY <2>1, StillHarmless
  <2>7. versions.seq <= versions'.seq
    BY <2>2, BaseFields, SMT
  <2> QED BY <2>1, <2>2, <2>6, <2>7, ReadFrame
<1> QED BY <1>3, <1>4, <1>5, <1>6, <1>7, <1>8 DEF JobSteps

-----------------------------------------------------------------------------
\* A write is too new for every Get under way.
LEMMA WriteReads ==
    ASSUME BaseInv, BaseInv', FaultInv, ReadInv, Next, NEW w \in Writers, Write(w)
    PROVE  ReadInv'
<1>1. PICK e : e = [seq |-> versions.seq + 1, key |-> wr[w].key]
  OBVIOUS
<1>2. /\ e \in Entry /\ e.seq = versions.seq + 1
      /\ \/ Succeeds(w, e) /\ hist' = hist \cup {e}
         \/ Fails(w, e) /\ UNCHANGED hist
      /\ UNCHANGED <<sst, job, rd, reused>> /\ versions'.seq = versions.seq + 1 /\ db.mem \in Files
  BY <1>1, WriteLayers
<1>3. versions.seq <= versions'.seq /\ versions.seq \in Nat
  BY <1>2, BaseFields, SMT
<1>4. tables \in [Files -> SUBSET Entry]
  BY DEF BaseInv, TypeOK
<1>5. \/ hist' = hist \cup {e} /\ tables' = [tables EXCEPT ![db.mem] = tables[db.mem] \cup {e}]
      \/ hist' = hist /\ tables' = tables
  BY <1>2 DEF Succeeds, Fails
<1>6. ASSUME NEW me \in Gets, me.snapshot <= versions.seq PROVE Harmless(me)
  <2>1. me.snapshot \in Nat /\ me.mem \in {0} \cup Files /\ me.imm \in {0} \cup Files
    BY GetFields
  <2>2. e.seq > me.snapshot
    BY <1>2, <1>3, <1>6, <2>1, SMT
  <2>3. hist \subseteq hist' /\ \A x \in hist' \ hist : x.seq > me.snapshot
    BY <1>5, <2>2
  <2>4. \A n \in Files : tables[n] \subseteq tables'[n] /\ \A x \in tables'[n] \ tables[n] : x = e /\ e \in hist'
    BY <1>2, <1>4, <1>5, SMT
  <2> QED BY <1>2, <2>1, <2>2, <2>3, <2>4 DEF Harmless
<1>7. ASSUME ~reused', faults' = 0
      PROVE  /\ \A me \in Gets : Harmless(me)
             /\ job'.pc \in {"build", "merge"} => job'.number \notin BeingRead
  <2>1. ~(faults > 0) /\ ~reused
    <3>1. faults = 0
      BY <1>7, NoFaults, SMT
    <3> QED BY <1>2, <1>7, <3>1, SMT
  <2>2. /\ job.pc \in {"build", "merge"} => job.number \notin BeingRead
        /\ \A me \in Gets : Found(me)
    BY <2>1, ReadParts
  <2> QED BY <1>2, <1>6, <2>2 DEF Found
<1> QED BY <1>2, <1>3, <1>7, ReadFrame

\* Switching memtables leaves every Get the two it started with.
LEMMA RoomReads ==
    ASSUME BaseInv, BaseInv', FaultInv, ReadInv, Next, closer = "none",
           NEW w \in Writers, NEW k \in Keys, NEW s \in BOOLEAN, MakeRoomForWrite(w, k, s)
    PROVE  ReadInv'
<1>1. /\ Moves(w, k, s) \/ \E ok \in BOOLEAN : Switches(w, k, s, ok)
      /\ UNCHANGED <<job, rd, hist>>
  BY MakeRoomCases
<1>2. /\ sst' = sst /\ versions'.seq = versions.seq /\ (reused => reused')
      /\ tables' = tables \/ tables' = [tables EXCEPT ![versions.next] = {}]
  <2>1. CASE Moves(w, k, s)
    BY <2>1 DEF Moves, files
  <2>2. ASSUME NEW ok \in BOOLEAN, Switches(w, k, s, ok)
        PROVE  /\ sst' = sst /\ versions'.seq = versions.seq /\ (reused => reused')
               /\ tables' = [tables EXCEPT ![versions.next] = {}]
    <3>1. versions'.seq = versions.seq /\ tables' = [tables EXCEPT ![versions.next] = {}]
      BY <2>2, SwitchFacts
    <3>2. sst' = sst /\ (reused => reused')
      BY <2>2 DEF Switches
    <3> QED BY <3>1, <3>2
  <2> QED BY <1>1, <2>1, <2>2
<1>3. versions.seq <= versions'.seq
  BY <1>2, BaseFields, SMT
<1>4. ASSUME NEW me \in Gets PROVE Harmless(me)
  <2>1. /\ me.mem \in {0} \cup Files /\ me.imm \in {0} \cup Files
        /\ me.mem < versions.next /\ me.imm < versions.next /\ versions.next \in Nat
    BY GetFields, BaseFields
  <2>2. me.mem # versions.next /\ me.imm # versions.next
    BY <2>1, SMT DEF Files
  <2>3. tables \in [Files -> SUBSET Entry]
    BY DEF BaseInv, TypeOK
  <2>4. \A n \in {me.mem, me.imm} \ {0} : tables'[n] = tables[n]
    BY <1>2, <2>1, <2>2, <2>3
  <2> QED BY <1>1, <1>2, <2>4 DEF Harmless
<1>5. ASSUME ~reused', faults' = 0
      PROVE  job'.pc \in {"build", "merge"} => job'.number \notin BeingRead
  <2>1. ~(faults > 0) /\ ~reused
    <3>1. faults = 0
      BY <1>5, NoFaults, SMT
    <3> QED BY <1>2, <1>5, <3>1, SMT
  <2> QED BY <1>1, <2>1, ReadParts
<1> QED BY <1>1, <1>2, <1>3, <1>4, <1>5, ReadFrame

\* Scheduling disturbs no Get.
LEMMA ThreadReads ==
    ASSUME BaseInv, BaseInv', FaultInv, ReadInv, Next, ThreadSteps
    PROVE  ReadInv'
<1>1. /\ UNCHANGED <<sst, versions, tables, rd, hist, reused, faults>>
      /\ job' = job \/ job'.pc \in {"none", "take", "pick"}
  BY ThreadEffects
<1>2. \A me \in Gets : Harmless(me)
  BY <1>1, StillHarmless
<1>3. versions.seq <= versions'.seq
  BY <1>1, BaseFields, SMT
<1>4. ASSUME ~reused', faults' = 0
      PROVE  job'.pc \in {"build", "merge"} => job'.number \notin BeingRead
  <2>1. ~(faults > 0) /\ ~reused
    BY <1>1, <1>4, SMT
  <2>2. job.pc \in {"build", "merge"} => job.number \notin BeingRead
    BY <2>1, ReadParts
  <2> QED BY <1>1, <2>2
<1> QED BY <1>1, <1>2, <1>3, <1>4, ReadFrame

\* Nobody reads while the database is closed.
LEMMA IdleReads ==
    ASSUME BaseInv, \A r \in Readers : rd[r] = IdleReader, job.pc \notin {"build", "merge"}
    PROVE  ReadInv
<1>1. versions.seq \in Nat
  BY BaseFields
<1>2. ASSUME NEW me \in Gets PROVE Found(me)
  <2>1. me.pc = "idle" /\ me.snapshot = 0
    BY SMT DEF Gets, IdleReader
  <2> QED BY <1>1, <2>1, SMT DEF Found
<1> QED BY <1>2, ReadParts

\* The same in the next state.
LEMMA IdleReadsNext ==
    ASSUME BaseInv', \A r \in Readers : rd'[r] = IdleReader, job'.pc \notin {"build", "merge"}
    PROVE  ReadInv'
<1>1. versions'.seq \in Nat
  <2>1. versions' \in VersionType
    BY DEF BaseInv, TypeOK
  <2> QED BY <2>1, VersionFields
<1>2. ASSUME NEW me \in Gets' PROVE Found(me)'
  <2>1. me.pc = "idle" /\ me.snapshot = 0
    BY SMT DEF Gets, IdleReader
  <2> QED BY <1>1, <2>1, SMT DEF Found
<1> QED BY <1>2 DEF ReadInv, Found

\* Open, shutting down and dying leave no Get under way.
LEMMA OpenDownReads ==
    ASSUME BaseInv, BaseInv', Open \/ CloseJoin \/ Crash
    PROVE  ReadInv'
<1>1. CASE Open
  <2>1. job' = job /\ rd' = rd /\ closer = "down"
    BY <1>1 DEF Open
  <2>2. job = NoJob /\ \A r \in Readers : rd[r] = IdleReader
    BY <2>1 DEF BaseInv, ControlInv
  <2>3. job'.pc \notin {"build", "merge"}
    BY <2>1, <2>2, NoJobFields
  <2> QED BY <2>1, <2>2, <2>3, IdleReadsNext
<1>2. CASE CloseJoin \/ Crash
  <2>1. job' = NoJob /\ rd' = [r \in Readers |-> IdleReader]
    BY <1>2, DownEffects
  <2>2. job'.pc \notin {"build", "merge"} /\ \A r \in Readers : rd'[r] = IdleReader
    BY <2>1, NoJobFields
  <2> QED BY <2>2, IdleReadsNext
<1> QED BY <1>1, <1>2

-----------------------------------------------------------------------------
\* The steps of a Get.

\* One Get moves.
LEMMA StepReads ==
    ASSUME BaseInv, BaseInv', FaultInv, ReadInv, Next, NEW r \in Readers, ReaderSteps(r), NEW x,
           rd' = [rd EXCEPT ![r] = x],
           ~reused /\ faults = 0 =>
              /\ Found(x)
              /\ job.pc \in {"build", "merge"} =>
                    \A f \in Range(x.l0) \cup x.l1 : f.number # job.number \/ f.number \in BeingRead
    PROVE  ReadInv'
<1>1. UNCHANGED <<log, sst, manifest, versions, tables, db, job, closer, hist, synced, mine, reused, faults>>
  BY ReaderEffects
<1>2. \A me \in Gets' : me \in Gets \/ me = x
  <2>1. rd \in [Readers -> ReaderType]
    BY DEF BaseInv, TypeOK
  <2> QED BY <2>1 DEF Gets
<1>3. ASSUME NEW me, Found(me) PROVE Found(me)'
  BY <1>1, <1>3 DEF Found, Searching, Goal, InMemory, InFiles, Has, HasNothing, Removed, Data, GoalIn,
     Visible, Table0
<1>4. ASSUME ~reused', ~(faults' > 0)
      PROVE  /\ \A me \in Gets' : Found(me)'
             /\ job'.pc \in {"build", "merge"} => job'.number \notin BeingRead'
  <2>1. ~(faults > 0) /\ ~reused /\ faults = 0
    <3>1. faults = 0
      BY <1>4, NoFaults
    <3> QED BY <1>1, <1>4, <3>1
  <2>2. /\ job.pc \in {"build", "merge"} => job.number \notin BeingRead
        /\ \A me \in Gets : Found(me)
    BY <2>1, ReadParts
  <2>3. \A me \in Gets' : Found(me)'
    BY <1>2, <1>3, <2>1, <2>2
  <2>4. ASSUME job.pc \in {"build", "merge"}, job.number \in BeingRead' PROVE FALSE
    <3>1. PICK me \in Gets' : \E f \in Range(me.l0) \cup me.l1 : f.number = job.number
      BY <2>4, SMT DEF BeingRead, Gets
    <3>2. PICK f \in Range(me.l0) \cup me.l1 : f.number = job.number
      BY <3>1
    <3>3. CASE me \in Gets
      BY <2>2, <2>4, <3>2, <3>3, SMT DEF BeingRead, Gets
    <3>4. CASE me = x
      BY <2>1, <2>2, <2>4, <3>2, <3>4
    <3> QED BY <1>2, <3>3, <3>4
  <2> QED BY <1>1, <2>3, <2>4
<1> QED BY <1>4 DEF ReadInv, Found

-----------------------------------------------------------------------------
\* The Get that starts now, of key k.
Started(k) ==
    [pc |-> "mem", key |-> k, mem |-> db.mem, imm |-> db.imm, res |-> 0,
     snapshot |-> versions.seq, l0 |-> versions.l0, l1 |-> versions.l1]

-----------------------------------------------------------------------------
\* What searching one layer of served writes answers.
LEMMA LayerAnswer ==
    ASSUME NEW me, NEW E, E \subseteq hist, hist \in SUBSET Entry, me.snapshot \in Nat,
           NEW s, s = NewestSeq(E, me.key, me.snapshot)
    PROVE  /\ Goal(me) = 0 \/ Visible(E, me) = {} => s = 0
           /\ Goal(me) # 0 /\ GoalIn(E, me) => s = Goal(me)
<1>1. E \in SUBSET Entry
  OBVIOUS
<1>2. PICK g : g = Goal(me)
  OBVIOUS
<1>3. /\ g \in Nat /\ g <= me.snapshot
      /\ \A e \in hist : e.key = me.key /\ e.seq <= me.snapshot => e.seq <= g
  BY <1>2, NewestFacts, EngineBounds, SMT DEF Goal
<1>4. ASSUME g = 0 \/ Visible(E, me) = {} PROVE s = 0
  <2>1. ASSUME NEW e \in E, e.key = me.key PROVE e.seq > me.snapshot
    <3>1. e.seq \in Nat /\ e.seq # 0
      BY <1>1, EntryFields
    <3>2. ~(e.seq <= me.snapshot)
      BY <1>3, <1>4, <2>1, <3>1, SMT DEF Visible
    <3> QED BY <3>1, <3>2, SMT
  <2> QED BY <1>1, <2>1, NewestNone
<1>5. ASSUME g # 0, Write_(g, me.key) \in E PROVE s = g
  <2>1. \A e \in E : e.key = me.key /\ e.seq <= me.snapshot => e.seq <= g
    BY <1>3
  <2> QED BY <1>1, <1>3, <1>5, <2>1, NewestIs
<1> QED BY <1>2, <1>4, <1>5 DEF GoalIn

\* Two states of one Get look for the same.
LEMMA SameTarget ==
    ASSUME NEW me, NEW x, x.key = me.key, x.snapshot = me.snapshot
    PROVE  /\ Goal(x) = Goal(me)
           /\ \A f : (Has(f, me) => Has(f, x)) /\ (HasNothing(f, me) => HasNothing(f, x))
           /\ x.l0 = me.l0 /\ x.l1 = me.l1 => (InFiles(me) => InFiles(x))
<1>1. Goal(x) = Goal(me)
  BY DEF Goal
<1>2. ASSUME NEW f PROVE (Has(f, me) => Has(f, x)) /\ (HasNothing(f, me) => HasNothing(f, x))
  BY <1>1 DEF Has, HasNothing, GoalIn, Visible
<1>3. ASSUME x.l0 = me.l0, x.l1 = me.l1, InFiles(me) PROVE InFiles(x)
  <2>1. ASSUME NEW i \in 1 .. Len(me.l0), Has(me.l0[i], me), \A j \in i + 1 .. Len(me.l0) : HasNothing(me.l0[j], me)
        PROVE  InFiles(x)
    BY <1>2, <1>3, <2>1 DEF InFiles
  <2>2. ASSUME \A j \in 1 .. Len(me.l0) : HasNothing(me.l0[j], me), NEW f \in me.l1, Has(f, me),
               \A g \in me.l1 : Covers(g, me.key) => g = f
        PROVE  InFiles(x)
    BY <1>2, <1>3, <2>2 DEF InFiles
  <2> QED BY <1>3, <2>1, <2>2 DEF InFiles
<1> QED BY <1>1, <1>2, <1>3

\* The start of a Get keeps the invariant about reads.
LEMMA GetReads ==
    ASSUME BaseInv, BaseInv', FileInv, SequenceInv, ServedInv, FaultInv, LayerInv, ReadInv, Next,
           NEW r \in Readers, NEW k \in Keys, Get(r, k)
    PROVE  ReadInv'
\* What it looks for is the newest write of its key, and some layer has it.
<1>StartGoal. ASSUME ~reused, closer # "down", NEW me, me = Started(k)
      PROVE  /\ hist \in SUBSET Entry /\ Goal(me) \in Nat /\ Mem \cup Imm \cup Live \subseteq hist
             /\ \A e \in hist : e.key = k => e.seq <= Goal(me)
             /\ Goal(me) # 0 => Write_(Goal(me), k) \in Mem \cup Imm \cup Live
  <2> USE <1>StartGoal
  <2>1. me.key = k /\ me.snapshot = versions.seq
    BY DEF Started
  <2>2. hist \in SUBSET Entry /\ versions.seq \in Nat
    BY LayerTypes
  <2>3. /\ \A e \in hist : e.seq <= versions.seq
        /\ Mem \cup Imm \cup Live \subseteq hist
    BY DEF SequenceInv
  <2>4. PICK g : g = Goal(me)
    OBVIOUS
  <2>5. /\ g \in Nat /\ (g # 0 => Write_(g, k) \in hist)
        /\ \A e \in hist : e.key = k /\ e.seq <= versions.seq => e.seq <= g
    BY <2>1, <2>2, <2>4, NewestFacts, EngineBounds, SMT DEF Goal
  <2>6. ASSUME g # 0 PROVE Write_(g, k) \in Mem \cup Imm \cup Live
    <3>1. Write_(g, k) \in hist /\ Write_(g, k).key = k /\ Write_(g, k).seq = g
      BY <2>5, <2>6 DEF Write_
    <3>2. PICK x \in Mem \cup Imm \cup Live : x.key = k /\ x.seq >= g
      BY <3>1 DEF ServedInv
    <3>3. x \in Entry /\ x \in hist /\ x.seq \in Nat /\ x = Write_(x.seq, x.key)
      BY <2>2, <2>3, EntryFields
    <3>4. x.seq = g
      BY <2>3, <2>5, <3>2, <3>3, SMT
    <3> QED BY <3>2, <3>3, <3>4
  <2> QED BY <2>2, <2>3, <2>4, <2>5, <2>6

\* A layer that is newer than the goal has nothing for the Get.
<1>NothingNewer. ASSUME NEW E, NEW B, NEW me, E \subseteq hist, hist \in SUBSET Entry,
             Goal(me) \in Nat, \A e \in hist : e.key = me.key => e.seq <= Goal(me), Newer(E, B),
             Write_(Goal(me), me.key) \in B
      PROVE  Visible(E, me) = {}
  <2> USE <1>NothingNewer
  <2> SUFFICES ASSUME NEW e \in E, e.key = me.key PROVE FALSE
    BY DEF Visible
  <2>1. e.seq > Write_(Goal(me), me.key).seq
    BY DEF Newer
  <2>2. e.seq > Goal(me)
    BY <2>1 DEF Write_
  <2>3. e.seq \in Nat /\ e.seq <= Goal(me)
    BY EntryFields
  <2> QED BY <2>2, <2>3, SMT

\* When a table holds what a new Get looks for, no file before it has a visible
\* entry.
<1>StartFiles. ASSUME ~reused, closer # "down", Levels, NEW me, me = Started(k),
             NEW f \in LiveFiles, Write_(Goal(me), k) \in Data(f)
      PROVE  InFiles(me)
  <2> USE <1>StartFiles
  <2>1. me.key = k /\ me.l0 = versions.l0 /\ me.l1 = versions.l1
    BY DEF Started
  <2>2. versions.l0 \in Seq(FileMetaData) /\ Len(versions.l0) \in Nat
    BY BaseFields, VersionFields, SMT
  <2>3. /\ hist \in SUBSET Entry /\ Goal(me) \in Nat /\ Mem \cup Imm \cup Live \subseteq hist
        /\ \A e \in hist : e.key = me.key => e.seq <= Goal(me)
    BY <2>1, <1>StartGoal
  <2>4. \A g \in LiveFiles : Data(g) \subseteq hist
    BY <2>3 DEF Live
  <2>5. \A i \in 1 .. Len(versions.l0) : versions.l0[i] \in LiveFiles
    BY <2>2, SMT DEF LiveFiles, Range
  <2>6. Has(f, me)
    <3>1. Sound(f)
      BY DEF FileInv
    <3>2. Write_(Goal(me), k).key = k
      BY DEF Write_
    <3>3. f.lo <= k /\ k <= f.hi
      BY <3>1, <3>2 DEF Sound
    <3> QED BY <2>1, <3>3 DEF Has, Covers, GoalIn
  <2>7. CASE f \in Range(versions.l0)
    <3>1. PICK i \in 1 .. Len(versions.l0) : f = versions.l0[i]
      BY <2>2, <2>7, SMT DEF Range
    <3>2. ASSUME NEW j \in i + 1 .. Len(versions.l0) PROVE HasNothing(versions.l0[j], me)
      <4>1. j \in 1 .. Len(versions.l0) /\ i \in 1 .. j - 1
        BY <2>2, SMT
      <4>2. Newer(Data(versions.l0[j]), Data(f))
        BY <3>1, <4>1 DEF Levels
      <4>3. Data(versions.l0[j]) \subseteq hist
        BY <2>4, <2>5, <4>1
      <4>4. Visible(Data(versions.l0[j]), me) = {}
        BY <2>1, <2>3, <4>2, <4>3, <1>NothingNewer
      <4> QED BY <4>4 DEF HasNothing
    <3> QED BY <2>1, <2>6, <3>1, <3>2 DEF InFiles
  <2>8. CASE f \in versions.l1
    <3>1. ASSUME NEW j \in 1 .. Len(versions.l0) PROVE HasNothing(versions.l0[j], me)
      <4>2. Newer(Data(versions.l0[j]), Data(f))
        BY <2>8 DEF Levels
      <4>3. Data(versions.l0[j]) \subseteq hist
        BY <2>4, <2>5
      <4>4. Visible(Data(versions.l0[j]), me) = {}
        BY <2>1, <2>3, <4>2, <4>3, <1>NothingNewer
      <4> QED BY <4>4 DEF HasNothing
    <3>2. ASSUME NEW g \in versions.l1, Covers(g, k) PROVE g = f
      <4>1. Covers(f, k)
        BY <2>1, <2>6 DEF Has
      <4>2. f # g => Before(f, g) \/ Before(g, f)
        BY <2>8 DEF FileInv
      <4>3. f.lo \in Nat /\ f.hi \in Nat /\ g.lo \in Nat /\ g.hi \in Nat
        BY <2>8, BaseFields, VersionFields, FileFields
      <4>4. k \in Nat
        <5>1. Write_(Goal(me), k) \in Entry
          BY LiveFacts
        <5>2. Write_(Goal(me), k).key = k
          BY DEF Write_
        <5> QED BY <5>1, <5>2, EntryFields
      <4> QED BY <3>2, <4>1, <4>2, <4>3, <4>4, SMT DEF Covers, Before
    <3> QED BY <2>1, <2>6, <2>8, <3>1, <3>2 DEF InFiles
  <2> QED BY <2>7, <2>8 DEF LiveFiles

\* A Get that starts is on its way to its answer.
<1>StartFound. ASSUME Ordered, Levels, ~reused, closer # "down", NEW me, me = Started(k)
      PROVE  Found(me)
  <2> USE <1>StartFound
  <2>1. /\ me.key = k /\ me.mem = db.mem /\ me.imm = db.imm /\ me.l0 = versions.l0 /\ me.l1 = versions.l1
        /\ me.pc = "mem" /\ me.snapshot = versions.seq /\ me.res = 0
    BY DEF Started
  <2>2. /\ hist \in SUBSET Entry /\ Goal(me) \in Nat /\ Mem \cup Imm \cup Live \subseteq hist
        /\ \A e \in hist : e.key = me.key => e.seq <= Goal(me)
        /\ Goal(me) # 0 => Write_(Goal(me), k) \in Mem \cup Imm \cup Live
    BY <2>1, <1>StartGoal
  <2>3. me.snapshot <= versions.seq
    BY <2>1, BaseFields, SMT
  <2>4. Table0(me.mem) = Mem /\ Table0(me.imm) = Imm
    BY <2>1 DEF Mem, Imm
  <2>5. \A f \in Range(me.l0) \cup me.l1 : Removed(f) \/ Data(f) \subseteq hist
    BY <2>1, <2>2 DEF Live, LiveFiles
  <2>6. Newer(Mem, Imm \cup Live)
    BY DEF Ordered
  <2>7. ASSUME Write_(Goal(me), k) \in Mem PROVE InMemory(me)
    BY <2>1, <2>4, <2>7 DEF InMemory, GoalIn
  <2>8. ASSUME Write_(Goal(me), k) \in Imm PROVE InMemory(me)
    <3>1. Visible(Mem, me) = {}
      <4>1. Newer(Mem, Imm)
        BY <2>6 DEF Newer
      <4> QED BY <2>1, <2>2, <2>8, <4>1, <1>NothingNewer
    <3>2. InMemory(me)
      BY <2>1, <2>4, <2>8, <3>1 DEF InMemory, GoalIn
    <3> QED BY <3>2
  <2>9. ASSUME Write_(Goal(me), k) \in Live /\ Write_(Goal(me), k) \notin Imm
        PROVE  Visible(Table0(me.mem) \cup Table0(me.imm), me) = {} /\ InFiles(me)
    <3>1. PICK f \in LiveFiles : Write_(Goal(me), k) \in Data(f)
      BY <2>9 DEF Live
    <3>2. InFiles(me)
      BY <3>1, <1>StartFiles
    <3>3. Visible(Mem, me) = {}
      <4>1. Newer(Mem, Live)
        BY <2>6 DEF Newer
      <4> QED BY <2>1, <2>2, <2>9, <4>1, <1>NothingNewer
    <3>4. Visible(Imm, me) = {}
      <4>1. CASE job.pc # "clear"
        <5>1. Newer(Imm, Live)
          BY <4>1 DEF Ordered
        <5> QED BY <2>1, <2>2, <2>9, <5>1, <1>NothingNewer
      <4>2. CASE job.pc = "clear"
        <5>1. versions.l0 # <<>> /\ Data(versions.l0[Len(versions.l0)]) = Imm
          BY <4>2 DEF Ordered
        <5>2. versions.l0 \in Seq(FileMetaData) /\ Len(versions.l0) \in Nat
          BY BaseFields, VersionFields, SMT
        <5>3. Len(versions.l0) \in 1 .. Len(versions.l0)
          BY <5>1, <5>2, SMT
        <5>4. Newer(Imm, Data(f))
          <6>1. CASE f \in versions.l1
            BY <5>1, <5>3, <6>1 DEF Levels
          <6>2. CASE f \in Range(versions.l0)
            <7>1. PICK j \in 1 .. Len(versions.l0) : f = versions.l0[j]
              BY <5>2, <6>2, SMT DEF Range
            <7>2. j # Len(versions.l0)
              BY <2>9, <3>1, <5>1, <7>1
            <7>3. j \in 1 .. Len(versions.l0) - 1
              BY <5>2, <7>2, SMT
            <7> QED BY <5>1, <5>3, <7>1, <7>3 DEF Levels
          <6> QED BY <6>1, <6>2 DEF LiveFiles
        <5> QED BY <2>1, <2>2, <3>1, <5>4, <1>NothingNewer
      <4> QED BY <4>1, <4>2
    <3>5. Visible(Mem \cup Imm, me) = {}
      BY <3>3, <3>4 DEF Visible
    <3> QED BY <2>4, <3>2, <3>5
  <2>10. \/ Goal(me) = 0 \/ InMemory(me)
         \/ Visible(Table0(me.mem) \cup Table0(me.imm), me) = {} /\ InFiles(me)
    BY <2>2, <2>7, <2>8, <2>9
  <2> QED BY <2>1, <2>2, <2>3, <2>4, <2>5, <2>10 DEF Found, Searching

\* All steps together.
<1>1. PICK x : x = Started(k)
  OBVIOUS
<1>2. rd' = [rd EXCEPT ![r] = x] /\ closer # "down"
  BY <1>1 DEF Get, Started
<1>3. ASSUME ~reused, faults = 0
      PROVE  /\ Found(x)
             /\ job.pc \in {"build", "merge"} =>
                   \A f \in Range(x.l0) \cup x.l1 : f.number # job.number \/ f.number \in BeingRead
  <2>1. ~(faults > 0)
    BY <1>3, SMT
  <2>2. Ordered /\ Levels
    BY <1>3, <2>1, LayerParts
  <2>3. Found(x)
    BY <1>1, <1>2, <1>3, <2>2, <1>StartFound
  <2>4. ASSUME job.pc \in {"build", "merge"}, NEW f \in Range(x.l0) \cup x.l1 PROVE f.number # job.number
    <3>1. job.number \notin Numbers(versions)
      BY <1>3, <2>4 DEF FileInv, JobFiles
    <3>2. x.l0 = versions.l0 /\ x.l1 = versions.l1
      BY <1>1 DEF Started
    <3> QED BY <2>4, <3>1, <3>2 DEF Numbers
  <2> QED BY <2>3, <2>4
<1>4. ReaderSteps(r)
  BY DEF ReaderSteps
<1> QED BY <1>2, <1>3, <1>4, StepReads

\* Looking into the memtables answers right or leaves the search on its way.
LEMMA ReadMemReads ==
    ASSUME BaseInv, BaseInv', FaultInv, ReadInv, Next, NEW r \in Readers, ReadMem(r)
    PROVE  ReadInv'
<1> DEFINE In(n) == IF n = 0 THEN 0 ELSE NewestSeq(tables[n], rd[r].key, rd[r].snapshot)
<1>1. PICK me : me = rd[r]
  OBVIOUS
<1>2. me \in Gets /\ me \in ReaderType /\ me.pc = "mem" /\ me.snapshot \in Nat
  <2>1. me \in Gets
    BY <1>1 DEF Gets
  <2> QED BY <1>1, <2>1, GetFields DEF ReadMem
<1>3. PICK a, b : a = NewestSeq(Table0(me.mem), me.key, me.snapshot) /\ b = NewestSeq(Table0(me.imm), me.key, me.snapshot)
  OBVIOUS
<1>4. NewestSeq({}, me.key, me.snapshot) = 0
  BY <1>2, NewestNone
<1>5. In(me.mem) = a /\ In(me.imm) = b
  BY <1>1, <1>3, <1>4 DEF Table0
<1>6. PICK s : s = IF a # 0 THEN a ELSE b
  OBVIOUS
<1>7. PICK x : x = [me EXCEPT !.res = s, !.pc = IF s # 0 THEN "done" ELSE "files"]
  OBVIOUS
<1>8. rd' = [rd EXCEPT ![r] = x]
  <2>1. PICK t : t = IF In(rd[r].mem) # 0 THEN In(rd[r].mem) ELSE In(rd[r].imm)
    OBVIOUS
  <2>2. rd' = [rd EXCEPT ![r] = [rd[r] EXCEPT !.res = t, !.pc = IF t # 0 THEN "done" ELSE "files"]]
    BY <2>1, ReadMemFacts
  <2>3. t = s
    BY <1>1, <1>5, <1>6, <2>1
  <2> QED BY <1>1, <1>7, <2>2, <2>3
<1>9. /\ x.key = me.key /\ x.snapshot = me.snapshot /\ x.l0 = me.l0 /\ x.l1 = me.l1 /\ x.res = s
      /\ (s # 0 => x.pc = "done") /\ (s = 0 => x.pc = "files")
  BY <1>2, <1>7 DEF ReaderType
<1>10. ASSUME ~reused, faults = 0 PROVE Found(x)
  <2>1. Found(me)
    <3>1. ~(faults > 0)
      BY <1>10, SMT
    <3> QED BY <1>2, <1>10, <3>1, ReadParts
  <2>2. Searching(me)
    BY <1>2, <2>1 DEF Found
  <2>3. hist \in SUBSET Entry
    BY LayerTypes
  <2>4. Table0(me.mem) \subseteq hist /\ Table0(me.imm) \subseteq hist
    BY <1>2, <2>2 DEF Searching
  <2>5. /\ Goal(me) = 0 \/ Visible(Table0(me.mem), me) = {} => a = 0
        /\ Goal(me) # 0 /\ GoalIn(Table0(me.mem), me) => a = Goal(me)
    BY <1>2, <1>3, <2>3, <2>4, LayerAnswer
  <2>6. /\ Goal(me) = 0 \/ Visible(Table0(me.imm), me) = {} => b = 0
        /\ Goal(me) # 0 /\ GoalIn(Table0(me.imm), me) => b = Goal(me)
    BY <1>2, <1>3, <2>3, <2>4, LayerAnswer
  <2>7. Visible(Table0(me.mem) \cup Table0(me.imm), me) = {} => Visible(Table0(me.mem), me) = {} /\ Visible(Table0(me.imm), me) = {}
    BY DEF Visible
  <2>8. /\ s # 0 => s = Goal(me)
        /\ s = 0 => Goal(me) = 0 \/ InFiles(me)
    <3>1. CASE Goal(me) = 0
      BY <1>6, <2>5, <2>6, <3>1
    <3>2. CASE Goal(me) # 0 /\ InMemory(me)
      <4>1. (a = Goal(me)) \/ (a = 0 /\ b = Goal(me))
        BY <2>5, <2>6, <3>2 DEF InMemory
      <4> QED BY <1>6, <3>2, <4>1, SMT
    <3>3. CASE Visible(Table0(me.mem) \cup Table0(me.imm), me) = {} /\ InFiles(me)
      BY <1>6, <2>5, <2>6, <2>7, <3>3
    <3> QED BY <1>2, <2>2, <3>1, <3>2, <3>3 DEF Searching
  <2>9. Goal(x) = Goal(me) /\ (InFiles(me) => InFiles(x))
    BY <1>9, SameTarget
  <2>10. \A f \in Range(x.l0) \cup x.l1 : Removed(f) \/ Data(f) \subseteq hist
    BY <1>9, <2>2 DEF Searching
  <2>11. x.snapshot <= versions.seq
    BY <1>9, <2>1 DEF Found
  <2>12. CASE s # 0
    BY <1>9, <2>8, <2>9, <2>11, <2>12 DEF Found
  <2>13. CASE s = 0
    <3>1. Searching(x)
      BY <1>9, <2>8, <2>9, <2>10, <2>13 DEF Searching
    <3> QED BY <1>9, <2>11, <2>13, <3>1 DEF Found
  <2> QED BY <2>12, <2>13
<1>11. \A f \in Range(x.l0) \cup x.l1 : f.number \in BeingRead
  BY <1>2, <1>9, GetFields
<1>12. ReaderSteps(r)
  BY DEF ReaderSteps
<1> QED BY <1>8, <1>10, <1>11, <1>12, StepReads

-----------------------------------------------------------------------------
\* Looking into a table answers right, fails, or leaves the search on its way.
LEMMA ReadFileReads ==
    ASSUME BaseInv, BaseInv', FaultInv, ReadInv, Next, NEW r \in Readers, ReadFile(r)
    PROVE  ReadInv'
\* A Get opens the table of file f: it fails, it finds the goal, or it goes on with rest.
<1>LookReads. ASSUME NEW me, me = rd[r], me.pc = "files", Found(me),
             NEW f \in Range(me.l0) \cup me.l1, NEW rest, NEW x, x = Looked(r, f.number, rest),
             rest.key = me.key, rest.snapshot = me.snapshot, rest.pc = "files", rest.res = me.res,
             Range(rest.l0) \cup rest.l1 \subseteq Range(me.l0) \cup me.l1,
             Goal(me) # 0 => GoalIn(Data(f), me) \/ Removed(f) \/ (HasNothing(f, me) /\ InFiles(rest))
      PROVE  Found(x)
  <2> USE <1>LookReads
  <2>1. me \in Gets /\ me \in ReaderType /\ me.snapshot \in Nat
    <3>1. me \in Gets
      BY DEF Gets
    <3> QED BY <3>1, GetFields
  <2>2. Searching(me) /\ me.snapshot <= versions.seq
    BY DEF Found
  <2>3. hist \in SUBSET Entry
    BY LayerTypes
  <2>4. PICK s : s = NewestSeq(sst[f.number].data, me.key, me.snapshot)
    OBVIOUS
  <2>5. CASE Removed(f)
    <3>1. x = [me EXCEPT !.pc = "error"]
      BY <2>5 DEF Looked, Removed
    <3>2. x.pc = "error" /\ x.snapshot = me.snapshot
      BY <2>1, <3>1 DEF ReaderType
    <3> QED BY <2>2, <3>2 DEF Found
  <2>6. CASE ~Removed(f)
    <3>1. x = IF s # 0 THEN [me EXCEPT !.res = s, !.pc = "done"] ELSE rest
      BY <2>4, <2>6 DEF Looked, Removed
    <3>2. Data(f) \subseteq hist /\ s = NewestSeq(Data(f), me.key, me.snapshot)
      BY <2>2, <2>4, <2>6 DEF Searching, Data
    <3>3. /\ Goal(me) = 0 \/ Visible(Data(f), me) = {} => s = 0
          /\ Goal(me) # 0 /\ GoalIn(Data(f), me) => s = Goal(me)
      BY <2>1, <2>3, <3>2, LayerAnswer
    <3>4. Goal(me) # 0 => s = Goal(me) \/ (s = 0 /\ InFiles(rest))
      BY <2>6, <3>3 DEF HasNothing
    <3>5. CASE s # 0
      <4>1. x = [me EXCEPT !.res = s, !.pc = "done"]
        BY <3>1, <3>5
      <4>2. x.pc = "done" /\ x.res = s /\ x.snapshot = me.snapshot /\ x.key = me.key
        BY <2>1, <4>1 DEF ReaderType
      <4>3. Goal(x) = Goal(me)
        BY <4>2, SameTarget
      <4>4. s = Goal(me)
        BY <3>3, <3>4, <3>5
      <4> QED BY <2>2, <4>2, <4>3, <4>4 DEF Found
    <3>6. CASE s = 0
      <4>1. x = rest
        BY <3>1, <3>6
      <4>2. Goal(rest) = Goal(me)
        BY SameTarget
      <4>3. Goal(rest) = 0 \/ InFiles(rest)
        BY <3>4, <3>6, <4>2
      <4>4. Searching(rest)
        BY <2>2, <4>3 DEF Searching
      <4> QED BY <2>2, <4>1, <4>4 DEF Found
    <3> QED BY <3>5, <3>6
  <2> QED BY <2>5, <2>6

\* Looking into a table adds no file to those being read.
<1>LookFiles. ASSUME NEW f \in Range(rd[r].l0) \cup rd[r].l1, NEW rest, NEW x,
             x = Looked(r, f.number, rest),
             Range(rest.l0) \cup rest.l1 \subseteq Range(rd[r].l0) \cup rd[r].l1
      PROVE  \A g \in Range(x.l0) \cup x.l1 : g.number \in BeingRead
  <2> USE <1>LookFiles
  <2>1. rd[r] \in Gets
    BY DEF Gets
  <2>2. rd[r] \in ReaderType /\ \A g \in Range(rd[r].l0) \cup rd[r].l1 : g.number \in BeingRead
    BY <2>1, GetFields
  <2>3. (x.l0 = rd[r].l0 /\ x.l1 = rd[r].l1) \/ x = rest
    BY <2>2 DEF Looked, ReaderType
  <2> QED BY <2>2, <2>3

\* All steps together.
<1>1. PICK me : me = rd[r]
  OBVIOUS
<1>2. /\ me \in Gets /\ me \in ReaderType /\ me.pc = "files" /\ me.l0 \in Seq(FileMetaData) /\ Len(me.l0) \in Nat
      /\ me.snapshot \in Nat /\ \A i \in 1 .. Len(me.l0) : me.l0[i] \in Range(me.l0)
  <2>1. me \in Gets
    BY <1>1 DEF Gets
  <2> QED BY <1>1, <2>1, GetFields DEF ReadFile
<1>3. ReaderSteps(r)
  BY DEF ReaderSteps
<1>4. ASSUME ~reused, faults = 0 PROVE Found(me) /\ Searching(me)
  <2>1. ~(faults > 0)
    BY <1>4, SMT
  <2>2. Found(me)
    BY <1>2, <1>4, <2>1, ReadParts
  <2> QED BY <1>2, <2>2 DEF Found
<1>5. ASSUME NEW i \in 1 .. Len(me.l0), Covers(me.l0[i], me.key),
             \A j \in 1 .. Len(me.l0) : Covers(me.l0[j], me.key) => j <= i,
             rd' = [rd EXCEPT ![r] = Looked(r, me.l0[i].number, [me EXCEPT !.l0 = SubSeq(me.l0, 1, i - 1)])]
      PROVE  ReadInv'
  <2>1. PICK q : q = SubSeq(me.l0, 1, i - 1)
    OBVIOUS
  <2>2. Len(q) = i - 1 /\ \A j \in 1 .. i - 1 : q[j] = me.l0[j]
    BY <1>2, <2>1, SMT
  <2>3. Range(q) \subseteq Range(me.l0)
    BY <1>2, <2>2, SMT DEF Range
  <2>4. PICK rest : rest = [me EXCEPT !.l0 = q]
    OBVIOUS
  <2>5. /\ rest.key = me.key /\ rest.snapshot = me.snapshot /\ rest.pc = "files" /\ rest.res = me.res
        /\ rest.l0 = q /\ rest.l1 = me.l1
    BY <1>2, <2>4 DEF ReaderType
  <2>6. PICK x : x = Looked(r, me.l0[i].number, rest)
    OBVIOUS
  <2>7. rd' = [rd EXCEPT ![r] = x]
    BY <1>5, <2>1, <2>4, <2>6
  <2>8. Range(rest.l0) \cup rest.l1 \subseteq Range(me.l0) \cup me.l1 /\ me.l0[i] \in Range(me.l0) \cup me.l1
    BY <1>2, <2>3, <2>5
  <2>9. ASSUME InFiles(me)
        PROVE  \/ GoalIn(Data(me.l0[i]), me) \/ Removed(me.l0[i])
               \/ HasNothing(me.l0[i], me) /\ InFiles(rest)
    <3>1. \A f : (Has(f, me) => Has(f, rest)) /\ (HasNothing(f, me) => HasNothing(f, rest))
      BY <2>5, SameTarget
    <3>2. ASSUME NEW n \in 1 .. Len(me.l0), Has(me.l0[n], me), \A j \in n + 1 .. Len(me.l0) : HasNothing(me.l0[j], me)
          PROVE  \/ GoalIn(Data(me.l0[i]), me) \/ Removed(me.l0[i])
                 \/ HasNothing(me.l0[i], me) /\ InFiles(rest)
      <4>1. n <= i
        BY <1>5, <3>2 DEF Has
      <4>2. CASE n = i
        BY <3>2, <4>2 DEF Has
      <4>3. CASE n # i
        <5>1. i \in n + 1 .. Len(me.l0) /\ n \in 1 .. Len(q) /\ \A j \in n + 1 .. Len(q) : j \in n + 1 .. Len(me.l0) /\ q[j] = me.l0[j]
          BY <1>2, <2>2, <4>1, <4>3, SMT
        <5>2. Has(q[n], rest) /\ \A j \in n + 1 .. Len(q) : HasNothing(q[j], rest)
          BY <2>2, <3>1, <3>2, <5>1
        <5>3. InFiles(rest)
          BY <2>5, <5>1, <5>2 DEF InFiles
        <5> QED BY <3>2, <5>1, <5>3
      <4> QED BY <4>2, <4>3
    <3>3. ASSUME \A j \in 1 .. Len(me.l0) : HasNothing(me.l0[j], me), NEW f \in me.l1, Has(f, me),
                 \A g \in me.l1 : Covers(g, me.key) => g = f
          PROVE  HasNothing(me.l0[i], me) /\ InFiles(rest)
      <4>1. \A j \in 1 .. Len(q) : HasNothing(q[j], rest)
        BY <1>2, <2>2, <3>1, <3>3, SMT
      <4>2. Has(f, rest)
        BY <3>1, <3>3
      <4> QED BY <2>5, <3>3, <4>1, <4>2 DEF InFiles
    <3> QED BY <2>9, <3>2, <3>3 DEF InFiles
  <2>10. ASSUME ~reused, faults = 0 PROVE Found(x)
    <3>1. Found(me) /\ (Goal(me) # 0 => InFiles(me))
      BY <1>2, <1>4, <2>10 DEF Searching
    <3> QED BY <1>1, <1>2, <2>5, <2>6, <2>8, <2>9, <3>1, <1>LookReads
  <2>11. \A g \in Range(x.l0) \cup x.l1 : g.number \in BeingRead
    BY <1>1, <2>6, <2>8, <1>LookFiles
  <2> QED BY <1>3, <2>7, <2>10, <2>11, StepReads
<1>6. ASSUME \A j \in 1 .. Len(me.l0) : ~Covers(me.l0[j], me.key), NEW f \in me.l1, Covers(f, me.key),
             rd' = [rd EXCEPT ![r] = Looked(r, f.number, [me EXCEPT !.l1 = me.l1 \ {f}])]
      PROVE  ReadInv'
  <2>4. PICK rest : rest = [me EXCEPT !.l1 = me.l1 \ {f}]
    OBVIOUS
  <2>5. /\ rest.key = me.key /\ rest.snapshot = me.snapshot /\ rest.pc = "files" /\ rest.res = me.res
        /\ rest.l0 = me.l0 /\ rest.l1 = me.l1 \ {f}
    BY <1>2, <2>4 DEF ReaderType
  <2>6. PICK x : x = Looked(r, f.number, rest)
    OBVIOUS
  <2>7. rd' = [rd EXCEPT ![r] = x]
    BY <1>6, <2>4, <2>6
  <2>8. Range(rest.l0) \cup rest.l1 \subseteq Range(me.l0) \cup me.l1 /\ f \in Range(me.l0) \cup me.l1
    BY <1>6, <2>5
  <2>9. ASSUME InFiles(me) PROVE GoalIn(Data(f), me) \/ Removed(f)
    BY <1>6, <2>9 DEF InFiles, Has
  <2>10. ASSUME ~reused, faults = 0 PROVE Found(x)
    <3>1. Found(me) /\ (Goal(me) # 0 => InFiles(me))
      BY <1>2, <1>4, <2>10 DEF Searching
    <3> QED BY <1>1, <1>2, <2>5, <2>6, <2>8, <2>9, <3>1, <1>LookReads
  <2>11. \A g \in Range(x.l0) \cup x.l1 : g.number \in BeingRead
    BY <1>1, <2>6, <2>8, <1>LookFiles
  <2> QED BY <1>3, <2>7, <2>10, <2>11, StepReads
<1>7. ASSUME \A j \in 1 .. Len(me.l0) : ~Covers(me.l0[j], me.key), \A f \in me.l1 : ~Covers(f, me.key),
             rd' = [rd EXCEPT ![r].pc = "done"]
      PROVE  ReadInv'
  <2>1. PICK x : x = [me EXCEPT !.pc = "done"]
    OBVIOUS
  <2>2. rd' = [rd EXCEPT ![r] = x]
    BY <1>1, <1>7, <2>1
  <2>3. /\ x.key = me.key /\ x.snapshot = me.snapshot /\ x.pc = "done" /\ x.res = me.res
        /\ x.l0 = me.l0 /\ x.l1 = me.l1
    BY <1>2, <2>1 DEF ReaderType
  <2>4. ASSUME ~reused, faults = 0 PROVE Found(x)
    <3>1. Found(me) /\ Goal(me) = 0 /\ me.res = 0
      BY <1>2, <1>4, <1>7, <2>4 DEF Searching, InFiles, Has
    <3>2. Goal(x) = Goal(me)
      BY <2>3, SameTarget
    <3> QED BY <2>3, <3>1, <3>2 DEF Found
  <2>5. \A g \in Range(x.l0) \cup x.l1 : g.number \in BeingRead
    BY <1>2, <2>3, GetFields
  <2> QED BY <1>3, <2>2, <2>4, <2>5, StepReads
<1> QED BY <1>1, <1>5, <1>6, <1>7, ReadFileCases

-----------------------------------------------------------------------------
\* The end of a Get keeps the invariant about reads.
LEMMA ReturnReads ==
    ASSUME BaseInv, BaseInv', FaultInv, ReadInv, Next, NEW r \in Readers, Return(r)
    PROVE  ReadInv'
<1>1. PICK x : x = IdleReader
  OBVIOUS
<1>2. rd' = [rd EXCEPT ![r] = x] /\ ReaderSteps(r)
  BY <1>1 DEF Return, ReaderSteps
<1>3. x.pc = "idle" /\ x.snapshot = 0 /\ Range(x.l0) \cup x.l1 = {}
  BY <1>1, SMT DEF IdleReader, Range
<1>4. Found(x)
  BY <1>3, BaseFields, SMT DEF Found
<1> QED BY <1>2, <1>3, <1>4, StepReads

\* Every step keeps the invariant about reads.
LEMMA ReadNext ==
    ASSUME EngineInv, BaseInv', FaultInv, LayerInv, ReadInv, Next
    PROVE  ReadInv'
<1>0. BaseInv /\ FilledInv /\ FileInv /\ SequenceInv /\ ServedInv
  BY DEF EngineInv
<1>1. CASE JobSteps
  BY <1>0, <1>1, JobReads
<1>2. CASE ThreadSteps
  BY <1>0, <1>2, ThreadReads
<1>3. CASE Open \/ CloseJoin \/ Crash
  BY <1>0, <1>3, OpenDownReads
<1>4. ASSUME NEW w \in Writers, WriterSteps(w) PROVE ReadInv'
  <2>1. CASE Write(w)
    BY <1>0, <2>1, WriteReads
  <2>2. ASSUME NEW k \in Keys, NEW s \in BOOLEAN, closer = "none", MakeRoomForWrite(w, k, s) PROVE ReadInv'
    BY <1>0, <2>2, RoomReads
  <2> QED BY <1>4, <2>1, <2>2 DEF WriterSteps
<1>5. ASSUME NEW r \in Readers, ReaderSteps(r) PROVE ReadInv'
  <2>1. ASSUME NEW k \in Keys, Get(r, k) PROVE ReadInv'
    BY <1>0, <2>1, GetReads
  <2>2. CASE ReadMem(r)
    BY <1>0, <2>2, ReadMemReads
  <2>3. CASE ReadFile(r)
    BY <1>0, <2>3, ReadFileReads
  <2>4. CASE Return(r)
    BY <1>0, <2>4, ReturnReads
  <2> QED BY <1>5, <2>1, <2>2, <2>3, <2>4 DEF ReaderSteps
<1> QED BY <1>0, <1>1, <1>2, <1>3, <1>4, <1>5, NextCases

-----------------------------------------------------------------------------
\* The invariants about order, synced writes and reads hold at the start.
LEMMA LayeredInit == Init => LayeredInv
<1> SUFFICES ASSUME Init PROVE LayeredInv
  OBVIOUS
<1>1. BaseInv
  BY InitBase
<1>2. faults = 0 /\ closer = "down" /\ job = NoJob /\ manifest.log = 0 /\ versions.l0 = <<>> /\ versions.l1 = {}
  BY DEF Init
<1>3. FaultInv
  BY <1>2 DEF FaultInv
<1>4. Live = {} /\ LogData = {} /\ Imm = {}
  BY <1>2, SMT DEF Live, LiveFiles, Range, LogData, Imm, Table0, Init, NoDB
<1>5. LayerInv
  BY <1>2, <1>4, NoJobFields, SMT DEF LayerInv, Newer
<1>6. SyncInv
  BY <1>2 DEF SyncInv
<1>7. ReadInv
  <2>1. \A r \in Readers : rd[r] = IdleReader
    BY DEF Init
  <2>2. job.pc \notin {"build", "merge"}
    BY <1>2, NoJobFields
  <2> QED BY <1>1, <2>1, <2>2, IdleReads
<1> QED BY <1>3, <1>5, <1>6, <1>7 DEF LayeredInv

\* Every step keeps them.
LEMMA LayeredNext == ASSUME EngineInv, EngineInv', LayeredInv, Next PROVE LayeredInv'
<1>1. FaultInv /\ LayerInv /\ SyncInv /\ ReadInv
  BY DEF LayeredInv
<1>2. BaseInv'
  BY DEF EngineInv
<1>3. FaultInv'
  BY <1>1, FaultNext
<1>4. LayerInv'
  BY <1>1, LayerNext
<1>5. SyncInv'
  BY <1>1, SyncNext
<1>6. ReadInv'
  BY <1>1, <1>2, ReadNext
<1> QED BY <1>3, <1>4, <1>5, <1>6 DEF LayeredInv

\* So does a step that changes nothing.
LEMMA LayeredStutter == ASSUME LayeredInv, UNCHANGED vars PROVE LayeredInv'
<1>1. UNCHANGED <<log, sst, manifest, versions, tables, db, job, rd, closer, hist, mine, reused, faults>>
  BY DEF vars, files, history, bounds
<1>4. Live' = Live /\ LogData' = LogData /\ Mem' = Mem /\ Imm' = Imm
  <2>1. LiveFiles' = LiveFiles
    BY <1>1 DEF LiveFiles
  <2>2. Live' = Live
    BY <1>1, <2>1 DEF Live, Data
  <2> QED BY <1>1, <2>2 DEF LogData, Mem, Imm, Table0
<1>5. FaultInv'
  BY <1>1 DEF LayeredInv, FaultInv
<1>6. LayerInv'
  BY <1>1, <1>4 DEF LayeredInv, LayerInv, Newer, Data
<1>7. SyncInv'
  BY <1>1, <1>4 DEF LayeredInv, SyncInv
<1>2. FaultInv' /\ LayerInv' /\ SyncInv'
  BY <1>5, <1>6, <1>7
<1>3. ReadInv'
  BY <1>1, ZenonT(30)
     DEF LayeredInv, ReadInv, Gets, BeingRead, Searching, Goal, InMemory, InFiles, Has, HasNothing,
     Removed, Data, GoalIn, Visible, Table0
<1> QED BY <1>2, <1>3 DEF LayeredInv

\* As long as nothing has failed, the layers are ordered, synced writes are safe
\* and every Get is on its way to its answer.
THEOREM LayeredInductive == Spec => []LayeredInv
<1>1. Init => LayeredInv
  BY LayeredInit
<1>2. EngineInv /\ EngineInv' /\ LayeredInv /\ [Next]_vars => LayeredInv'
  BY LayeredNext, LayeredStutter
<1>3. Spec => []EngineInv
  BY EngineInductive
<1> QED BY <1>1, <1>2, <1>3, PTL DEF Spec

\* The invariant of the whole engine holds in every reachable state, for any
\* number of keys, writers, readers, files, openings, crashes and failing
\* operations (db.cpp, version.cpp, compaction.cpp).
THEOREM EngineInvariant == Spec => []LsmInv
<1>1. EngineInv /\ LayeredInv => LsmInv
  BY DEF LsmInv
<1> QED BY <1>1, EngineInductive, LayeredInductive, PTL

\* As long as no append, build or MANIFEST record has failed and no file number
\* was reused, Get searches the layers from newest to oldest: mem_, imm_, level 0
\* from its last file, level 1 (MakeRoomForWrite, FlushMemTable, CompactIfNeeded
\* and Open keep that order).
THEOREM SearchOrder == Spec => [](faults = 0 => LayersOrdered)
<1>1. EngineInv /\ LayeredInv => (faults = 0 => LayersOrdered)
  BY LayersFromInv DEF EngineInv, LayeredInv
<1> QED BY <1>1, EngineInductive, LayeredInductive, PTL

\* As long as nothing has failed and no file number was reused, a write that this
\* process acknowledged as synced can be recovered from disk at every moment, or
\* a newer one of its key, except while its memtable is imm_ and not yet a file
\* of the MANIFEST (Write, MakeRoomForWrite, FlushMemTable).
THEOREM SyncedWritesKept == Spec => []SyncedRecoverable
<1>1. EngineInv /\ LayeredInv => SyncedRecoverable
  BY SyncedFromInv DEF EngineInv, LayeredInv
<1> QED BY <1>1, EngineInductive, LayeredInductive, PTL

\* As long as nothing has failed and no file number was reused, a Get that
\* answers gives the newest write of its key up to the snapshot it took, whatever
\* writers, rotations, flushes and compactions did while it searched without the
\* mutex (DBImpl::Get, Version::Get).
THEOREM SnapshotReads == Spec => [](faults = 0 => ReadsSnapshot)
<1>1. ASSUME LayeredInv, faults = 0 PROVE ReadsSnapshot
  <2> SUFFICES ASSUME NEW r \in Readers, rd[r].pc = "done", ~reused
               PROVE  rd[r].res = NewestSeq(hist, rd[r].key, rd[r].snapshot)
    BY DEF ReadsSnapshot
  <2>1. ~(faults > 0)
    BY <1>1, SMT
  <2>2. rd[r] \in Gets
    BY DEF Gets
  <2> QED BY <1>1, <2>1, <2>2 DEF LayeredInv, ReadInv, Goal
<1>2. LayeredInv => (faults = 0 => ReadsSnapshot)
  BY <1>1
<1> QED BY <1>2, LayeredInductive, PTL
=============================================================================
