------------------------ MODULE LsmEngineFileProofs -------------------------
(*****************************************************************************)
(* What the tables and the log hold: the files of the current version are    *)
(* complete and disjoint, sequence numbers cover what was written, and every *)
(* write is found in some layer, whatever fails.  Ends with the theorems of  *)
(* EngineInv (LsmEngineInv).                                                 *)
(*****************************************************************************)
EXTENDS LsmEngineProofs

\* Zenon proves every leaf that names no other prover.
USE Zenon

-----------------------------------------------------------------------------
\* What the steps of each thread leave alone.

\* Scheduling touches neither files nor memtables nor counters.
LEMMA ThreadEffects ==
    ASSUME BaseInv, ThreadSteps
    PROVE  /\ UNCHANGED <<log, sst, manifest, versions, tables, rd, hist, synced, mine, reused, faults>>
           /\ db'.mem = db.mem /\ db'.imm = db.imm /\ closer # "down" /\ closer' # "down"
           /\ job' = job \/ job'.pc \in {"none", "take", "pick"}
           /\ job'.pc = job.pc \/ job.pc \in {"none", "done"}
<1>1. UNCHANGED <<log, sst, manifest, versions, tables, rd, hist, synced, mine, reused, faults>>
  BY DEF ThreadSteps, Close, CloseWait, CloseFlush, BgLoop, JobDone, files, history, bounds
<1>2. closer # "down" /\ closer' # "down"
  <2>1. closer # "down"
    BY NoJobFields DEF ThreadSteps, Close, CloseWait, CloseFlush, BgLoop, JobDone, BaseInv, ControlInv
  <2> QED BY <2>1 DEF ThreadSteps, Close, CloseWait, CloseFlush, BgLoop, JobDone, WokenCloser
<1>3. db'.mem = db.mem /\ db'.imm = db.imm
  <2>1. \/ db' = db \/ db' = [db EXCEPT !.shutting_down = TRUE]
        \/ db' = [db EXCEPT !.flush_scheduled = FALSE] \/ db' = [db EXCEPT !.compaction_scheduled = FALSE]
        \/ JobDone
    BY DEF ThreadSteps, Close, CloseWait, CloseFlush, BgLoop
  <2>2. db \in DBType
    BY BaseFields
  <2>3. CASE JobDone
    <3> DEFINE failed == [db EXCEPT !.bg_error = @ \/ ~job.ok]
    <3>1. failed \in [DOMAIN db -> {db[x] : x \in DOMAIN db} \cup BOOLEAN] /\ failed.mem = db.mem /\ failed.imm = db.imm
      BY <2>2 DEF DBType
    <3>2. \/ db' = [failed EXCEPT !.compaction_scheduled = @ \/ job.what = "flush"]
          \/ db' = failed
      BY <2>3 DEF JobDone
    <3> QED BY <2>2, <3>1, <3>2 DEF DBType
  <2> QED BY <2>1, <2>2, <2>3 DEF DBType
<1>4. \/ job' = job
      \/ job' = NoJob /\ job.pc = "done"
      \/ job.pc = "none" /\ job' = [NoJob EXCEPT !.pc = "take"]
      \/ job.pc = "none" /\ \E what \in {"flush", "compaction"}, pc \in {"take", "pick"} :
                               job' = [NoJob EXCEPT !.what = what, !.pc = pc]
  <2>1. CASE Close \/ CloseWait
    BY <2>1 DEF Close, CloseWait
  <2>2. CASE CloseFlush
    BY <2>2 DEF CloseFlush, BaseInv, ControlInv
  <2>3. CASE BgLoop
    <3>1. bg = "run" /\ closer # "flushing" => job.pc = "none"
      BY DEF BaseInv, ControlInv
    <3>2. closer # "none" => db.shutting_down
      BY <1>2 DEF BaseInv, ControlInv
    <3>3. CASE UNCHANGED job
      BY <3>3
    <3>4. CASE /\ ~db.shutting_down
               /\ \/ job' = [NoJob EXCEPT !.what = "flush", !.pc = "take"]
                  \/ job' = [NoJob EXCEPT !.what = "compaction", !.pc = "pick"]
      <4>1. job.pc = "none"
        BY <2>3, <3>1, <3>2, <3>4 DEF BgLoop
      <4> QED BY <3>4, <4>1
    <3> QED BY <2>3, <3>3, <3>4 DEF BgLoop
  <2>4. CASE JobDone
    BY <2>4 DEF JobDone
  <2> QED BY <2>1, <2>2, <2>3, <2>4 DEF ThreadSteps
<1>5. (job' = job \/ job'.pc \in {"none", "take", "pick"}) /\ (job'.pc = job.pc \/ job.pc \in {"none", "done"})
  BY <1>4, NoJobFields, NewJob, SMT
<1> QED BY <1>1, <1>2, <1>3, <1>5

\* A reader changes nothing but itself.
LEMMA ReaderEffects ==
    ASSUME NEW r \in Readers, ReaderSteps(r)
    PROVE  UNCHANGED <<log, sst, manifest, versions, tables, db, job, closer, hist, synced, mine, reused, faults>>
BY DEF ReaderSteps, Get, ReadMem, ReadFile, Return, files, history, bounds

\* What the end of the process leaves of the log.
LEMMA DownEffects ==
    ASSUME BaseInv, CloseJoin \/ Crash
    PROVE  /\ \E l \in LogFile : /\ log' = [log EXCEPT ![db.mem] = l]
                                 /\ Range(l.recs) \subseteq Range(log[db.mem].recs)
           /\ db.mem \in Files /\ closer # "down" /\ closer' = "down"
           /\ versions' = manifest /\ manifest' = manifest /\ sst' = sst /\ reused' = reused /\ faults' = faults
           /\ job' = NoJob /\ hist' = {} /\ db' = NoDB /\ tables' = [n \in Files |-> {}]
           /\ mine' = [k \in Keys |-> 0] /\ rd' = [r \in Readers |-> IdleReader]
<1>1. closer # "down" /\ db.mem \in Files /\ TypeOK
  BY BaseFields DEF CloseJoin, Crash, BaseInv
<1>2. log[db.mem] \in LogFile /\ log[db.mem].flushed <= Len(log[db.mem].recs)
  BY <1>1 DEF TypeOK
<1>3. \E l \in LogFile : Down([log EXCEPT ![db.mem] = l]) /\ Range(l.recs) \subseteq Range(log[db.mem].recs)
  <2>1. CASE CloseJoin
    <3>1. PICK l \in Closed(log[db.mem]) : Down([log EXCEPT ![db.mem] = l])
      BY <2>1 DEF CloseJoin
    <3>2. PICK n \in Nat : n <= Len(log[db.mem].recs) /\ l = Prefix(log[db.mem], n)
      BY <1>2, <3>1, ClosedFacts
    <3>3. l \in LogFile /\ Range(l.recs) \subseteq Range(log[db.mem].recs)
      BY <1>2, <3>2, PrefixFacts
    <3> QED BY <3>1, <3>3
  <2>2. CASE Crash
    <3> DEFINE l == log[db.mem]
    <3>1. PICK n \in l.flushed .. Len(l.recs), torn \in BOOLEAN :
             Down([log EXCEPT ![db.mem] = [Prefix(l, n) EXCEPT !.torn = @ \/ torn]])
      BY <2>2 DEF Crash
    <3> DEFINE c == [Prefix(l, n) EXCEPT !.torn = @ \/ torn]
    <3>2. c \in LogFile /\ Range(c.recs) \subseteq Range(l.recs)
      BY <1>2, CrashedLog
    <3>3. Down([log EXCEPT ![db.mem] = c])
      BY <3>1
    <3> HIDE DEF c
    <3> QED BY <3>2, <3>3
  <2> QED BY <2>1, <2>2
<1>4. PICK l \in LogFile : Down([log EXCEPT ![db.mem] = l]) /\ Range(l.recs) \subseteq Range(log[db.mem].recs)
  BY <1>3
<1>5. log' = [log EXCEPT ![db.mem] = l]
  BY <1>4 DEF Down
<1> QED BY <1>1, <1>4, <1>5 DEF Down

-----------------------------------------------------------------------------
\* Which tables exist.

\* The files of the current version have numbers and hold entries.
LEMMA LiveFacts ==
    ASSUME BaseInv, NEW f \in LiveFiles
    PROVE  f \in FileMetaData /\ f.number \in Files /\ f.number \in Numbers(versions) /\ Data(f) \in SUBSET Entry
<1>1. f \in FileMetaData
  BY BaseFields, VersionFields, SMT DEF LiveFiles, Range
<1>2. f.number \in Files
  BY <1>1, FileFields
<1>3. Data(f) \in SUBSET Entry
  BY <1>2 DEF Data, BaseInv, TypeOK, TableFile
<1> QED BY <1>1, <1>2, <1>3 DEF LiveFiles, Numbers

\* A step that leaves the levels and their files alone only has to account for
\* the running job.
LEMMA FileFrame ==
    ASSUME BaseInv, FileInv, reused => reused', versions'.l0 = versions.l0, versions'.l1 = versions.l1,
           ~reused' => \A n \in Numbers(versions) : sst'[n] = sst[n],
           ~reused' => JobFiles'
    PROVE  FileInv'
<1> SUFFICES ASSUME ~reused' PROVE FileInv'
  BY DEF FileInv
<1>1. /\ \A f \in LiveFiles : Sound(f)
      /\ DistinctNumbers
      /\ \A f, g \in versions.l1 : f # g => Before(f, g) \/ Before(g, f)
  BY DEF FileInv
<1>2. LiveFiles' = LiveFiles /\ \A f \in LiveFiles : sst'[f.number] = sst[f.number]
  BY LiveFacts DEF LiveFiles
<1>3. \A f \in LiveFiles' : Sound(f)'
  BY <1>1, <1>2 DEF Sound, Data
<1>4. DistinctNumbers'
  BY <1>1, SMT DEF DistinctNumbers
<1>5. (\A f, g \in versions.l1 : f # g => Before(f, g) \/ Before(g, f))'
  BY <1>1 DEF Before
<1> QED BY <1>3, <1>4, <1>5 DEF FileInv

\* A step that leaves the job, the levels and the files alone keeps what the job
\* relies on.
LEMMA JobFilesSame ==
    ASSUME JobFiles, UNCHANGED <<sst, job>>, versions'.l0 = versions.l0, versions'.l1 = versions.l1,
           job.pc = "install" => tables'[job.table] = tables[job.table]
    PROVE  JobFiles'
<1>1. Inputs' = Inputs /\ InputData' = InputData /\ Numbers(versions)' = Numbers(versions)
  BY DEF Inputs, InputData, Numbers, Data
<1>2. PickedInputs' <=> PickedInputs
  BY DEF PickedInputs, Before
<1> QED BY <1>1, <1>2 DEF JobFiles, Table, Merged

-----------------------------------------------------------------------------
\* The bounds of a live table that holds something are in order.
LEMMA SoundRange ==
    ASSUME BaseInv, NEW f \in LiveFiles, Sound(f)
    PROVE  f.lo <= f.hi /\ sst[f.number].is = "complete" /\ sst[f.number] # NoFile
<1>1. PICK e \in Data(f) : f.lo <= e.key /\ e.key <= f.hi
  BY DEF Sound
<1>2. e.key \in Nat /\ f.lo \in Nat /\ f.hi \in Nat
  BY LiveFacts, EntryFields, FileFields
<1> QED BY <1>1, <1>2, SMT DEF Sound, NoFile

\* Only a file of no table of the version is created or written.
LEMMA Fresh ==
    ASSUME BaseInv, FileInv, NEW n \in Files, Truncate(n), ~reused'
    PROVE  n \notin Numbers(versions) /\ n \notin BeingRead /\ ~reused /\ sst[n] = NoFile
<1>1. ~reused /\ sst[n] = NoFile /\ n \notin BeingRead
  BY DEF Truncate
<1>2. \A f \in LiveFiles : sst[f.number] # NoFile
  BY <1>1, SoundRange DEF FileInv
<1> QED BY <1>1, <1>2 DEF Numbers, LiveFiles

\* Writing one table file leaves the others as they are.
LEMMA OtherFiles ==
    ASSUME BaseInv, NEW n \in Files, NEW t, sst' = [sst EXCEPT ![n] = t]
    PROVE  sst'[n] = t /\ \A m \in Files : m # n => sst'[m] = sst[m]
BY DEF BaseInv, TypeOK

\* The inputs of a compaction are tables of the version.
LEMMA InputFacts ==
    ASSUME BaseInv, PickedInputs
    PROVE  /\ Inputs \subseteq LiveFiles
           /\ \A f \in Inputs : f \in FileMetaData /\ f.number \in Files /\ f.number \in Numbers(versions)
BY LiveFacts DEF Inputs, PickedInputs, LiveFiles

\* What appending a file to a level adds.
LEMMA AppendFacts ==
    ASSUME NEW s \in Seq(FileMetaData), NEW f \in FileMetaData, NEW t, t = Append(s, f)
    PROVE  /\ Len(t) = Len(s) + 1 /\ Len(s) \in Nat /\ t[Len(s) + 1] = f /\ t \in Seq(FileMetaData)
           /\ \A i \in 1 .. Len(s) : t[i] = s[i]
BY SMT

\* Appending a file adds it to the level.
LEMMA AppendRange ==
    ASSUME NEW s \in Seq(FileMetaData), NEW t \in Seq(FileMetaData), NEW f,
           Len(t) = Len(s) + 1, t[Len(s) + 1] = f, \A i \in 1 .. Len(s) : t[i] = s[i]
    PROVE  Range(t) = Range(s) \cup {f}
<1>1. Range(s) = {s[i] : i \in 1 .. Len(s)} /\ Range(t) = {t[i] : i \in 1 .. Len(t)}
  BY SMT DEF Range
<1>2. 1 .. Len(t) = 1 .. Len(s) \cup {Len(s) + 1}
  BY SMT
<1> QED BY <1>1, <1>2, SMT

-----------------------------------------------------------------------------
\* The tables after a compaction: its output, and what was not an input.
LEMMA ReplaceLevels ==
    ASSUME BaseInv, FilledInv, FileInv, ~reused, CompactReplace, NEW f, f = Meta(job.number, job.data)
    PROVE  /\ versions'.l0 = <<>> /\ versions'.l1 = (versions.l1 \ job.in1) \cup {f}
           /\ f \in FileMetaData /\ f.number = job.number /\ f.number \notin Numbers(versions)
           /\ PickedInputs /\ Inputs \subseteq LiveFiles /\ LiveFiles \ Inputs \subseteq versions.l1 \ job.in1
           /\ LiveFiles' = (versions.l1 \ job.in1) \cup {f}
           /\ sst[f.number] = Table(job.data) /\ job.data = Merged(InputData)
           /\ job.data \in SUBSET Entry /\ job.data # {}
           /\ \A e \in job.data : f.lo <= e.key /\ e.key <= f.hi
           /\ \E e \in job.data : e.key = f.lo
           /\ \E e \in job.data : e.key = f.hi
<1> DEFINE del0 == {g.number : g \in Range(job.in0)}
           del1 == {g.number : g \in job.in1}
           l0 == versions.l0
<1>1. job.pc = "replace"
  BY DEF CompactReplace
<1>2. JobFiles /\ DistinctNumbers
  BY DEF FileInv
<1>3. /\ PickedInputs /\ job.number \notin Numbers(versions)
      /\ job.data = Merged(InputData) /\ sst[job.number] = Table(job.data)
  BY <1>1, <1>2 DEF JobFiles
<1>4. /\ job.number \in Files /\ job.data \in SUBSET Entry /\ job.data # {} /\ f \in FileMetaData
      /\ versions'.l0 = Kept(l0, del0)
      /\ versions'.l1 = {g \in versions.l1 : g.number \notin del1} \cup {f}
  BY CompactReplaceFacts
<1>5. /\ f.number = job.number
      /\ \A e \in job.data : f.lo <= e.key /\ e.key <= f.hi
      /\ \E e \in job.data : e.key = f.lo
      /\ \E e \in job.data : e.key = f.hi
  BY <1>4, MetaFacts, SMT
<1>6. job.in0 = l0 /\ job.in1 \subseteq versions.l1
  BY <1>3 DEF PickedInputs
<1>7. l0 \in Seq(FileMetaData) /\ versions.l1 \in SUBSET FileMetaData
  BY BaseFields, VersionFields
<1>8. \A i \in 1 .. Len(l0) : l0[i].number \in del0
  BY <1>6, <1>7, SMT DEF Range
<1>9. versions'.l0 = <<>>
  <2> HIDE DEF del0, l0
  <2> QED BY <1>4, <1>7, <1>8, KeptAll
<1>10. {g \in versions.l1 : g.number \notin del1} = versions.l1 \ job.in1
  BY <1>2, <1>6, SMT DEF DistinctNumbers
<1>11. LiveFiles \ Inputs \subseteq versions.l1 \ job.in1
  BY <1>6 DEF LiveFiles, Inputs
<1>12. LiveFiles' = (versions.l1 \ job.in1) \cup {f}
  <2>1. Range(versions'.l0) = {}
    BY <1>9, SMT DEF Range
  <2> QED BY <1>4, <1>10, <2>1 DEF LiveFiles
<1>13. Inputs \subseteq LiveFiles
  BY <1>3, InputFacts
<1> QED BY <1>3, <1>4, <1>5, <1>9, <1>10, <1>11, <1>12, <1>13

\* Every step leaves the live files sound.
LEMMA FileNext ==
    ASSUME BaseInv, FilledInv, FileInv, Next
    PROVE  FileInv'
\* Outside the steps that build or install a table nothing is claimed of the job.
<1>JobFilesQuiet. ASSUME job'.pc \notin {"build", "install", "open", "merge", "replace", "remove"}
      PROVE  JobFiles'
  BY <1>JobFilesQuiet DEF JobFiles

\* Steps of the other threads leave the tables and what the job builds alone.
<1>FileOther. ASSUME \/ ThreadSteps \/ Open \/ CloseJoin \/ Crash
                     \/ \E w \in Writers : WriterSteps(w)
                     \/ \E r \in Readers : ReaderSteps(r)
      PROVE  FileInv'
  <2> USE <1>FileOther
  <2>0. versions.l0 = manifest.l0 /\ versions.l1 = manifest.l1
    BY DEF BaseInv, NumberInv
  <2>1. CASE ThreadSteps
    <3>1. UNCHANGED <<sst, versions, tables, reused>> /\ (job' = job \/ job'.pc \in {"none", "take", "pick"})
      BY <2>1, ThreadEffects
    <3>2. ~reused' => JobFiles'
      BY <3>1, <1>JobFilesQuiet, JobFilesSame DEF FileInv
    <3> QED BY <3>1, <3>2, FileFrame
  <2>2. CASE Open
    <3>1. sst' = sst /\ versions'.l0 = versions.l0 /\ versions'.l1 = versions.l1 /\ (reused => reused')
      BY <2>0, <2>2, OpenFacts DEF Open
    <3>2. job'.pc = "none"
      BY <2>2, NoJobFields, SMT DEF Open, BaseInv, ControlInv
    <3> QED BY <3>1, <3>2, <1>JobFilesQuiet, FileFrame
  <2>3. CASE CloseJoin \/ Crash
    BY <2>0, <2>3, DownEffects, NoJobFields, <1>JobFilesQuiet, FileFrame, SMT
  <2>4. ASSUME NEW w \in Writers, WriterSteps(w) PROVE FileInv'
    <3>1. /\ UNCHANGED <<sst, job>> /\ (reused => reused')
          /\ versions'.l0 = versions.l0 /\ versions'.l1 = versions.l1
          /\ \A n \in Files : n # db.mem /\ n < versions.next => tables'[n] = tables[n]
      <4>1. CASE Write(w)
        <5>1. PICK e : e = [seq |-> versions.seq + 1, key |-> wr[w].key]
          OBVIOUS
        <5>2. UNCHANGED <<sst, job, reused>> /\ versions'.l0 = versions.l0 /\ versions'.l1 = versions.l1
          BY <4>1, <5>1, WriteCases, WriteFacts
        <5>3. tables' = tables \/ tables' = [tables EXCEPT ![db.mem] = tables[db.mem] \cup {e}]
          BY <4>1, <5>1, WriteCases DEF Succeeds, Fails
        <5>4. tables \in [Files -> SUBSET Entry]
          BY DEF BaseInv, TypeOK
        <5> QED BY <5>2, <5>3, <5>4
      <4>2. ASSUME NEW k \in Keys, NEW s \in BOOLEAN, closer = "none", MakeRoomForWrite(w, k, s)
            PROVE  /\ UNCHANGED <<sst, job>> /\ (reused => reused')
                   /\ versions'.l0 = versions.l0 /\ versions'.l1 = versions.l1
                   /\ \A n \in Files : n # db.mem /\ n < versions.next => tables'[n] = tables[n]
        <5>1. job' = job
          BY <4>2, MakeRoomCases
        <5>2. CASE Moves(w, k, s)
          BY <5>1, <5>2 DEF Moves
        <5>3. ASSUME NEW ok \in BOOLEAN, Switches(w, k, s, ok)
              PROVE  /\ UNCHANGED sst /\ (reused => reused')
                     /\ versions'.l0 = versions.l0 /\ versions'.l1 = versions.l1
                     /\ \A n \in Files : n # db.mem /\ n < versions.next => tables'[n] = tables[n]
          <6>1. UNCHANGED sst /\ (reused => reused')
            BY <5>3 DEF Switches
          <6>2. /\ versions'.l0 = versions.l0 /\ versions'.l1 = versions.l1
                /\ tables' = [tables EXCEPT ![versions.next] = {}]
            BY <4>2, <5>3, SwitchFacts
          <6>3. tables \in [Files -> SUBSET Entry] /\ versions.next \in Nat
            BY BaseFields DEF BaseInv, TypeOK
          <6> QED BY <6>1, <6>2, <6>3, SMT
        <5> QED BY <4>2, <5>1, <5>2, <5>3, MakeRoomCases
      <4> QED BY <2>4, <4>1, <4>2 DEF WriterSteps
    <3>2. job.pc = "install" => tables'[job.table] = tables[job.table]
      <4>1. job.pc = "install" => job.table = db.imm /\ db.imm # 0
        BY DEF BaseInv, ControlInv
      <4>2. db.imm # 0 => db.imm \in Files /\ db.imm # db.mem /\ db.imm < versions.next
        BY BaseFields DEF BaseInv, NumberInv
      <4> QED BY <3>1, <4>1, <4>2
    <3>3. ~reused' => JobFiles'
      BY <3>1, <3>2, JobFilesSame DEF FileInv
    <3> QED BY <3>1, <3>3, FileFrame
  <2>5. ASSUME NEW r \in Readers, ReaderSteps(r) PROVE FileInv'
    <3>1. UNCHANGED <<sst, versions, tables, job, reused>>
      BY <2>5, ReaderEffects
    <3>2. ~reused' => JobFiles'
      BY <3>1, JobFilesSame DEF FileInv
    <3> QED BY <3>1, <3>2, FileFrame
  <2> QED BY <2>1, <2>2, <2>3, <2>4, <2>5

\* The steps of a flush other than recording the table leave the live files
\* sound.
<1>FlushFiles. ASSUME FlushTake \/ FlushBuild \/ FlushClear PROVE FileInv'
  <2> USE <1>FlushFiles
  <2>1. CASE FlushTake
    <3> DEFINE n == versions.next
    <3>1. /\ n \in Files /\ versions'.l0 = versions.l0 /\ versions'.l1 = versions.l1 /\ job'.pc = "build"
          /\ job'.number = n
      BY <2>1, FlushTakeFacts
    <3>2. Truncate(n)
      BY <2>1 DEF FlushTake
    <3>3. (reused => reused') /\ sst' = [sst EXCEPT ![n] = Partial]
      BY <3>2 DEF Truncate
    <3>4. ASSUME ~reused' PROVE n \notin Numbers(versions)
      BY <3>1, <3>2, <3>4, Fresh
    <3>5. ~reused' => \A m \in Numbers(versions) : sst'[m] = sst[m]
      BY <3>1, <3>3, <3>4, LiveFacts, OtherFiles, SMT DEF Numbers, LiveFiles
    <3>6. Numbers(versions)' = Numbers(versions)
      BY <3>1 DEF Numbers
    <3>7. ~reused' => JobFiles'
      BY <3>1, <3>4, <3>6 DEF JobFiles
    <3> QED BY <3>1, <3>3, <3>5, <3>7, FileFrame
  <2>2. CASE FlushBuild
    <3>1. /\ job.pc = "build" /\ job.number \in Files /\ UNCHANGED <<versions, reused, tables>>
          /\ sst' = [sst EXCEPT ![job.number] = Table(tables[job.table])]
      <4>1. job.pc = "build" /\ job.number \in 0 .. MaxFile /\ job.number # 0
        BY <2>2, BaseFields, SMT DEF FlushBuild, BaseInv, ControlInv, JobType
      <4> QED BY <2>2, <4>1, EngineBounds, SMT DEF FlushBuild, history, Files
    <3>2. job'.pc = "install" /\ job'.number = job.number /\ job'.table = job.table
      BY <2>2, FlushBuildFacts
    <3>3. ~reused' => job.number \notin Numbers(versions)
      BY <3>1 DEF FileInv, JobFiles
    <3>4. ~reused' => \A m \in Numbers(versions) : sst'[m] = sst[m]
      BY <3>1, <3>3, LiveFacts, OtherFiles, SMT DEF Numbers, LiveFiles
    <3>5. sst'[job.number] = Table(tables[job.table])
      BY <3>1, OtherFiles
    <3>6. ~reused' => JobFiles'
      BY <3>1, <3>2, <3>3, <3>5 DEF JobFiles, Table, Numbers
    <3> QED BY <3>1, <3>4, <3>6, FileFrame
  <2>3. CASE FlushClear
    <3>1. UNCHANGED <<versions, reused, sst>> /\ job' = [job EXCEPT !.pc = "done"] /\ job \in JobType
      BY <2>3, BaseFields DEF FlushClear, files, history
    <3>2. job'.pc = "done"
      BY <3>1 DEF JobType
    <3> QED BY <3>1, <3>2, <1>JobFilesQuiet, FileFrame
  <2> QED BY <2>1, <2>2, <2>3

\* Recording a flushed table leaves the live files sound: the table is complete
\* and its bounds are those of its keys.
<1>FlushInstallFiles. ASSUME FlushInstall PROVE FileInv'
  <2> USE <1>FlushInstallFiles
  <2> DEFINE l0 == versions.l0
  <2>0. PICK f : f = Meta(job.number, tables[job.table])
    OBVIOUS
  <2> SUFFICES ASSUME ~reused' PROVE FileInv'
    BY DEF FileInv
  <2>1. UNCHANGED <<sst, reused, tables>> /\ job.pc = "install"
    BY DEF FlushInstall, history
  <2>2. /\ job.number \in Files /\ f \in FileMetaData /\ tables[job.table] \in SUBSET Entry /\ tables[job.table] # {}
        /\ versions'.l0 = Append(l0, f) /\ versions'.l1 = versions.l1 /\ job'.pc = "clear"
        /\ f.number = job.number
    <3>1. job.number \in Files /\ tables[job.table] \in SUBSET Entry /\ tables[job.table] # {}
      BY FlushInstallFacts
    <3> QED BY <2>0, <3>1, FlushInstallFacts, MetaFacts
  <2>3. sst[f.number] = Table(tables[job.table]) /\ f.number \notin Numbers(versions)
    BY <2>1, <2>2 DEF FileInv, JobFiles
  <2>4. \A e \in tables[job.table] : f.lo <= e.key /\ e.key <= f.hi
    BY <2>0, <2>2, MetaFacts
  <2>5. l0 \in Seq(FileMetaData) /\ versions.l1 \in SUBSET FileMetaData
    BY BaseFields, VersionFields
  <2>6. Sound(f)'
    BY <2>1, <2>2, <2>3, <2>4, SMT DEF Sound, Data, Table
  <2>7. LiveFiles' = LiveFiles \cup {f}
    <3>1. Range(versions'.l0) = Range(l0) \cup {f}
      <4> DEFINE t == versions'.l0
      <4>1. t = Append(l0, f)
        BY <2>2
      <4> HIDE DEF t, l0
      <4>2. Range(t) = Range(l0) \cup {f}
        <5>1. /\ Len(t) = Len(l0) + 1 /\ t[Len(l0) + 1] = f /\ t \in Seq(FileMetaData)
              /\ \A i \in 1 .. Len(l0) : t[i] = l0[i]
          BY <2>2, <2>5, <4>1, AppendFacts, SMT
        <5> QED BY <2>5, <5>1, AppendRange, SMT
      <4> QED BY <4>2 DEF t
    <3> QED BY <2>2, <3>1 DEF LiveFiles
  <2>8. \A g \in LiveFiles : Sound(g)'
    BY <2>1 DEF FileInv, Sound, Data
  <2>9. DistinctNumbers'
    <3>1. DistinctNumbers
      BY <2>1 DEF FileInv
    <3>2. \A i \in 1 .. Len(l0) : l0[i].number # f.number
      BY <2>3, <2>5, SMT DEF Numbers, Range
    <3>3. \A g \in versions.l1 : g.number # f.number
      BY <2>3 DEF Numbers
    <3> DEFINE l0p == versions'.l0
    <3>4. /\ Len(l0p) = Len(l0) + 1 /\ Len(l0) \in Nat /\ l0p[Len(l0) + 1] = f
          /\ \A i \in 1 .. Len(l0) : l0p[i] = l0[i]
      BY <2>2, <2>5, AppendFacts, SMT
    <3>5. \A i \in 1 .. Len(l0p) : i \in 1 .. Len(l0) \/ i = Len(l0) + 1
      BY <3>4, SMT
    <3>6. \A i, j \in 1 .. Len(l0p) : l0p[i].number = l0p[j].number => i = j
      BY <3>1, <3>2, <3>4, <3>5 DEF DistinctNumbers
    <3>7. \A i \in 1 .. Len(l0p) : \A g \in versions.l1 : l0p[i].number # g.number
      BY <3>1, <3>3, <3>4, <3>5, SMTT(30) DEF DistinctNumbers
    <3> QED BY <2>2, <3>1, <3>6, <3>7 DEF DistinctNumbers
  <2>10. JobFiles'
    BY <2>2, <1>JobFilesQuiet
  <2>11. \A a, b \in versions'.l1 : a # b => Before(a, b) \/ Before(b, a)
    BY <2>1, <2>2 DEF FileInv
  <2> QED BY <2>6, <2>7, <2>8, <2>9, <2>10, <2>11 DEF FileInv, Before

\* The inputs of a compaction are all of level 0 and every file of level 1 that
\* overlaps it.
<1>CompactPickFiles. ASSUME CompactPick PROVE FileInv'
  <2> USE <1>CompactPickFiles
  <2> DEFINE L0 == Range(versions.l0)
             lo == Min({g.lo : g \in L0})
             hi == Max({g.hi : g \in L0})
  <2>1. UNCHANGED <<sst, reused>>
    BY DEF CompactPick, files, history
  <2>2. CASE job'.pc = "done" /\ UNCHANGED versions
    BY <2>1, <2>2, <1>JobFilesQuiet, FileFrame
  <2>3. CASE /\ versions.l0 # <<>> /\ versions'.l0 = versions.l0 /\ versions'.l1 = versions.l1
             /\ job'.pc = "open" /\ job'.in0 = versions.l0
             /\ job'.in1 = {f \in versions.l1 : FileOverlapsRange(f, lo, hi)}
    <3>1. versions.l0 \in Seq(FileMetaData) /\ versions.l1 \in SUBSET FileMetaData
      BY BaseFields, VersionFields
    <3>2. L0 \subseteq FileMetaData /\ L0 # {}
      <4> DEFINE s == versions.l0
      <4>1. s \in Seq(FileMetaData) /\ s # <<>>
        BY <2>3, <3>1
      <4> HIDE DEF s
      <4>2. Range(s) \subseteq FileMetaData /\ Range(s) # {}
        <5>1. 1 \in DOMAIN s /\ \A i \in DOMAIN s : s[i] \in FileMetaData
          BY <4>1, SMT
        <5> QED BY <5>1 DEF Range
      <4> QED BY <4>2 DEF s
    <3>3. {g.lo : g \in L0} \in SUBSET Keys /\ {g.hi : g \in L0} \in SUBSET Keys
      BY <3>2, FileFields
    <3>4. {g.lo : g \in L0} # {} /\ {g.hi : g \in L0} # {}
      BY <3>2
    <3>5. (\E a \in L0 : a.lo = lo) /\ \A a \in L0 : lo <= a.lo
      <4>1. lo \in {g.lo : g \in L0} /\ \A y \in {g.lo : g \in L0} : lo <= y
        BY <3>3, <3>4, KeyBounds
      <4> HIDE DEF lo
      <4> QED BY <4>1
    <3>6. (\E a \in L0 : a.hi = hi) /\ \A a \in L0 : a.hi <= hi
      <4>1. hi \in {g.hi : g \in L0} /\ \A y \in {g.hi : g \in L0} : y <= hi
        BY <3>3, <3>4, KeyBounds
      <4> HIDE DEF hi
      <4> QED BY <4>1
    <3>7. lo \in Nat /\ hi \in Nat
      BY <3>2, <3>5, <3>6, FileFields
    <3> HIDE DEF lo, hi
    <3>8. ASSUME NEW f \in job'.in1 PROVE (\E a \in L0 : ~Before(f, a)) /\ \E a \in L0 : ~Before(a, f)
      <4>1. f.hi >= lo /\ f.lo <= hi /\ f.lo \in Nat /\ f.hi \in Nat
        BY <2>3, <3>1, <3>8, FileFields DEF FileOverlapsRange
      <4>2. PICK a \in L0 : a.lo = lo
        BY <3>5
      <4>3. ~Before(f, a)
        BY <3>7, <4>1, <4>2, SMT DEF Before
      <4>4. PICK b \in L0 : b.hi = hi
        BY <3>6
      <4>5. ~Before(b, f)
        BY <3>7, <4>1, <4>4, SMT DEF Before
      <4> QED BY <4>3, <4>5
    <3>9. ASSUME NEW f \in versions.l1, f \notin job'.in1
          PROVE  (\A a \in L0 : Before(f, a)) \/ \A a \in L0 : Before(a, f)
      <4>1. (f.hi < lo \/ hi < f.lo) /\ f.lo \in Nat /\ f.hi \in Nat
        <5>1. f.lo \in Nat /\ f.hi \in Nat
          BY <3>1, FileFields
        <5>2. ~FileOverlapsRange(f, lo, hi)
          BY <2>3, <3>9
        <5> QED BY <3>7, <5>1, <5>2, SMT DEF FileOverlapsRange
      <4>2. \A a \in L0 : a.lo \in Nat /\ a.hi \in Nat
        BY <3>2, FileFields
      <4> QED BY <3>5, <3>6, <3>7, <4>1, <4>2, SMT DEF Before
    <3>10. PickedInputs'
      BY <2>3, <3>8, <3>9 DEF PickedInputs, Before
    <3>11. JobFiles'
      BY <2>3, <3>10 DEF JobFiles
    <3> QED BY <2>1, <2>3, <3>11, FileFrame
  <2> QED BY <2>2, <2>3, CompactPickFacts

\* Opening and merging the inputs leaves the live files sound.
<1>CompactBuildFiles. ASSUME CompactOpen \/ CompactMerge PROVE FileInv'
  <2> USE <1>CompactBuildFiles
  <2> DEFINE n == job.number
  <2>0. versions' = versions
    BY DEF CompactOpen, CompactMerge
  <2>1. CASE job'.pc = "done" /\ UNCHANGED <<sst, reused>>
    BY <2>0, <2>1, <1>JobFilesQuiet, FileFrame
  <2>2. ASSUME n \in Files, NEW t, sst' = [sst EXCEPT ![n] = t], reused => reused',
               ~reused' => n \notin Numbers(versions) /\ PickedInputs,
               job'.number = n, job'.in0 = job.in0, job'.in1 = job.in1,
               \/ job'.pc = "merge" /\ job'.data = InputData
               \/ ~reused' => /\ job'.pc = "replace" /\ job'.data = Merged(InputData)
                              /\ t = Table(Merged(InputData))
        PROVE  FileInv'
    <3>1. sst'[n] = t /\ \A m \in Files : m # n => sst'[m] = sst[m]
      BY <2>2, OtherFiles
    <3>2. ~reused' => \A m \in Numbers(versions) : sst'[m] = sst[m]
      BY <2>2, <3>1, LiveFacts DEF Numbers, LiveFiles
    <3>3. ASSUME ~reused' PROVE JobFiles'
      <4>1. \A f \in Inputs : sst'[f.number] = sst[f.number]
        BY <2>2, <3>2, <3>3, InputFacts
      <4>2. InputData' = InputData
        BY <2>2, <4>1 DEF InputData, Data, Inputs
      <4>3. PickedInputs'
        BY <2>0, <2>2, <3>3 DEF PickedInputs, Before
      <4>4. job'.number \notin Numbers(versions')
        BY <2>0, <2>2, <3>3 DEF Numbers
      <4>5. CASE job'.pc = "merge" /\ job'.data = InputData
        BY <4>2, <4>3, <4>4, <4>5 DEF JobFiles, Numbers
      <4>6. CASE /\ job'.pc = "replace" /\ job'.data = Merged(InputData)
                 /\ t = Table(Merged(InputData))
        BY <2>2, <3>1, <4>2, <4>3, <4>4, <4>6 DEF JobFiles, Numbers, Merged, Table
      <4> QED BY <2>2, <3>3, <4>5, <4>6
    <3> QED BY <2>0, <2>2, <3>2, <3>3, FileFrame
  <2>3. CASE CompactOpen
    <3>1. job.pc = "open" /\ n \in Files /\ job'.number = n /\ job'.in0 = job.in0 /\ job'.in1 = job.in1
      BY <2>3, CompactOpenFacts DEF CompactOpen
    <3>2. CASE job'.pc = "merge" /\ job'.data = InputData /\ Truncate(n)
      <4>1. sst' = [sst EXCEPT ![n] = Partial] /\ (reused => reused')
        BY <3>2 DEF Truncate
      <4>2. ~reused' => n \notin Numbers(versions) /\ PickedInputs
        BY <3>1, <3>2, Fresh DEF FileInv, JobFiles
      <4> QED BY <2>2, <3>1, <3>2, <4>1, <4>2
    <3> QED BY <2>1, <2>3, <3>2, CompactOpenFacts
  <2>4. CASE CompactMerge
    <3>1. job.pc = "merge" /\ sst' = [sst EXCEPT ![n] = Table(Merged(job.data))] /\ UNCHANGED reused
      BY <2>4 DEF CompactMerge, history
    <3>2. /\ n \in Files /\ job'.number = n /\ job'.in0 = job.in0 /\ job'.in1 = job.in1
          /\ job'.pc = "replace" /\ job'.data = Merged(job.data)
      BY <2>4, CompactMergeFacts
    <3>3. ~reused' => n \notin Numbers(versions) /\ PickedInputs /\ job.data = InputData
      BY <3>1 DEF FileInv, JobFiles
    <3> QED BY <2>2, <3>1, <3>2, <3>3
  <2> QED BY <2>3, <2>4

\* Removing inputs touches only files no version holds any more.
<1>JobEndsFiles. ASSUME CompactRemove \/ JobFails PROVE FileInv'
  <2> USE <1>JobEndsFiles
  <2>1. UNCHANGED <<versions, reused>> /\ job'.pc = "done"
    BY JobEnds
  <2>2. ~reused' => \A n \in Numbers(versions) : sst'[n] = sst[n]
    <3>1. CASE JobFails
      BY <3>1 DEF JobFails, files
    <3>2. CASE CompactRemove
      <4>1. ~reused' => \A f \in Inputs : f.number \notin Numbers(versions)
        BY <2>1, <3>2 DEF FileInv, JobFiles, CompactRemove
      <4>2. Numbers(versions) \subseteq Files
        BY LiveFacts DEF Numbers, LiveFiles
      <4> QED BY <3>2, <4>1, <4>2 DEF CompactRemove
    <3> QED BY <3>1, <3>2
  <2> QED BY <2>1, <2>2, <1>JobFilesQuiet, FileFrame

\* Keys on one side of a table stay on that side of everything merged with it.
<1>Beside. ASSUME ~reused, PickedInputs, NEW g \in versions.l1 \ job.in1, NEW e \in InputData
      PROVE  /\ (\A a \in Range(versions.l0) : Before(g, a)) => g.hi < e.key
             /\ (\A a \in Range(versions.l0) : Before(a, g)) => e.key < g.lo
  <2> USE <1>Beside
  <2> DEFINE L0 == Range(versions.l0)
  <2>1. PICK i \in Inputs : e \in Data(i)
    BY DEF InputData
  <2>2. i \in LiveFiles /\ g \in LiveFiles
    BY InputFacts DEF LiveFiles
  <2>3. Sound(i) /\ Sound(g)
    BY <2>2 DEF FileInv
  <2>4. i.lo <= e.key /\ e.key <= i.hi
    BY <2>1, <2>3 DEF Sound
  <2>5. /\ g.lo <= g.hi /\ g.lo \in Nat /\ g.hi \in Nat
        /\ i.lo \in Nat /\ i.hi \in Nat /\ e.key \in Nat
    BY <2>1, <2>2, <2>3, SoundRange, LiveFacts, FileFields, EntryFields
  <2>6. \A a \in L0 : a.lo \in Nat /\ a.hi \in Nat
    BY LiveFacts, FileFields, SMT DEF LiveFiles
  <2>7. CASE i \in L0
    BY <2>4, <2>5, <2>7, SMT DEF Before
  <2>8. CASE i \notin L0
    <3>1. i \in job.in1 /\ i \in versions.l1 /\ i # g
      BY <2>8, <2>1 DEF Inputs, PickedInputs
    <3>2. PICK a \in L0 : ~Before(i, a)
      BY <3>1 DEF PickedInputs
    <3>3. PICK b \in L0 : ~Before(b, i)
      BY <3>1 DEF PickedInputs
    <3>4. Before(i, g) \/ Before(g, i)
      BY <3>1 DEF FileInv
    <3>5. a.lo <= i.hi /\ i.lo <= b.hi
      BY <2>5, <2>6, <3>2, <3>3, SMT DEF Before
    <3>6. ASSUME \A c \in L0 : Before(g, c) PROVE g.hi < e.key
      <4>1. g.hi < a.lo
        BY <3>6 DEF Before
      <4> QED BY <2>4, <2>5, <2>6, <3>4, <3>5, <4>1, SMT DEF Before
    <3>7. ASSUME \A c \in L0 : Before(c, g) PROVE e.key < g.lo
      <4>1. b.hi < g.lo
        BY <3>7 DEF Before
      <4> QED BY <2>4, <2>5, <2>6, <3>4, <3>5, <4>1, SMT DEF Before
    <3> QED BY <3>6, <3>7
  <2> QED BY <2>7, <2>8

\* The output of a compaction takes the place of its inputs, and level 1 stays
\* disjoint.
<1>CompactReplaceFiles. ASSUME CompactReplace PROVE FileInv'
  <2> USE <1>CompactReplaceFiles
  <2>0. PICK f : f = Meta(job.number, job.data)
    OBVIOUS
  <2> SUFFICES ASSUME ~reused' PROVE FileInv'
    BY DEF FileInv
  <2>1. UNCHANGED <<sst, reused>> /\ ~reused
    BY DEF CompactReplace, history
  <2>2. /\ versions'.l0 = <<>> /\ versions'.l1 = (versions.l1 \ job.in1) \cup {f}
        /\ f \in FileMetaData /\ f.number = job.number /\ f.number \notin Numbers(versions)
        /\ PickedInputs /\ Inputs \subseteq LiveFiles
        /\ LiveFiles' = (versions.l1 \ job.in1) \cup {f}
        /\ sst[f.number] = Table(job.data) /\ job.data = Merged(InputData)
        /\ job.data \in SUBSET Entry /\ job.data # {}
        /\ \A e \in job.data : f.lo <= e.key /\ e.key <= f.hi
        /\ \E e \in job.data : e.key = f.lo
        /\ \E e \in job.data : e.key = f.hi
    BY <2>0, <2>1, ReplaceLevels, SMT
  <2>3. /\ \A g \in LiveFiles : Sound(g)
        /\ DistinctNumbers
        /\ \A g, h \in versions.l1 : g # h => Before(g, h) \/ Before(h, g)
    BY <2>1 DEF FileInv
  <2>4. \A g \in LiveFiles' : Sound(g)'
    <3>1. Sound(f)'
      BY <2>1, <2>2, SMT DEF Sound, Data, Table
    <3>2. \A g \in LiveFiles : Sound(g)'
      BY <2>1, <2>3 DEF Sound, Data
    <3> QED BY <2>2, <3>1, <3>2 DEF LiveFiles
  <2>5. \A g \in versions.l1 : g.number # f.number
    BY <2>2 DEF Numbers
  <2>6. DistinctNumbers'
    <3>1. Len(versions'.l0) = 0
      BY <2>2, SMT
    <3>2. \A g, h \in versions'.l1 : g.number = h.number => g = h
      BY <2>2, <2>3, <2>5 DEF DistinctNumbers
    <3> QED BY <3>1, <3>2, SMT DEF DistinctNumbers
  <2>7. ASSUME NEW g \in versions.l1 \ job.in1 PROVE Before(g, f) \/ Before(f, g)
    <3>1. job.data \subseteq InputData
      BY <2>2 DEF Merged
    <3>2. PICK e \in job.data : e.key = f.lo
      BY <2>2
    <3>3. PICK d \in job.data : d.key = f.hi
      BY <2>2
    <3>4. \/ \A a \in Range(versions.l0) : Before(g, a)
          \/ \A a \in Range(versions.l0) : Before(a, g)
      BY <2>2, <2>7 DEF PickedInputs
    <3> QED BY <2>1, <2>2, <3>1, <3>2, <3>3, <3>4, <1>Beside DEF Before
  <2>8. \A g, h \in versions'.l1 : g # h => Before(g, h) \/ Before(h, g)
    BY <2>2, <2>3, <2>7
  <2>9. JobFiles'
    <3>1. job'.pc = "remove" /\ job'.in0 = job.in0 /\ job'.in1 = job.in1
      BY CompactReplaceFacts
    <3>2. ASSUME NEW i \in Inputs, NEW g \in LiveFiles' PROVE i.number # g.number
      <4>1. CASE g = f
        BY <2>2, <4>1, InputFacts
      <4>2. CASE g \in versions.l1 \ job.in1
        <5>1. CASE i \in job.in1
          BY <2>2, <2>3, <4>2, <5>1 DEF DistinctNumbers, PickedInputs
        <5>2. CASE i \in Range(job.in0)
          <6>1. versions.l0 \in Seq(FileMetaData) /\ job.in0 = versions.l0
            BY <2>2, BaseFields, VersionFields DEF PickedInputs
          <6>2. PICK j \in 1 .. Len(versions.l0) : i = versions.l0[j]
            BY <5>2, <6>1, SMT DEF Range
          <6> QED BY <2>3, <4>2, <6>2 DEF DistinctNumbers
        <5> QED BY <5>1, <5>2 DEF Inputs
      <4> QED BY <2>2, <3>2, <4>1, <4>2
    <3>3. Inputs' = Inputs /\ Numbers(versions)' = {g.number : g \in LiveFiles'}
      BY <3>1 DEF Inputs, Numbers, LiveFiles
    <3> QED BY <3>1, <3>2, <3>3 DEF JobFiles
  <2> QED BY <2>4, <2>6, <2>8, <2>9 DEF FileInv, Before

\* All steps together.
<1>1. CASE JobSteps
  BY <1>1, <1>FlushFiles, <1>FlushInstallFiles, <1>CompactPickFiles, <1>CompactBuildFiles, <1>CompactReplaceFiles,
     <1>JobEndsFiles DEF JobSteps
<1> QED BY <1>1, NextCases, <1>FileOther

\* A new database has no table.
LEMMA FileInit == Init => FileInv
<1> SUFFICES ASSUME Init PROVE FileInv
  OBVIOUS
<1>1. versions.l0 = <<>> /\ versions.l1 = {} /\ job.pc = "none"
  BY NoJobFields DEF Init
<1>2. LiveFiles = {} /\ Len(versions.l0) = 0
  BY <1>1, SMT DEF LiveFiles, Range
<1>3. DistinctNumbers /\ JobFiles
  BY <1>1, <1>2, SMT DEF DistinctNumbers, JobFiles
<1> QED BY <1>1, <1>2, <1>3 DEF FileInv

\* A step that changes nothing leaves the live files sound.
LEMMA FileStutter == ASSUME BaseInv, FileInv, UNCHANGED vars PROVE FileInv'
<1>1. UNCHANGED <<sst, versions, tables, job, reused>>
  BY DEF vars, files, history
<1>2. ~reused' => JobFiles'
  BY <1>1, JobFilesSame DEF FileInv
<1> QED BY <1>1, <1>2, FileFrame

-----------------------------------------------------------------------------
\* What each step does to the layers of the database.

\* The layers hold entries.
LEMMA LayerTypes ==
    ASSUME BaseInv
    PROVE  /\ Live \in SUBSET Entry /\ Mem \in SUBSET Entry /\ Imm \in SUBSET Entry
           /\ LogData \in SUBSET Entry /\ hist \in SUBSET Entry
           /\ manifest.seq \in Nat /\ versions.seq \in Nat /\ job.seq \in Nat
<1>1. Live \in SUBSET Entry
  BY LiveFacts DEF Live
<1>2. Mem \in SUBSET Entry /\ Imm \in SUBSET Entry
  <2>1. \A n \in 0 .. MaxFile : Table0(n) \in SUBSET Entry
    BY EngineBounds, SMT DEF Table0, BaseInv, TypeOK, Files
  <2> QED BY <2>1, BaseFields DEF Mem, Imm, DBType
<1>3. LogData \in SUBSET Entry
  <2>1. CASE manifest.log = 0
    BY <2>1 DEF LogData
  <2>2. CASE manifest.log # 0
    <3>1. manifest.log \in Files
      BY <2>2, BaseFields, VersionFields, EngineBounds, SMT DEF Files
    <3>2. log[manifest.log] \in LogFile
      BY <3>1 DEF BaseInv, TypeOK
    <3>3. Range(log[manifest.log].recs) \subseteq Entry
      BY <3>2, LogFields, RangeOfRecs
    <3> QED BY <2>2, <3>3 DEF LogData
  <2> QED BY <2>1, <2>2
<1>4. hist \in SUBSET Entry /\ manifest.seq \in Nat /\ versions.seq \in Nat /\ job.seq \in Nat
  BY BaseFields, VersionFields, SMT DEF BaseInv, TypeOK, JobType
<1> QED BY <1>1, <1>2, <1>3, <1>4

\* The same levels with the same files hold the same entries.
LEMMA SameTables ==
    ASSUME BaseInv, versions'.l0 = versions.l0, versions'.l1 = versions.l1,
           \A n \in Numbers(versions) : sst'[n] = sst[n]
    PROVE  /\ LiveFiles' = LiveFiles /\ Live' = Live
           /\ \A f \in LiveFiles : sst'[f.number] = sst[f.number]
<1>1. LiveFiles' = LiveFiles /\ \A f \in LiveFiles : sst'[f.number] = sst[f.number]
  BY LiveFacts DEF LiveFiles
<1> QED BY <1>1 DEF Live, Data

\* The steps of a job that change no level.
QuietJobStep ==
    \/ FlushTake \/ FlushBuild \/ FlushClear \/ CompactPick \/ CompactOpen \/ CompactMerge
    \/ CompactRemove \/ JobFails

\* Steps of a flush or a compaction that change neither the levels nor the log.
LEMMA QuietJob ==
    ASSUME BaseInv, FileInv, ~reused', QuietJobStep
    PROVE  /\ ~reused /\ UNCHANGED <<log, manifest, tables, hist, closer, synced, mine, rd>>
           /\ versions'.seq = versions.seq /\ versions'.l0 = versions.l0 /\ versions'.l1 = versions.l1
           /\ db'.mem = db.mem
           /\ \/ job.pc # "clear" /\ db'.imm = db.imm
              \/ job.pc = "clear" /\ db'.imm = 0
           /\ job'.pc \notin {"none", "take", "clear", "remove"}
           /\ \A n \in Numbers(versions) : sst'[n] = sst[n]
           /\ faults' = faults \/ faults' = faults + 1
<1>1. ~reused /\ UNCHANGED <<log, manifest, tables, hist, closer, synced, mine, rd>>
  <2>1. CASE FlushTake
    BY <2>1 DEF FlushTake, Truncate
  <2>2. CASE FlushBuild \/ FlushClear
    BY <2>2, SMT DEF FlushBuild, FlushClear, files, history
  <2>3. CASE CompactPick \/ CompactMerge
    BY <2>3, SMT DEF CompactPick, CompactMerge, files, history
  <2>4. CASE CompactOpen
    BY <2>4 DEF CompactOpen, Truncate
  <2>5. CASE CompactRemove \/ JobFails
    BY <2>5, JobEnds, SMT
  <2> QED BY <2>1, <2>2, <2>3, <2>4, <2>5 DEF QuietJobStep
<1>2. /\ versions'.seq = versions.seq /\ versions'.l0 = versions.l0 /\ versions'.l1 = versions.l1
      /\ job'.pc \notin {"none", "take", "clear", "remove"}
  <2>1. CASE FlushTake
    BY <2>1, FlushTakeFacts
  <2>2. CASE FlushBuild
    BY <2>2, FlushBuildFacts DEF FlushBuild
  <2>3. CASE FlushClear
    <3>1. versions' = versions /\ job' = [job EXCEPT !.pc = "done"] /\ job \in JobType
      BY <2>3, BaseFields DEF FlushClear
    <3> QED BY <3>1 DEF JobType
  <2>4. CASE CompactPick
    BY <2>4, CompactPickFacts
  <2>5. CASE CompactOpen
    BY <2>5, CompactOpenFacts DEF CompactOpen
  <2>6. CASE CompactMerge
    BY <2>6, CompactMergeFacts DEF CompactMerge
  <2>7. CASE CompactRemove \/ JobFails
    BY <2>7, JobEnds
  <2> QED BY <2>1, <2>2, <2>3, <2>4, <2>5, <2>6, <2>7 DEF QuietJobStep
<1>3. /\ db'.mem = db.mem
      /\ \/ job.pc # "clear" /\ db'.imm = db.imm
         \/ job.pc = "clear" /\ db'.imm = 0
  <2>1. CASE FlushClear
    <3>1. db' = [db EXCEPT !.imm = 0] /\ db \in DBType /\ job.pc = "clear"
      BY <2>1, BaseFields DEF FlushClear
    <3> QED BY <3>1 DEF DBType
  <2>2. CASE ~FlushClear
    <3>1. CASE FlushTake \/ FlushBuild \/ CompactOpen \/ CompactMerge
      BY <3>1 DEF FlushTake, FlushBuild, CompactOpen, CompactMerge
    <3>2. CASE CompactPick \/ CompactRemove \/ JobFails
      BY <3>2 DEF CompactPick, CompactRemove, JobFails
    <3> QED BY <2>2, <3>1, <3>2 DEF QuietJobStep
  <2> QED BY <2>1, <2>2
<1>4. \A n \in Numbers(versions) : sst'[n] = sst[n]
  <2>0. Numbers(versions) \subseteq Files
    BY LiveFacts DEF Numbers, LiveFiles
  <2>1. CASE FlushTake
    <3>1. versions.next \in Files
      BY <2>1, FlushTakeFacts
    <3>2. sst' = [sst EXCEPT ![versions.next] = Partial] /\ Truncate(versions.next)
      BY <2>1 DEF FlushTake, Truncate
    <3>3. versions.next \notin Numbers(versions)
      BY <3>1, <3>2, Fresh
    <3> QED BY <2>0, <3>1, <3>2, <3>3, OtherFiles
  <2>2. CASE FlushBuild \/ CompactMerge
    <3>1. job.number \in Files
      <4>1. job.number \in 0 .. MaxFile /\ job.number # 0
        BY <2>2, BaseFields DEF FlushBuild, CompactMerge, BaseInv, ControlInv, JobType
      <4> QED BY <4>1, EngineBounds, SMT DEF Files
    <3>2. \E t : sst' = [sst EXCEPT ![job.number] = t]
      BY <2>2 DEF FlushBuild, CompactMerge
    <3>3. job.number \notin Numbers(versions)
      BY <1>1, <2>2 DEF FlushBuild, CompactMerge, FileInv, JobFiles
    <3> QED BY <2>0, <3>1, <3>2, <3>3, OtherFiles
  <2>3. CASE CompactOpen
    <3>1. CASE UNCHANGED sst
      BY <3>1
    <3>2. CASE job.number \in Files /\ Truncate(job.number)
      <4>1. sst' = [sst EXCEPT ![job.number] = Partial]
        BY <3>2 DEF Truncate
      <4>2. job.number \notin Numbers(versions)
        BY <3>2, Fresh
      <4> QED BY <2>0, <3>2, <4>1, <4>2, OtherFiles
    <3> QED BY <2>3, <3>1, <3>2, CompactOpenFacts
  <2>4. CASE CompactRemove
    <3>1. \A f \in Inputs : f.number \notin Numbers(versions)
      BY <1>1, <2>4 DEF FileInv, JobFiles, CompactRemove
    <3> QED BY <2>0, <2>4, <3>1 DEF CompactRemove
  <2>5. CASE FlushClear \/ CompactPick \/ JobFails
    BY <2>5 DEF FlushClear, CompactPick, JobFails, files
  <2> QED BY <2>1, <2>2, <2>3, <2>4, <2>5 DEF QuietJobStep
<1>5. faults' = faults \/ faults' = faults + 1
  BY DEF QuietJobStep, FlushTake, FlushBuild, FlushClear, CompactPick, CompactOpen, CompactMerge,
         CompactRemove, JobFails, bounds
<1> QED BY <1>1, <1>2, <1>3, <1>4, <1>5

\* Those steps change no layer, except that the last of a flush drops the
\* memtable it wrote.
LEMMA QuietLayers ==
    ASSUME BaseInv, FileInv, ~reused', QuietJobStep
    PROVE  /\ Live' = Live /\ LogData' = LogData /\ Mem' = Mem
           /\ \/ job.pc # "clear" /\ Imm' = Imm
              \/ job.pc = "clear" /\ Imm' = {}
<1>1. Live' = Live
  BY QuietJob, SameTables
<1>2. LogData' = LogData
  BY QuietJob DEF LogData
<1>3. Mem' = Mem
  BY QuietJob DEF Mem, Table0
<1>5. \/ job.pc # "clear" /\ Imm' = Imm
      \/ job.pc = "clear" /\ Imm' = {}
  BY QuietJob DEF Imm, Table0
<1> QED BY <1>1, <1>2, <1>3, <1>5

\* A flush that is installed adds imm_ as the last table of level 0.
LEMMA InstallLayers ==
    ASSUME BaseInv, FileInv, ~reused', FlushInstall, NEW f, f = Meta(job.number, tables[job.table])
    PROVE  /\ ~reused /\ UNCHANGED <<log, sst, tables, hist, closer, synced, mine, rd, db, faults>>
           /\ f \in FileMetaData /\ sst[f.number].data = Imm /\ Imm = tables[job.table] /\ Imm # {}
           /\ Live' = Live \cup Imm /\ LogData' = LogData /\ Mem' = Mem /\ Imm' = Imm
<1>1. ~reused /\ UNCHANGED <<log, sst, tables, hist, closer, synced, mine, rd, db, faults>> /\ job.pc = "install"
  BY DEF FlushInstall, history, bounds
<1>2. /\ job.number \in Files /\ f \in FileMetaData /\ tables[job.table] \in SUBSET Entry /\ tables[job.table] # {}
      /\ versions'.l0 = Append(versions.l0, f) /\ versions'.l1 = versions.l1 /\ manifest'.log = manifest.log
      /\ job.table = db.imm /\ db.imm \in Files /\ f.number = job.number
  <2>1. job.number \in Files /\ tables[job.table] \in SUBSET Entry /\ tables[job.table] # {}
    BY FlushInstallFacts
  <2> QED BY <2>1, FlushInstallFacts, MetaFacts
<1>3. Imm = tables[job.table]
  BY <1>2, SMT DEF Imm, Table0, Files
<1>4. sst[f.number].data = Imm
  BY <1>1, <1>2, <1>3, SMT DEF FileInv, JobFiles, Table
<1>5. LiveFiles' = LiveFiles \cup {f}
  <2>1. Range(versions'.l0) = Range(versions.l0) \cup {f}
    <3> DEFINE t == versions'.l0
               s == versions.l0
    <3>1. s \in Seq(FileMetaData)
      BY BaseFields, VersionFields
    <3>4. t = Append(s, f)
      BY <1>2
    <3> HIDE DEF t, s
    <3>2. /\ Len(t) = Len(s) + 1 /\ t[Len(s) + 1] = f /\ t \in Seq(FileMetaData)
          /\ \A i \in 1 .. Len(s) : t[i] = s[i]
      BY <1>2, <3>1, <3>4, AppendFacts, SMT
    <3>3. Range(t) = Range(s) \cup {f}
      BY <3>1, <3>2, AppendRange
    <3> QED BY <3>3 DEF t, s
  <2> QED BY <1>2, <2>1 DEF LiveFiles
<1>6. Live' = Live \cup Imm
  BY <1>1, <1>4, <1>5, SMT DEF Live, Data
<1>7. LogData' = LogData /\ Mem' = Mem /\ Imm' = Imm
  BY <1>1, <1>2 DEF LogData, Mem, Imm, Table0
<1> QED BY <1>1, <1>2, <1>3, <1>4, <1>6, <1>7

\* A compaction that is installed drops only what a newer entry of its output hides.
LEMMA ReplaceLayers ==
    ASSUME BaseInv, FilledInv, FileInv, ~reused', CompactReplace
    PROVE  /\ ~reused /\ UNCHANGED <<log, sst, tables, hist, closer, synced, mine, rd, db, faults>>
           /\ Live' \subseteq Live /\ LogData' = LogData /\ Mem' = Mem /\ Imm' = Imm
           /\ \A e \in Live : \E x \in Live' : x.key = e.key /\ x.seq >= e.seq
<1>0. PICK f : f = Meta(job.number, job.data)
  OBVIOUS
<1>1. ~reused /\ UNCHANGED <<log, sst, tables, hist, closer, synced, mine, rd, db, faults>> /\ job.pc = "replace"
  BY DEF CompactReplace, history, bounds
<1>2. /\ Inputs \subseteq LiveFiles /\ LiveFiles \ Inputs \subseteq versions.l1 \ job.in1
      /\ LiveFiles' = (versions.l1 \ job.in1) \cup {f}
      /\ sst[f.number] = Table(job.data) /\ job.data = Merged(InputData)
  BY <1>0, <1>1, ReplaceLevels
<1>3. InputData \in SUBSET Entry /\ InputData \subseteq Live
  <2>1. InputData \subseteq Live
    BY <1>2 DEF InputData, Live
  <2> QED BY <2>1, LayerTypes
<1>4. sst'[f.number].data = Merged(InputData)
  BY <1>1, <1>2, SMT DEF Table
<1>5. Live' \subseteq Live
  <2>1. Merged(InputData) \subseteq Live
    BY <1>3, MergedFacts
  <2>2. versions.l1 \subseteq LiveFiles
    BY DEF LiveFiles
  <2> QED BY <1>1, <1>2, <1>4, <2>1, <2>2 DEF Live, Data
<1>6. ASSUME NEW e \in Live PROVE \E x \in Live' : x.key = e.key /\ x.seq >= e.seq
  <2>1. PICK g \in LiveFiles : e \in Data(g)
    BY DEF Live
  <2>2. CASE g \in Inputs
    <3>1. e \in InputData
      BY <2>1, <2>2 DEF InputData
    <3>2. PICK x \in Merged(InputData) : x.key = e.key /\ x.seq >= e.seq
      BY <1>3, <3>1, MergedFacts
    <3>3. x \in Live'
      BY <1>2, <1>4, <3>2 DEF Live, Data
    <3> QED BY <3>2, <3>3
  <2>3. CASE g \notin Inputs
    <3>1. g \in LiveFiles' /\ e \in sst'[g.number].data
      BY <1>1, <1>2, <2>1, <2>3 DEF Data
    <3>2. e \in Live'
      BY <3>1 DEF Live, Data
    <3>3. e.seq \in Nat
      BY LayerTypes, EntryFields
    <3> QED BY <3>2, <3>3, SMT
  <2> QED BY <2>2, <2>3
<1>7. LogData' = LogData /\ Mem' = Mem /\ Imm' = Imm
  <2>1. manifest'.log = manifest.log
    BY CompactReplaceFacts
  <2> QED BY <1>1, <2>1 DEF LogData, Mem, Imm, Table0
<1> QED BY <1>1, <1>5, <1>6, <1>7

-----------------------------------------------------------------------------
\* Changing one log changes the data of the log the MANIFEST names, if it is that one.
LEMMA LogChange ==
    ASSUME BaseInv, NEW m \in Files, NEW l, log' = [log EXCEPT ![m] = l], manifest'.log = manifest.log
    PROVE  LogData' = IF manifest.log = m THEN Range(l.recs) ELSE LogData
<1>1. manifest.log # 0 => manifest.log \in Files
  BY BaseFields, VersionFields, EngineBounds, SMT DEF Files
<1>2. log'[m] = l /\ \A n \in Files : n # m => log'[n] = log[n]
  BY DEF BaseInv, TypeOK
<1>3. m # 0
  BY SMT DEF Files
<1>4. CASE manifest.log = m
  BY <1>2, <1>3, <1>4, SMT DEF LogData
<1>5. CASE manifest.log # m
  BY <1>1, <1>2, <1>5, SMT DEF LogData
<1> QED BY <1>4, <1>5

\* An empty log has no entry.
LEMMA EmptyRange ==
    ASSUME NEW l, l.recs = <<>> PROVE Range(l.recs) = {}
BY SMT DEF Range

\* Shutting down or dying leaves the tables, and of the log some prefix.
LEMMA DownLayers ==
    ASSUME BaseInv, CloseJoin \/ Crash
    PROVE  /\ Live' = Live /\ LogData' \subseteq LogData /\ Mem' = {} /\ Imm' = {}
           /\ versions'.l0 = versions.l0 /\ versions'.l1 = versions.l1 /\ versions'.seq = manifest.seq
<1>1. versions'.l0 = versions.l0 /\ versions'.l1 = versions.l1 /\ versions'.seq = manifest.seq
  BY DownEffects DEF BaseInv, NumberInv
<1>2. Live' = Live
  <2>1. sst' = sst
    BY DownEffects
  <2> QED BY <1>1, <2>1, SameTables
<1>3. PICK l \in LogFile : log' = [log EXCEPT ![db.mem] = l] /\ Range(l.recs) \subseteq Range(log[db.mem].recs)
  BY DownEffects
<1>4. db.mem \in Files /\ manifest' = manifest
  BY DownEffects
<1>5. LogData' = IF manifest.log = db.mem THEN Range(l.recs) ELSE LogData
  BY <1>3, <1>4, LogChange
<1>6. manifest.log = db.mem => LogData = Range(log[db.mem].recs)
  BY <1>4, SMT DEF LogData, Files
<1>7. Mem' = {} /\ Imm' = {}
  BY DownEffects, SMT DEF Mem, Imm, Table0, NoDB
<1> QED BY <1>1, <1>2, <1>3, <1>5, <1>6, <1>7

\* Open turns the records of the log into the memtable.
LEMMA OpenLayers ==
    ASSUME BaseInv, ~reused', Open
    PROVE  /\ ~reused /\ Live' = Live /\ Mem' = LogData /\ Imm' = {} /\ LogData' = {}
           /\ hist' = LogData \cup Live /\ db'.mem = manifest'.log /\ db'.mem # 0 /\ db'.imm = 0
           /\ closer' = "none" /\ job' = job /\ job.pc = "none" /\ UNCHANGED <<sst, rd, mine, synced, faults>>
           /\ versions'.l0 = versions.l0 /\ versions'.l1 = versions.l1
           /\ manifest'.seq = manifest.seq /\ versions'.seq \in Nat /\ manifest.seq <= versions'.seq
           /\ \A e \in LogData : e.seq <= versions'.seq
           /\ log' = log /\ log'[db'.mem].recs = <<>>
           /\ mine = [k \in Keys |-> 0] /\ \A r \in Readers : rd[r] = IdleReader
<1> DEFINE n == manifest.next
           E == Range(OldLog.recs)
<1>1. /\ n \in Nat /\ n >= 2 /\ n \in Files /\ closer = "down" /\ closer' = "none"
      /\ E = LogData /\ versions' \in VersionType /\ manifest'.log = n
      /\ versions'.l0 = manifest.l0 /\ versions'.l1 = manifest.l1
      /\ manifest'.seq = manifest.seq
      /\ \A s \in {manifest.seq} \cup Seqs(E) : s <= versions'.seq
      /\ tables' = [tables EXCEPT ![n] = E]
      /\ db' = [NoDB EXCEPT !.mem = n, !.wal = TRUE]
      /\ hist' = E \cup UNION {sst[f.number].data : f \in Range(manifest.l0) \cup manifest.l1}
      /\ reused' = (reused \/ log[n].recs # <<>>)
  BY OpenFacts
<1>2. /\ UNCHANGED <<sst, rd, mine, synced, faults, log, job>>
      /\ versions.l0 = manifest.l0 /\ versions.l1 = manifest.l1
      /\ job.pc = "none" /\ mine = [k \in Keys |-> 0] /\ \A r \in Readers : rd[r] = IdleReader
  BY <1>1, NoJobFields DEF Open, BaseInv, ControlInv, NumberInv
<1> HIDE DEF n, E
<1>3. ~reused /\ log[n].recs = <<>>
  BY <1>1
<1>4. db'.mem = n /\ db'.imm = 0 /\ n # 0
  BY <1>1, SMT DEF NoDB
<1>5. Live' = Live
  BY <1>1, <1>2, SameTables
<1>6. Mem' = LogData /\ Imm' = {}
  <2>1. tables'[n] = E
    BY <1>1 DEF BaseInv, TypeOK
  <2> QED BY <1>1, <1>4, <2>1 DEF Mem, Imm, Table0
<1>7. LogData' = {}
  BY <1>1, <1>2, <1>3, <1>4, EmptyRange DEF LogData
<1>8. hist' = LogData \cup Live
  BY <1>1, <1>2 DEF Live, Data, LiveFiles
<1>9. versions'.seq \in Nat /\ manifest.seq <= versions'.seq /\ \A e \in LogData : e.seq <= versions'.seq
  BY <1>1, VersionFields DEF Seqs
<1> QED BY <1>1, <1>2, <1>3, <1>4, <1>5, <1>6, <1>7, <1>8, <1>9

\* Switching memtables makes the full one the immutable one.
LEMMA SwitchLayers ==
    ASSUME BaseInv, ~reused', closer = "none", NEW w \in Writers, NEW k \in Keys, NEW s \in BOOLEAN,
           NEW ok \in BOOLEAN, Switches(w, k, s, ok)
    PROVE  /\ ~reused /\ Live' = Live /\ Mem' = {} /\ Imm' = Mem /\ Imm = {} /\ db.imm = 0 /\ db'.imm = db.mem
           /\ LogData' \subseteq LogData /\ (ok => LogData' = {} /\ manifest'.log = db'.mem)
           /\ db.mem \in Files /\ db'.mem = versions.next /\ log'[db'.mem].recs = <<>>
           /\ versions'.l0 = versions.l0 /\ versions'.l1 = versions.l1 /\ versions'.seq = versions.seq
           /\ manifest'.seq = manifest.seq /\ sst' = sst
           /\ tables' = [tables EXCEPT ![versions.next] = {}]
           /\ (ok => faults' = faults) /\ (~ok => faults' = faults + 1)
           /\ log'[db'.mem] = log[db'.mem]
<1> DEFINE n == versions.next
           m == db.mem
<1>1. /\ n \in Files /\ m \in Files /\ m # n /\ db.imm = 0
      /\ versions'.seq = versions.seq
      /\ versions'.l0 = versions.l0 /\ versions'.l1 = versions.l1
      /\ manifest'.seq = manifest.seq /\ manifest'.log = (IF ok THEN n ELSE manifest.log)
      /\ db'.mem = n /\ db'.imm = m
      /\ tables' = [tables EXCEPT ![n] = {}]
  BY SwitchFacts
<1>2. PICK l \in Closed(log[m]) : log' = [log EXCEPT ![m] = l] /\ l \in LogFile
  BY SwitchFacts
<1>3. sst' = sst /\ reused' = (reused \/ log[n].recs # <<>>) /\ (ok => faults' = faults) /\ (~ok => faults' = faults + 1)
  BY DEF Switches
<1>4. ~reused /\ log[n].recs = <<>>
  BY <1>3
<1>5. Live' = Live
  BY <1>1, <1>3, SameTables
<1>6. log'[n] = log[n] /\ log'[m] = l
  BY <1>1, <1>2 DEF BaseInv, TypeOK
<1>7. tables'[n] = {} /\ tables'[m] = tables[m]
  BY <1>1 DEF BaseInv, TypeOK
<1>8. n # 0 /\ m # 0
  BY <1>1, SMT DEF Files
<1>9. Mem' = {} /\ Imm' = Mem /\ Imm = {}
  BY <1>1, <1>7, <1>8 DEF Mem, Imm, Table0
<1>10. ok => LogData' = {} /\ manifest'.log = n
  BY <1>1, <1>4, <1>6, <1>8, EmptyRange DEF LogData
<1>11. ~ok => LogData' \subseteq LogData
  <2>1. log[m] \in LogFile /\ log[m].flushed <= Len(log[m].recs)
    BY <1>1 DEF BaseInv, TypeOK
  <2>2. Range(l.recs) \subseteq Range(log[m].recs)
    <3>1. PICK c \in Nat : c <= Len(log[m].recs) /\ l = Prefix(log[m], c)
      BY <2>1, ClosedFacts
    <3> QED BY <2>1, <3>1, PrefixFacts
  <2>3. ~ok => LogData' = IF manifest.log = m THEN Range(l.recs) ELSE LogData
    BY <1>1, <1>2, LogChange
  <2>4. manifest.log = m => LogData = Range(log[m].recs)
    BY <1>8 DEF LogData
  <2> QED BY <2>2, <2>3, <2>4
<1> QED BY <1>1, <1>3, <1>4, <1>5, <1>6, <1>9, <1>10, <1>11

\* A writer that waits, gives up or goes on changes no layer.
LEMMA MovesLayers ==
    ASSUME BaseInv, NEW w, NEW k, NEW s, Moves(w, k, s)
    PROVE  Live' = Live /\ LogData' = LogData /\ Mem' = Mem /\ Imm' = Imm
<1>1. UNCHANGED <<log, sst, manifest, versions, tables, db>>
  BY DEF Moves
<1> QED BY <1>1, SameTables DEF LogData, Mem, Imm, Table0

\* Scheduling changes no layer.
LEMMA ThreadLayers ==
    ASSUME BaseInv, ThreadSteps
    PROVE  Live' = Live /\ LogData' = LogData /\ Mem' = Mem /\ Imm' = Imm
BY ThreadEffects, SameTables DEF LogData, Mem, Imm, Table0

\* A reader changes no layer.
LEMMA ReaderLayers ==
    ASSUME BaseInv, NEW r \in Readers, ReaderSteps(r)
    PROVE  Live' = Live /\ LogData' = LogData /\ Mem' = Mem /\ Imm' = Imm
BY ReaderEffects, SameTables DEF LogData, Mem, Imm, Table0

\* A write adds its entry to the log, and to the memtable when it succeeds.
LEMMA WriteLayers ==
    ASSUME BaseInv, NEW w \in Writers, Write(w), NEW e, e = [seq |-> versions.seq + 1, key |-> wr[w].key]
    PROVE  /\ Live' = Live /\ Imm' = Imm /\ LogData' \subseteq LogData \cup {e}
           /\ e \in Entry /\ e.seq = versions.seq + 1 /\ e.key = wr[w].key /\ e = Write_(e.seq, e.key)
           /\ \/ /\ Succeeds(w, e) /\ Mem' = Mem \cup {e} /\ hist' = hist \cup {e}
                 /\ UNCHANGED faults
                 /\ manifest.log = db.mem => LogData' = LogData \cup {e}
              \/ /\ Fails(w, e) /\ Mem' = Mem /\ UNCHANGED <<hist, mine, synced>>
                 /\ UNCHANGED <<log, faults>> \/ faults' = faults + 1
           /\ UNCHANGED <<sst, manifest, job, rd, closer, reused>> /\ closer = "none"
           /\ versions'.l0 = versions.l0 /\ versions'.l1 = versions.l1 /\ versions'.seq = versions.seq + 1
           /\ db.mem \in Files /\ db'.mem = db.mem /\ db'.imm = db.imm
           /\ \A n \in Files : n # db.mem => tables'[n] = tables[n]
\* Appending a record adds it to the records.
<1>AppendEntry. ASSUME NEW s \in Seq(Entry), NEW x \in Entry
      PROVE  Range(Append(s, x)) = Range(s) \cup {x}
  <2>1. PICK t : t = Append(s, x)
    OBVIOUS
  <2>2. /\ Len(t) = Len(s) + 1 /\ Len(s) \in Nat /\ t[Len(s) + 1] = x /\ t \in Seq(Entry)
        /\ \A i \in 1 .. Len(s) : t[i] = s[i]
    BY <2>1, SMT
  <2>3. Range(s) = {s[i] : i \in 1 .. Len(s)} /\ Range(t) = {t[i] : i \in 1 .. Len(t)}
    BY <2>2, SMT DEF Range
  <2>4. 1 .. Len(t) = 1 .. Len(s) \cup {Len(s) + 1}
    BY <2>2, SMT
  <2>5. Range(t) = Range(s) \cup {x}
    BY <2>2, <2>3, <2>4, SMT
  <2> QED BY <2>1, <2>5

\* So does the append of the log, whether it syncs or not.
<1>AppendedRange. ASSUME NEW l \in LogFile, NEW x \in Entry
      PROVE  \A sync \in BOOLEAN : Range(Appended(l, x, sync).recs) = Range(l.recs) \cup {x}
  <2>1. l.recs \in Seq(Entry)
    BY LogFields
  <2>2. \A sync \in BOOLEAN : Appended(l, x, sync).recs = Append(l.recs, x)
    BY DEF Appended, LogFile
  <2>3. Range(Append(l.recs, x)) = Range(l.recs) \cup {x}
    BY <2>1, <1>AppendEntry
  <2> QED BY <2>2, <2>3

\* All steps together.
<1> DEFINE m == db.mem
<1>1. /\ Succeeds(w, e) \/ Fails(w, e)
      /\ e.seq = versions.seq + 1 /\ e.key = wr[w].key
      /\ UNCHANGED <<sst, manifest, job, rd, closer, reused>>
  BY WriteCases
<1>2. /\ closer = "none" /\ m \in Files /\ e \in Entry /\ versions'.seq = versions.seq + 1
      /\ versions'.l0 = versions.l0 /\ versions'.l1 = versions.l1
      /\ db'.mem = m /\ db'.imm = db.imm
  BY WriteFacts
<1>3. Live' = Live
  BY <1>1, <1>2, SameTables
<1>4. db.imm # 0 => db.imm \in Files /\ db.imm # m
  BY BaseFields DEF BaseInv, NumberInv
<1>5. tables \in [Files -> SUBSET Entry] /\ m # 0
  BY <1>2, SMT DEF BaseInv, TypeOK, Files
<1>6. log[m] \in LogFile /\ log[m].flushed <= Len(log[m].recs) /\ log \in [Files -> LogFile]
  BY <1>2 DEF BaseInv, TypeOK
<1>7. wr[w].sync \in BOOLEAN
  BY DEF BaseInv, TypeOK, WriterType
<1>8. \A sync \in BOOLEAN : Range(Appended(log[m], e, sync).recs) = Range(log[m].recs) \cup {e}
  BY <1>2, <1>6, <1>AppendedRange
<1>9. manifest.log = m => LogData = Range(log[m].recs)
  BY <1>5 DEF LogData
<1>10. CASE Succeeds(w, e)
  <2>1. tables' = [tables EXCEPT ![m] = tables[m] \cup {e}] /\ hist' = hist \cup {e} /\ UNCHANGED faults
    BY <1>10 DEF Succeeds
  <2>2. tables'[m] = tables[m] \cup {e} /\ \A n \in Files : n # m => tables'[n] = tables[n]
    BY <1>2, <1>5, <2>1
  <2>3. Mem' = Mem \cup {e} /\ Imm' = Imm
    BY <1>2, <1>4, <1>5, <2>2 DEF Mem, Imm, Table0
  <2>4. LogData' = IF manifest.log = m THEN Range(Appended(log[m], e, wr[w].sync).recs) ELSE LogData
    BY <1>1, <1>2, <1>10, LogChange DEF Succeeds
  <2>5. LogData' \subseteq LogData \cup {e} /\ (manifest.log = m => LogData' = LogData \cup {e})
    BY <1>7, <1>8, <1>9, <2>4
  <2> QED BY <1>1, <1>2, <1>3, <1>10, <2>1, <2>2, <2>3, <2>5, EntryFields
<1>11. CASE Fails(w, e)
  <2>1. UNCHANGED <<tables, hist, mine, synced>>
    BY <1>11 DEF Fails
  <2>2. Mem' = Mem /\ Imm' = Imm
    BY <1>2, <2>1 DEF Mem, Imm, Table0
  <2>3. LogData' \subseteq LogData \cup {e}
    <3>1. CASE log' = log
      BY <1>1, <3>1 DEF LogData
    <3>2. CASE log' = [log EXCEPT ![m].torn = TRUE]
      <4>1. LogData' = IF manifest.log = m THEN Range([log[m] EXCEPT !.torn = TRUE].recs) ELSE LogData
        <5> DEFINE c == [log[m] EXCEPT !.torn = TRUE]
        <5>1. log' = [log EXCEPT ![m] = c]
          BY <3>2
        <5> HIDE DEF c
        <5>2. LogData' = IF manifest.log = m THEN Range(c.recs) ELSE LogData
          BY <1>1, <1>2, <5>1, LogChange
        <5> QED BY <5>2 DEF c
      <4>2. [log[m] EXCEPT !.torn = TRUE].recs = log[m].recs
        BY <1>6 DEF LogFile
      <4> QED BY <1>9, <4>1, <4>2
    <3>3. CASE log' = [log EXCEPT ![m] = Appended(log[m], e, FALSE)]
      <4>1. LogData' = IF manifest.log = m THEN Range(Appended(log[m], e, FALSE).recs) ELSE LogData
        BY <1>1, <1>2, <3>3, LogChange
      <4> QED BY <1>8, <1>9, <4>1
    <3> QED BY <1>11, <3>1, <3>2, <3>3 DEF Fails
  <2>4. UNCHANGED <<log, faults>> \/ faults' = faults + 1
    BY <1>11 DEF Fails
  <2> QED BY <1>1, <1>2, <1>3, <1>11, <2>1, <2>2, <2>3, <2>4, EntryFields
<1> QED BY <1>1, <1>10, <1>11

-----------------------------------------------------------------------------
\* Sequence numbers.

\* Jobs run only while the database is open.
LEMMA JobOpen == ASSUME BaseInv, job.pc # "none" PROVE closer # "down"
BY NoJobFields DEF BaseInv, ControlInv

-----------------------------------------------------------------------------
\* Every step keeps the sequence numbers in order.
LEMMA SequenceNext ==
    ASSUME BaseInv, BaseInv', FilledInv, FileInv, SequenceInv, Next
    PROVE  SequenceInv'
\* What a step has to show for the sequence numbers to stay in order.
<1>SequenceFrame. ASSUME reused => reused',
             ~reused' => /\ hist' \subseteq hist /\ LogData' \subseteq LogData /\ Live' \subseteq Live \cup hist
                         /\ closer' # "down" => closer # "down" /\ Mem' \cup Imm' \cup Live' \subseteq hist'
                         /\ closer' # "down" => versions.seq <= versions'.seq
                         /\ \A e \in Live' : e.seq <= manifest'.seq
                         /\ manifest'.seq <= versions'.seq
                         /\ JobSequence'
      PROVE  SequenceInv'
  <2> USE <1>SequenceFrame
  <2> SUFFICES ASSUME ~reused' PROVE SequenceInv'
    BY DEF SequenceInv
  <2>1. /\ \A e, f \in hist \cup LogData \cup Live : e.seq = f.seq => e = f
        /\ closer # "down" => \A e \in hist \cup LogData : e.seq <= versions.seq
    BY DEF SequenceInv
  <2>2. hist' \cup LogData' \cup Live' \subseteq hist \cup LogData \cup Live
    OBVIOUS
  <2>3. \A e, f \in hist' \cup LogData' \cup Live' : e.seq = f.seq => e = f
    BY <2>1, <2>2
  <2>4. versions.seq \in Nat /\ versions'.seq \in Nat
    BY BaseFields, VersionFields DEF BaseInv, TypeOK
  <2>5. \A e \in hist \cup LogData : e.seq \in Nat
    BY LayerTypes, EntryFields
  <2>6. closer' # "down" => \A e \in hist' \cup LogData' : e.seq <= versions'.seq
    <3> SUFFICES ASSUME closer' # "down", NEW e \in hist' \cup LogData' PROVE e.seq <= versions'.seq
      OBVIOUS
    <3>1. e \in hist \cup LogData
      OBVIOUS
    <3>2. e.seq <= versions.seq /\ versions.seq <= versions'.seq
      BY <2>1, <3>1
    <3> QED BY <2>4, <2>5, <3>1, <3>2, SMT
  <2> QED BY <2>3, <2>6 DEF SequenceInv

\* The sequence number a job is about to record covers the table it has built.
<1>QuietJobSequence. ASSUME ~reused', QuietJobStep PROVE JobSequence'
  <2> USE <1>QuietJobSequence
  <2>0. ~reused /\ UNCHANGED <<manifest, tables>> /\ manifest.seq <= versions.seq
    BY QuietJob DEF SequenceInv
  <2>1. CASE FlushBuild
    <3>1. /\ job.table = db.imm /\ db.imm \in Files /\ job'.pc = "install" /\ job'.seq = versions.seq
          /\ job'.table = job.table
      BY <2>1, FlushBuildFacts
    <3>2. tables[job.table] = Imm
      BY <3>1, SMT DEF Imm, Table0, Files
    <3>3. closer # "down"
      BY <2>1, JobOpen DEF FlushBuild
    <3>4. Imm \subseteq hist /\ \A e \in hist : e.seq <= versions.seq
      BY <2>0, <3>3 DEF SequenceInv
    <3> QED BY <2>0, <3>1, <3>2, <3>4 DEF JobSequence
  <2>2. CASE CompactMerge
    <3>1. job'.pc = "replace" /\ job'.seq = versions.seq
      BY <2>2, CompactMergeFacts
    <3> QED BY <2>0, <3>1 DEF JobSequence
  <2>3. CASE ~FlushBuild /\ ~CompactMerge
    <3>1. job'.pc \notin {"install", "replace"}
      <4>1. CASE FlushTake
        BY <4>1, FlushTakeFacts
      <4>2. CASE FlushClear
        <5>1. job' = [job EXCEPT !.pc = "done"] /\ job \in JobType
          BY <4>2, BaseFields DEF FlushClear
        <5> QED BY <5>1 DEF JobType
      <4>3. CASE CompactPick
        BY <4>3, CompactPickFacts
      <4>4. CASE CompactOpen
        BY <4>4, CompactOpenFacts
      <4>5. CASE CompactRemove \/ JobFails
        BY <4>5, JobEnds
      <4> QED BY <2>3, <4>1, <4>2, <4>3, <4>4, <4>5 DEF QuietJobStep
    <3> QED BY <3>1 DEF JobSequence
  <2> QED BY <2>1, <2>2, <2>3

\* The steps of a job that change no level keep the sequence numbers in order.
<1>QuietSequence. ASSUME QuietJobStep PROVE SequenceInv'
  <2> USE <1>QuietSequence
  <2> SUFFICES ASSUME ~reused' PROVE SequenceInv'
    BY DEF SequenceInv
  <2>1. ~reused /\ UNCHANGED <<log, manifest, tables, hist, closer>> /\ versions'.seq = versions.seq
    BY QuietJob
  <2>2. Live' = Live /\ LogData' = LogData /\ Mem' = Mem /\ (Imm' = Imm \/ Imm' = {})
    BY QuietLayers
  <2>3. JobSequence'
    BY <1>QuietJobSequence
  <2>4. /\ \A e \in Live : e.seq <= manifest.seq
        /\ manifest.seq <= versions.seq
        /\ closer # "down" => Mem \cup Imm \cup Live \subseteq hist
    BY <2>1 DEF SequenceInv
  <2>5. versions.seq <= versions.seq
    BY LayerTypes, SMT
  <2>6. closer' # "down" => closer # "down" /\ Mem' \cup Imm' \cup Live' \subseteq hist'
    BY <2>1, <2>2, <2>4
  <2> QED BY <2>1, <2>2, <2>3, <2>4, <2>5, <2>6, <1>SequenceFrame

\* Recording a flushed table records a sequence number that covers it.
<1>FlushInstallSequence. ASSUME FlushInstall PROVE SequenceInv'
  <2> USE <1>FlushInstallSequence
  <2> SUFFICES ASSUME ~reused' PROVE SequenceInv'
    BY DEF SequenceInv
  <2>0. PICK f : f = Meta(job.number, tables[job.table])
    OBVIOUS
  <2>1. /\ ~reused /\ UNCHANGED <<hist, closer>> /\ Imm = tables[job.table] /\ Imm # {}
        /\ Live' = Live \cup Imm /\ LogData' = LogData /\ Mem' = Mem /\ Imm' = Imm
    BY <2>0, InstallLayers
  <2>2. /\ versions'.seq = versions.seq /\ job'.pc = "clear"
        /\ manifest'.seq = (IF job.seq # 0 THEN job.seq ELSE manifest.seq)
    BY FlushInstallFacts
  <2>3. job.pc = "install"
    BY DEF FlushInstall
  <2>4. /\ \A e \in Live : e.seq <= manifest.seq
        /\ manifest.seq <= versions.seq /\ manifest.seq <= job.seq
        /\ \A e \in Imm : e.seq <= job.seq
        /\ closer # "down" => Mem \cup Imm \cup Live \subseteq hist
    BY <2>1, <2>3 DEF SequenceInv, JobSequence
  <2>5. closer # "down"
    BY <2>3, JobOpen
  <2>6. job.seq <= versions.seq
    BY DEF BaseInv, NumberInv
  <2>7. /\ manifest.seq \in Nat /\ versions.seq \in Nat /\ job.seq \in Nat
        /\ \A e \in Live \cup Imm : e.seq \in Nat
    BY LayerTypes, EntryFields
  <2>8. manifest'.seq = job.seq
    BY <2>2, <2>4, <2>7, SMT
  <2>9. \A e \in Live' : e.seq <= manifest'.seq
    BY <2>1, <2>4, <2>7, <2>8, SMT
  <2>10. JobSequence'
    BY <2>2 DEF JobSequence
  <2>11. versions.seq <= versions'.seq /\ manifest'.seq <= versions'.seq
    BY <2>2, <2>6, <2>7, <2>8, SMT
  <2>12. Mem' \cup Imm' \cup Live' \subseteq hist' /\ Live' \subseteq Live \cup hist
    BY <2>1, <2>4, <2>5
  <2> QED BY <2>1, <2>5, <2>9, <2>10, <2>11, <2>12, <1>SequenceFrame

\* Replacing the inputs of a compaction records a sequence number that covers the
\* output.
<1>CompactReplaceSequence. ASSUME CompactReplace PROVE SequenceInv'
  <2> USE <1>CompactReplaceSequence
  <2> SUFFICES ASSUME ~reused' PROVE SequenceInv'
    BY DEF SequenceInv
  <2>1. /\ ~reused /\ UNCHANGED <<hist, closer>>
        /\ Live' \subseteq Live /\ LogData' = LogData /\ Mem' = Mem /\ Imm' = Imm
    BY ReplaceLayers
  <2>2. /\ versions'.seq = versions.seq /\ job'.pc = "remove"
        /\ manifest'.seq = (IF job.seq # 0 THEN job.seq ELSE manifest.seq)
    BY CompactReplaceFacts
  <2>3. job.pc = "replace"
    BY DEF CompactReplace
  <2>4. /\ \A e \in Live : e.seq <= manifest.seq
        /\ manifest.seq <= versions.seq /\ manifest.seq <= job.seq
        /\ closer # "down" => Mem \cup Imm \cup Live \subseteq hist
    BY <2>1, <2>3 DEF SequenceInv, JobSequence
  <2>5. job.seq <= versions.seq
    BY DEF BaseInv, NumberInv
  <2>6. /\ manifest.seq \in Nat /\ versions.seq \in Nat /\ job.seq \in Nat
        /\ \A e \in Live : e.seq \in Nat
    BY LayerTypes, EntryFields
  <2>7. manifest'.seq = job.seq
    BY <2>2, <2>4, <2>6, SMT
  <2>8. \A e \in Live' : e.seq <= manifest'.seq
    BY <2>1, <2>4, <2>6, <2>7, SMT
  <2>9. JobSequence'
    BY <2>2 DEF JobSequence
  <2>10. versions.seq <= versions'.seq /\ manifest'.seq <= versions'.seq
    BY <2>2, <2>5, <2>6, <2>7, SMT
  <2>11. closer' # "down" => closer # "down" /\ Mem' \cup Imm' \cup Live' \subseteq hist'
    BY <2>1, <2>4
  <2> QED BY <2>1, <2>8, <2>9, <2>10, <2>11, <1>SequenceFrame

\* Steps that add no write and no table.
<1>PlainSequence. ASSUME reused => reused',
             ~reused' => /\ UNCHANGED hist /\ closer # "down" /\ closer' # "down"
                         /\ LogData' \subseteq LogData /\ Live' = Live
                         /\ Mem' \cup Imm' = Mem \cup Imm
                         /\ manifest'.seq = manifest.seq /\ versions'.seq = versions.seq
                         /\ \/ job' = job /\ (job.pc = "install" => tables'[job.table] = tables[job.table])
                            \/ job'.pc \in {"none", "take", "pick"}
      PROVE  SequenceInv'
  <2> USE <1>PlainSequence
  <2> SUFFICES ASSUME ~reused' PROVE SequenceInv'
    BY DEF SequenceInv
  <2>1. /\ \A e \in Live : e.seq <= manifest.seq
        /\ manifest.seq <= versions.seq
        /\ Mem \cup Imm \cup Live \subseteq hist /\ JobSequence
    BY DEF SequenceInv
  <2>2. JobSequence'
    BY <2>1 DEF JobSequence
  <2>3. versions.seq <= versions'.seq
    BY LayerTypes, SMT
  <2>4. Mem' \cup Imm' \cup Live' \subseteq hist'
    BY <2>1
  <2> QED BY <2>1, <2>2, <2>3, <2>4, <1>SequenceFrame

\* A write takes a sequence number above all earlier ones.
<1>WriteSequence. ASSUME NEW w \in Writers, Write(w) PROVE SequenceInv'
  <2> USE <1>WriteSequence
  <2>0. PICK e : e = [seq |-> versions.seq + 1, key |-> wr[w].key]
    OBVIOUS
  <2> SUFFICES ASSUME ~reused' PROVE SequenceInv'
    BY DEF SequenceInv
  <2>1. /\ Live' = Live /\ Imm' = Imm /\ LogData' \subseteq LogData \cup {e}
        /\ e \in Entry /\ e.seq = versions.seq + 1
        /\ UNCHANGED <<manifest, job, closer, reused>> /\ closer = "none"
        /\ versions'.seq = versions.seq + 1
        /\ \A n \in Files : n # db.mem => tables'[n] = tables[n]
    BY <2>0, WriteLayers
  <2>2. \/ Mem' = Mem \cup {e} /\ hist' = hist \cup {e}
        \/ Mem' = Mem /\ hist' = hist
    BY <2>0, WriteLayers
  <2>3. /\ \A x, y \in hist \cup LogData \cup Live : x.seq = y.seq => x = y
        /\ \A x \in hist \cup LogData : x.seq <= versions.seq
        /\ Mem \cup Imm \cup Live \subseteq hist
        /\ \A x \in Live : x.seq <= manifest.seq
        /\ manifest.seq <= versions.seq
        /\ JobSequence
    BY <2>1 DEF SequenceInv
  <2>4. versions.seq \in Nat /\ manifest.seq \in Nat /\ \A x \in hist \cup LogData : x.seq \in Nat
    BY LayerTypes, EntryFields
  <2>5. \A x \in hist \cup LogData \cup Live : x.seq # e.seq /\ x.seq <= versions.seq + 1
    BY <2>1, <2>3, <2>4, SMT
  <2>6. hist' \cup LogData' \cup Live' \subseteq (hist \cup LogData \cup Live) \cup {e}
    BY <2>1, <2>2
  <2>7. \A x, y \in hist' \cup LogData' \cup Live' : x.seq = y.seq => x = y
    BY <2>3, <2>5, <2>6
  <2>8. \A x \in hist' \cup LogData' : x.seq <= versions'.seq
    BY <2>1, <2>4, <2>5, <2>6, SMTT(30)
  <2>9. Mem' \cup Imm' \cup Live' \subseteq hist'
    BY <2>1, <2>2, <2>3
  <2>10. JobSequence'
    <3>1. job.pc = "install" => job.table = db.imm /\ db.imm # 0
      BY DEF BaseInv, ControlInv
    <3>2. db.imm # 0 => db.imm \in Files /\ db.imm # db.mem
      BY BaseFields DEF BaseInv, NumberInv
    <3>3. job.pc = "install" => tables'[job.table] = tables[job.table]
      BY <2>1, <3>1, <3>2
    <3> QED BY <2>1, <2>3, <3>3 DEF JobSequence
  <2>11. manifest'.seq <= versions'.seq /\ \A x \in Live' : x.seq <= manifest'.seq
    BY <2>1, <2>3, <2>4, SMT
  <2> QED BY <2>7, <2>8, <2>9, <2>10, <2>11 DEF SequenceInv

\* Open starts above every entry of the log and the tables.
<1>OpenSequence. ASSUME Open PROVE SequenceInv'
  <2> USE <1>OpenSequence
  <2> SUFFICES ASSUME ~reused' PROVE SequenceInv'
    BY DEF SequenceInv
  <2>1. /\ ~reused /\ Live' = Live /\ Mem' = LogData /\ Imm' = {} /\ LogData' = {}
        /\ hist' = LogData \cup Live /\ job' = job /\ job.pc = "none"
        /\ manifest'.seq = manifest.seq /\ versions'.seq \in Nat /\ manifest.seq <= versions'.seq
        /\ \A e \in LogData : e.seq <= versions'.seq
    BY OpenLayers
  <2>2. /\ \A x, y \in hist \cup LogData \cup Live : x.seq = y.seq => x = y
        /\ \A x \in Live : x.seq <= manifest.seq
    BY <2>1 DEF SequenceInv
  <2>3. manifest.seq \in Nat /\ \A x \in Live : x.seq \in Nat
    BY LayerTypes, EntryFields
  <2>4. \A x \in hist' \cup LogData' : x.seq <= versions'.seq
    BY <2>1, <2>2, <2>3, SMT
  <2>5. \A x, y \in hist' \cup LogData' \cup Live' : x.seq = y.seq => x = y
    BY <2>1, <2>2
  <2>6. JobSequence'
    BY <2>1 DEF JobSequence
  <2> QED BY <2>1, <2>2, <2>4, <2>5, <2>6 DEF SequenceInv

\* Shutting down or dying keeps the order of sequence numbers in the files.
<1>DownSequence. ASSUME CloseJoin \/ Crash PROVE SequenceInv'
  <2> USE <1>DownSequence
  <2>1. UNCHANGED <<reused, manifest>> /\ job' = NoJob /\ hist' = {} /\ closer' = "down"
    BY DownEffects
  <2>2. Live' = Live /\ LogData' \subseteq LogData /\ versions'.seq = manifest.seq
    BY DownLayers
  <2>3. ~reused => \A e \in Live : e.seq <= manifest.seq
    BY DEF SequenceInv
  <2>4. JobSequence'
    BY <2>1, NoJobFields DEF JobSequence
  <2>5. manifest.seq <= manifest.seq
    BY LayerTypes, SMT
  <2> QED BY <2>1, <2>2, <2>3, <2>4, <2>5, <1>SequenceFrame

\* All steps together.
<1>1. CASE JobSteps
  BY <1>1, <1>QuietSequence, <1>FlushInstallSequence, <1>CompactReplaceSequence DEF JobSteps, QuietJobStep
<1>2. CASE ThreadSteps
  <2>1. /\ UNCHANGED <<manifest, versions, tables, hist, reused>> /\ closer # "down" /\ closer' # "down"
        /\ job' = job \/ job'.pc \in {"none", "take", "pick"}
    BY <1>2, ThreadEffects
  <2>2. Live' = Live /\ LogData' = LogData /\ Mem' = Mem /\ Imm' = Imm
    BY <1>2, ThreadLayers
  <2> QED BY <2>1, <2>2, <1>PlainSequence
<1>3. ASSUME NEW r \in Readers, ReaderSteps(r) PROVE SequenceInv'
  <2>1. UNCHANGED <<manifest, versions, tables, hist, job, reused, closer>>
    BY <1>3, ReaderEffects
  <2>2. Live' = Live /\ LogData' = LogData /\ Mem' = Mem /\ Imm' = Imm
    BY <1>3, ReaderLayers
  <2>3. closer # "down"
    <3>1. CASE \E k \in Keys : Get(r, k)
      BY <3>1 DEF Get
    <3>2. CASE rd[r].pc # "idle"
      BY <3>2, ReaderFields
    <3> QED BY <1>3, <3>1, <3>2 DEF ReaderSteps, ReadMem, ReadFile, Return
  <2> QED BY <2>1, <2>2, <2>3, <1>PlainSequence
<1>4. ASSUME NEW w \in Writers, NEW k \in Keys, NEW s \in BOOLEAN, closer = "none", MakeRoomForWrite(w, k, s)
      PROVE  SequenceInv'
  <2>1. UNCHANGED <<job, closer, hist>>
    BY <1>4, MakeRoomCases
  <2>2. CASE Moves(w, k, s)
    <3>1. UNCHANGED <<manifest, versions, tables, reused>>
      BY <2>2 DEF Moves
    <3>2. Live' = Live /\ LogData' = LogData /\ Mem' = Mem /\ Imm' = Imm
      BY <2>2, MovesLayers
    <3> QED BY <1>4, <2>1, <3>1, <3>2, <1>PlainSequence
  <2>3. ASSUME NEW ok \in BOOLEAN, Switches(w, k, s, ok) PROVE SequenceInv'
    <3>1. reused => reused'
      BY <2>3 DEF Switches
    <3>2. ~reused' => /\ LogData' \subseteq LogData /\ Live' = Live /\ Mem' \cup Imm' = Mem \cup Imm /\ db.imm = 0
                      /\ manifest'.seq = manifest.seq /\ versions'.seq = versions.seq
      BY <1>4, <2>3, SwitchLayers
    <3>3. db.imm = 0 => job.pc # "install"
      BY DEF BaseInv, ControlInv
    <3> QED BY <1>4, <2>1, <3>1, <3>2, <3>3, <1>PlainSequence
  <2> QED BY <1>4, <2>2, <2>3, MakeRoomCases
<1>5. ASSUME NEW w \in Writers, WriterSteps(w) PROVE SequenceInv'
  BY <1>4, <1>5, <1>WriteSequence DEF WriterSteps
<1> QED BY <1>1, <1>2, <1>3, <1>5, NextCases, <1>OpenSequence, <1>DownSequence

-----------------------------------------------------------------------------
\* No write that is served gets lost.

\* Every step keeps the history served: each write of the history is in a layer,
\* or a newer one of its key is.
LEMMA ServedNext ==
    ASSUME BaseInv, BaseInv', FilledInv, FileInv, SequenceInv, ServedInv, Next
    PROVE  ServedInv'
\* A step that loses no entry without a newer one of its key keeps the history
\* served.
<1>ServedFrame. ASSUME reused => reused',
             ~reused' => /\ hist' = hist
                         /\ \A x \in Mem \cup Imm \cup Live :
                               \E y \in Mem' \cup Imm' \cup Live' : y \in Entry /\ y.key = x.key /\ y.seq >= x.seq
                         /\ job'.pc = "clear" => Imm' \subseteq Live'
      PROVE  ServedInv'
  <2> USE <1>ServedFrame
  <2> SUFFICES ASSUME ~reused', NEW e \in hist
               PROVE  \E y \in Mem' \cup Imm' \cup Live' : y.key = e.key /\ y.seq >= e.seq
    BY DEF ServedInv
  <2>1. PICK x \in Mem \cup Imm \cup Live : x.key = e.key /\ x.seq >= e.seq
    BY DEF ServedInv
  <2>2. PICK y \in Mem' \cup Imm' \cup Live' : y \in Entry /\ y.key = x.key /\ y.seq >= x.seq
    OBVIOUS
  <2>3. x.seq \in Nat /\ e.seq \in Nat /\ y.seq \in Nat
    BY <2>2, LayerTypes, EntryFields
  <2> QED BY <2>1, <2>2, <2>3, SMT

\* In particular one that loses no entry at all.
<1>ServedSame. ASSUME reused => reused',
             ~reused' => /\ hist' = hist
                         /\ Mem \cup Imm \cup Live \subseteq Mem' \cup Imm' \cup Live'
                         /\ job'.pc = "clear" => Imm' \subseteq Live'
      PROVE  ServedInv'
  <2> USE <1>ServedSame
  <2>1. \A x \in Mem \cup Imm \cup Live : x \in Entry /\ x.seq \in Nat
    BY LayerTypes, EntryFields
  <2>2. \A x \in Mem \cup Imm \cup Live : x.key = x.key /\ x.seq >= x.seq
    BY <2>1, SMT
  <2> QED BY <2>1, <2>2, <1>ServedFrame

\* All steps together.
<1>0. ASSUME ~reused PROVE job.pc = "clear" => Imm \subseteq Live
  BY <1>0 DEF ServedInv
<1>1. CASE QuietJobStep
  <2> SUFFICES ASSUME ~reused' PROVE ServedInv'
    BY DEF ServedInv
  <2>1. ~reused /\ hist' = hist /\ job'.pc # "clear"
    BY <1>1, QuietJob
  <2>2. /\ Live' = Live /\ LogData' = LogData /\ Mem' = Mem
        /\ \/ job.pc # "clear" /\ Imm' = Imm
           \/ job.pc = "clear" /\ Imm' = {}
    BY <1>1, QuietLayers
  <2>3. Mem \cup Imm \cup Live \subseteq Mem' \cup Imm' \cup Live'
    BY <1>0, <2>1, <2>2
  <2> QED BY <2>1, <2>3, <1>ServedSame
<1>2. CASE FlushInstall
  <2> SUFFICES ASSUME ~reused' PROVE ServedInv'
    BY DEF ServedInv
  <2>1. PICK f : f = Meta(job.number, tables[job.table])
    OBVIOUS
  <2>2. ~reused /\ hist' = hist /\ Live' = Live \cup Imm /\ Mem' = Mem /\ Imm' = Imm
    BY <1>2, <2>1, InstallLayers
  <2> QED BY <2>2, <1>ServedSame
<1>3. CASE CompactReplace
  <2> SUFFICES ASSUME ~reused' PROVE ServedInv'
    BY DEF ServedInv
  <2>1. /\ ~reused /\ hist' = hist /\ Mem' = Mem /\ Imm' = Imm
        /\ \A e \in Live : \E x \in Live' : x.key = e.key /\ x.seq >= e.seq
        /\ Live' \subseteq Live
    BY <1>3, ReplaceLayers
  <2>2. \A x \in Mem \cup Imm \cup Live : x \in Entry /\ x.seq \in Nat
    BY LayerTypes, EntryFields
  <2>3. ASSUME NEW x \in Mem \cup Imm \cup Live
        PROVE  \E y \in Mem' \cup Imm' \cup Live' : y \in Entry /\ y.key = x.key /\ y.seq >= x.seq
    <3>1. CASE x \in Live
      BY <2>1, <2>2, <3>1
    <3>2. CASE x \in Mem \cup Imm
      BY <2>1, <2>2, <3>2, SMT
    <3> QED BY <3>1, <3>2
  <2>4. job'.pc = "remove"
    BY <1>3, CompactReplaceFacts
  <2> QED BY <2>1, <2>3, <2>4, <1>ServedFrame
<1>4. CASE JobSteps
  BY <1>1, <1>2, <1>3, <1>4 DEF JobSteps, QuietJobStep
<1>5. CASE ThreadSteps
  <2>1. UNCHANGED <<hist, reused>> /\ (job' = job \/ job'.pc \in {"none", "take", "pick"})
    BY <1>5, ThreadEffects
  <2>2. Live' = Live /\ Mem' = Mem /\ Imm' = Imm
    BY <1>5, ThreadLayers
  <2> QED BY <1>0, <2>1, <2>2, <1>ServedSame
<1>6. ASSUME NEW r \in Readers, ReaderSteps(r) PROVE ServedInv'
  <2>1. UNCHANGED <<hist, job, reused>>
    BY <1>6, ReaderEffects
  <2>2. Live' = Live /\ Mem' = Mem /\ Imm' = Imm
    BY <1>6, ReaderLayers
  <2> QED BY <1>0, <2>1, <2>2, <1>ServedSame
<1>7. CASE Open
  <2> SUFFICES ASSUME ~reused' PROVE ServedInv'
    BY DEF ServedInv
  <2>1. Live' = Live /\ Mem' = LogData /\ hist' = LogData \cup Live /\ job'.pc = "none"
    BY <1>7, OpenLayers
  <2>2. \A x \in LogData \cup Live : x.key = x.key /\ x.seq >= x.seq
    BY LayerTypes, EntryFields, SMT
  <2> QED BY <2>1, <2>2, SMT DEF ServedInv
<1>8. CASE CloseJoin \/ Crash
  <2>1. hist' = {} /\ job'.pc = "none"
    BY <1>8, DownEffects, NoJobFields
  <2> QED BY <2>1 DEF ServedInv
<1>9. ASSUME NEW w \in Writers, Write(w) PROVE ServedInv'
  <2> SUFFICES ASSUME ~reused' PROVE ServedInv'
    BY DEF ServedInv
  <2>1. PICK e : e = [seq |-> versions.seq + 1, key |-> wr[w].key]
    OBVIOUS
  <2>2. /\ Live' = Live /\ Imm' = Imm /\ e \in Entry /\ UNCHANGED <<job, reused>>
        /\ \/ Mem' = Mem \cup {e} /\ hist' = hist \cup {e}
           \/ Mem' = Mem /\ hist' = hist
    BY <1>9, <2>1, WriteLayers
  <2>3. CASE Mem' = Mem /\ hist' = hist
    BY <1>0, <2>2, <2>3, <1>ServedSame, SMT
  <2>4. CASE Mem' = Mem \cup {e} /\ hist' = hist \cup {e}
    <3>1. \A x \in hist : \E y \in Mem \cup Imm \cup Live : y.key = x.key /\ y.seq >= x.seq
      BY <2>2 DEF ServedInv
    <3>2. e.key = e.key /\ e.seq >= e.seq
      BY <2>2, EntryFields, SMT
    <3>3. \A x \in hist' : \E y \in Mem' \cup Imm' \cup Live' : y.key = x.key /\ y.seq >= x.seq
      BY <2>2, <2>4, <3>1, <3>2
    <3>4. job'.pc = "clear" => Imm' \subseteq Live'
      BY <1>0, <2>2
    <3> QED BY <3>3, <3>4 DEF ServedInv
  <2> QED BY <2>2, <2>3, <2>4
<1>10. ASSUME NEW w \in Writers, NEW k \in Keys, NEW s \in BOOLEAN, closer = "none", MakeRoomForWrite(w, k, s)
      PROVE  ServedInv'
  <2>1. UNCHANGED <<job, hist>>
    BY <1>10, MakeRoomCases
  <2>2. CASE Moves(w, k, s)
    <3>1. UNCHANGED reused
      BY <2>2 DEF Moves
    <3>2. Live' = Live /\ Mem' = Mem /\ Imm' = Imm
      BY <2>2, MovesLayers
    <3> QED BY <1>0, <2>1, <3>1, <3>2, <1>ServedSame
  <2>3. ASSUME NEW ok \in BOOLEAN, Switches(w, k, s, ok) PROVE ServedInv'
    <3>1. reused => reused'
      BY <2>3 DEF Switches
    <3>2. ~reused' => Live' = Live /\ Mem' = {} /\ Imm' = Mem /\ Imm = {} /\ db.imm = 0
      BY <1>10, <2>3, SwitchLayers
    <3>3. db.imm = 0 => job.pc # "clear"
      BY DEF BaseInv, ControlInv
    <3> QED BY <2>1, <3>1, <3>2, <3>3, <1>ServedSame
  <2> QED BY <1>10, <2>2, <2>3, MakeRoomCases
<1>11. ASSUME NEW w \in Writers, WriterSteps(w) PROVE ServedInv'
  BY <1>9, <1>10, <1>11 DEF WriterSteps
<1> QED BY <1>4, <1>5, <1>6, <1>7, <1>8, <1>11, NextCases

-----------------------------------------------------------------------------
\* The invariant of files, counters and layers holds at the start.
LEMMA EngineInit == Init => EngineInv
<1> SUFFICES ASSUME Init PROVE EngineInv
  OBVIOUS
<1>1. BaseInv /\ FilledInv
  <2>1. FilledInv
    BY TableFacts, NoJobFields DEF Init, FilledInv
  <2> QED BY <2>1, InitBase
<1>2. FileInv
  BY FileInit
<1>3. versions.l0 = <<>> /\ versions.l1 = {} /\ job.pc = "none" /\ closer = "down" /\ hist = {} /\ manifest = versions
  BY NoJobFields DEF Init
<1>4. Live = {} /\ LogData = {}
  <2>1. LiveFiles = {}
    BY <1>3, SMT DEF LiveFiles, Range
  <2>2. manifest.log = 0
    BY DEF Init
  <2> QED BY <2>1, <2>2, SMT DEF Live, LogData
<1>5. JobSequence /\ manifest.seq <= versions.seq
  BY <1>1, <1>3, LayerTypes, SMT DEF JobSequence
<1>6. SequenceInv
  BY <1>3, <1>4, <1>5 DEF SequenceInv
<1>7. ServedInv
  BY <1>3 DEF ServedInv
<1> QED BY <1>1, <1>2, <1>6, <1>7 DEF EngineInv

\* Every step keeps it.
LEMMA EngineNext == ASSUME EngineInv, Next PROVE EngineInv'
<1>1. BaseInv /\ FilledInv /\ FileInv /\ SequenceInv /\ ServedInv
  BY DEF EngineInv
<1>2. BaseInv' /\ FilledInv'
  BY <1>1, BaseNext
<1>3. FileInv'
  BY <1>1, FileNext
<1>4. SequenceInv'
  BY <1>1, <1>2, SequenceNext
<1>5. ServedInv'
  BY <1>1, <1>2, ServedNext
<1> QED BY <1>2, <1>3, <1>4, <1>5 DEF EngineInv

\* So does a step that changes nothing.
LEMMA EngineStutter == ASSUME EngineInv, UNCHANGED vars PROVE EngineInv'
<1>1. BaseInv /\ FilledInv /\ FileInv /\ SequenceInv /\ ServedInv
  BY DEF EngineInv
<1>2. BaseInv' /\ FilledInv'
  BY <1>1, BaseStutter
<1>3. FileInv'
  BY <1>1, FileStutter
<1>4. UNCHANGED <<log, sst, manifest, versions, tables, db, job, closer, hist, reused>>
  BY DEF vars, files, history
<1>5. Live' = Live /\ LogData' = LogData /\ Mem' = Mem /\ Imm' = Imm
  BY <1>1, <1>4, SameTables DEF LogData, Mem, Imm, Table0
<1>6. SequenceInv'
  BY <1>1, <1>4, <1>5 DEF SequenceInv, JobSequence
<1>7. ServedInv'
  BY <1>1, <1>4, <1>5 DEF ServedInv
<1> QED BY <1>2, <1>3, <1>6, <1>7 DEF EngineInv

\* The invariant of files, counters and layers holds in every reachable state,
\* whatever fails: numbers handed out are below the counter, live tables are
\* complete and sorted into disjoint ranges, sequence numbers grow, and every
\* write of the history is found in some layer.
THEOREM EngineInductive == Spec => []EngineInv
<1>1. EngineInv /\ [Next]_vars => EngineInv'
  BY EngineNext, EngineStutter
<1> QED BY <1>1, EngineInit, PTL DEF Spec

\* Every table the MANIFEST names is a complete file, at every crash point of a
\* flush or a compaction, in a directory where no file number was reused
\* (FlushMemTable and CompactIfNeeded finish the table before LogAndApply names
\* it, and remove inputs only after it).
THEOREM FilesComplete == Spec => []ManifestComplete
<1>1. EngineInv => ManifestComplete
  <2> SUFFICES ASSUME EngineInv, ~reused, NEW n \in Numbers(manifest) PROVE sst[n].is = "complete"
    BY DEF ManifestComplete, LiveFilesComplete
  <2>1. BaseInv /\ FileInv
    BY DEF EngineInv
  <2>2. Numbers(manifest) = {f.number : f \in LiveFiles}
    BY <2>1 DEF Numbers, LiveFiles, BaseInv, NumberInv
  <2> QED BY <2>1, <2>2 DEF FileInv, Sound
<1> QED BY <1>1, EngineInductive, PTL

\* The files of level 1 have disjoint key ranges, which Version::Get and the next
\* compaction rely on, in a directory where no file number was reused
\* (CompactIfNeeded takes every file of level 1 that overlaps level 0).
THEOREM LevelsDisjoint == Spec => []Level1Disjoint
<1>1. EngineInv => Level1Disjoint
  BY DEF EngineInv, BaseInv, NumberInv, FileInv, Level1Disjoint, Before
<1> QED BY <1>1, EngineInductive, PTL

\* LastSequence covers every write served, what the MANIFEST records covers every
\* table it names, and no two writes served share a number, in a directory where
\* no file number was reused (Write, FlushMemTable, CompactIfNeeded, Open).
THEOREM SequenceNumbers == Spec => []SequenceCovers
<1>1. EngineInv => SequenceCovers
  <2> SUFFICES ASSUME EngineInv, ~reused PROVE SequenceCovers
    BY DEF SequenceCovers
  <2>1. BaseInv /\ SequenceInv
    BY DEF EngineInv
  <2>2. \A e \in hist : e.seq <= versions.seq
    <3>1. closer = "down" => hist = {}
      BY <2>1 DEF BaseInv, ControlInv
    <3> QED BY <2>1, <3>1 DEF SequenceInv
  <2>3. Numbers(manifest) = {f.number : f \in LiveFiles}
    BY <2>1, SMT DEF Numbers, LiveFiles, BaseInv, NumberInv
  <2>4. \A n \in Numbers(manifest) : \A e \in sst[n].data : e.seq <= manifest.seq
    BY <2>1, <2>3 DEF SequenceInv, Live, Data
  <2>5. \A e, f \in hist : e.seq = f.seq => e = f
    BY <2>1 DEF SequenceInv
  <2> QED BY <2>2, <2>4, <2>5 DEF SequenceCovers
<1> QED BY <1>1, EngineInductive, PTL

-----------------------------------------------------------------------------
\* Failures are only counted up.
LEMMA FaultNext == ASSUME FaultInv, [Next]_vars PROVE FaultInv' /\ faults' >= faults
<1> SUFFICES faults' = faults \/ faults' = faults + 1
  BY SMT DEF FaultInv
<1>1. CASE UNCHANGED vars
  BY <1>1 DEF vars, bounds
<1>2. CASE Open \/ Close \/ Destructor \/ Crash
  BY <1>2 DEF Open, Close, Destructor, CloseWait, CloseFlush, CloseJoin, Crash, Down, bounds
<1>3. CASE Background
  <2>1. UNCHANGED bounds
    BY <1>3 DEF Background, BgLoop, JobDone, FlushTake, FlushBuild, FlushInstall, FlushClear,
         CompactPick, CompactOpen, CompactMerge, CompactReplace, CompactRemove
  <2> QED BY <2>1 DEF bounds
<1>4. CASE JobFails
  BY <1>4 DEF JobFails
<1>5. ASSUME NEW w \in Writers, NEW k, NEW s, MakeRoomForWrite(w, k, s) PROVE faults' = faults \/ faults' = faults + 1
  <2>1. CASE Moves(w, k, s)
    BY <2>1 DEF Moves
  <2>2. ASSUME NEW ok \in BOOLEAN, Switches(w, k, s, ok) PROVE faults' = faults \/ faults' = faults + 1
    BY <2>2 DEF Switches
  <2> QED BY <1>5, <2>1, <2>2, MakeRoomCases
<1>6. ASSUME NEW w \in Writers, Write(w) PROVE faults' = faults \/ faults' = faults + 1
  BY <1>6 DEF Write
<1>7. ASSUME NEW r \in Readers, NEW k, Get(r, k) \/ ReadMem(r) \/ ReadFile(r) \/ Return(r)
      PROVE  faults' = faults
  BY <1>7 DEF Get, ReadMem, ReadFile, Return, bounds
<1> QED BY <1>1, <1>2, <1>3, <1>4, <1>5, <1>6, <1>7 DEF Next, Put, Retry
=============================================================================
