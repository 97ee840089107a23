----------------------------- MODULE LsmEngine -----------------------------
(***************************************************************************)
(* The key-value engine: DBImpl (db.cpp) with its writers, readers, the    *)
(* background thread and the destructor, over VersionSet (version.cpp),    *)
(* CompactLevel0 (compaction.cpp) and the write-ahead log (wal.cpp).       *)
(*                                                                         *)
(* An entry is a write: its sequence number and its user key.  A deletion  *)
(* is a write like any other up to what the caller of Get makes of it, so  *)
(* values are left out and a read answers the sequence number it found.    *)
(* A step is a section under mutex_, or a file operation outside it.       *)
(* A crash is the death of the process: what it handed to the operating    *)
(* system stays, what sat in the log's stream buffer may be lost or torn.  *)
(***************************************************************************)
EXTENDS Naturals, Sequences, FiniteSets, FiniteSetsExt

CONSTANTS
    Keys,          \* user keys, naturals in byte order
    Writers, Readers,
    Syncs,         \* the values of WriteOptions::sync that callers use
    WriteBuffer,   \* write_buffer_size, in entries
    Trigger,       \* level0_compaction_trigger
    MaxSeq,        \* bound: writes
    MaxFile,       \* bound: file numbers
    MaxOpens, MaxCrashes, MaxFaults   \* bounds

ASSUME KeysAssumption == Keys \subseteq Nat /\ IsFiniteSet(Keys) /\ Syncs \subseteq BOOLEAN
ASSUME OptionsAssumption == WriteBuffer \in Nat \ {0} /\ Trigger \in Nat \ {0}
ASSUME EngineBounds == MaxSeq \in Nat /\ MaxFile \in Nat \ {0, 1} /\ IsFiniteSet(Writers)

Files == 1 .. MaxFile
Entry == [seq : 1 .. MaxSeq, key : Keys]
FileMetaData == [number : Files, lo : Keys, hi : Keys]

VARIABLES
    \* --- files
    log,      \* <n>.log: its records, how many left the buffer, whether it ends torn
    sst,      \* <n>.sst: absent, partial or complete, and its entries
    manifest, \* CURRENT and the MANIFEST, replayed: counters and live files
    \* --- the process
    versions, \* VersionSet: counters and the current Version
    tables,   \* memtables, named by the number of their log
    db,       \* members of DBImpl
    bg, job,  \* the background thread; the flush or compaction under way
    wr, rd,   \* writer and reader threads
    closer,   \* the destructor
    \* --- history and bounds
    hist,     \* writes this process serves
    synced,   \* newest write of each key acknowledged with WriteOptions::sync
    mine,     \* the same, by this process
    reused,   \* a file was created over an older one of the same number, or
              \* under the number of a removed one that a Get has yet to read
    opens, crashes, faults

files == <<log, sst, manifest>>
history == <<hist, synced, mine, reused>>
bounds == <<opens, crashes, faults>>
vars == <<files, versions, tables, db, bg, job, wr, rd, closer, history, bounds>>

NoFile == [is |-> "absent", data |-> {}]
Partial == [is |-> "partial", data |-> {}]
Table(E) == [is |-> "complete", data |-> E]
EmptyLog == [recs |-> <<>>, flushed |-> 0, torn |-> FALSE]

NoJob == [pc |-> "none", what |-> "flush", ok |-> TRUE, table |-> 0, number |-> 0,
          seq |-> 0, in0 |-> <<>>, in1 |-> {}, data |-> {}]
IdleWriter == [pc |-> "idle", key |-> 0, sync |-> FALSE]
IdleReader == [pc |-> "idle", key |-> 0, mem |-> 0, imm |-> 0, snapshot |-> 0,
               l0 |-> <<>>, l1 |-> {}, res |-> 0]
NoDB == [mem |-> 0, imm |-> 0, wal |-> FALSE, flush_scheduled |-> FALSE,
         compaction_scheduled |-> FALSE, bg_error |-> FALSE, shutting_down |-> FALSE]

\* VersionSet::NewDB has run; nobody has opened the database.
Init ==
    /\ log = [n \in Files |-> EmptyLog]
    /\ sst = [n \in Files |-> NoFile]
    /\ manifest = [next |-> 2, seq |-> 0, log |-> 0, l0 |-> <<>>, l1 |-> {}]
    /\ versions = manifest
    /\ tables = [n \in Files |-> {}]
    /\ db = NoDB
    /\ bg = "exit" /\ job = NoJob
    /\ wr = [w \in Writers |-> IdleWriter]
    /\ rd = [r \in Readers |-> IdleReader]
    /\ closer = "down"
    /\ hist = {}
    /\ synced = [k \in Keys |-> 0] /\ mine = synced /\ reused = FALSE
    /\ opens = 0 /\ crashes = 0 /\ faults = 0

\* mutex_ is held across steps only by a writer that made room and by the
\* compaction that removes its inputs.
MutexFree == (\A w \in Writers : wr[w].pc # "write") /\ job.pc # "remove"

Larger(a, b) == IF a >= b THEN a ELSE b
Seqs(E) == {e.seq : e \in E}

\* The newest sequence number of key k up to a snapshot; 0 when there is none.
NewestSeq(E, k, snapshot) ==
    Max({0} \cup {e.seq : e \in {x \in E : x.key = k /\ x.seq <= snapshot}})

\* bg_cv_.notify_all.
WokenNobody(W) == W
Woken(W) == [w \in Writers |-> IF W[w].pc = "cv" THEN [W[w] EXCEPT !.pc = "room"] ELSE W[w]]
UnwokenCloser == closer
WokenCloser == IF closer = "cv" THEN "recheck" ELSE closer
WokenBg == IF bg = "cv" THEN "run" ELSE bg

-----------------------------------------------------------------------------
\* VersionEdit and VersionSet::LogAndApply; 0 is an unset field.

NoEdit == [next |-> 0, seq |-> 0, log |-> 0, del0 |-> {}, del1 |-> {},
           add0 |-> <<>>, add1 |-> {}]

\* The files of s whose number is not in del, in their order.
Kept(s, del) ==
    LET K == {i \in 1 .. Len(s) : s[i].number \notin del}
        Rank(i) == Cardinality({j \in K : j <= i})
    IN  [n \in 1 .. Cardinality(K) |-> s[CHOOSE i \in K : Rank(i) = n]]

ApplyFilesInFront(v, edit) ==
    [v EXCEPT !.l0 = edit.add0 \o Kept(@, edit.del0),
              !.l1 = {f \in @ : f.number \notin edit.del1} \cup edit.add1]
ApplyFiles(v, edit) ==
    [v EXCEPT !.l0 = Kept(@, edit.del0) \o edit.add0,
              !.l1 = {f \in @ : f.number \notin edit.del1} \cup edit.add1]

\* Counters in memory only grow; replaying the MANIFEST assigns them.
LogAndApply(v, edit) ==
    /\ versions' = [ApplyFiles(v, edit) EXCEPT
                       !.next = Larger(@, edit.next), !.seq = Larger(@, edit.seq),
                       !.log = IF edit.log # 0 THEN edit.log ELSE @]
    /\ manifest' = [ApplyFiles(manifest, edit) EXCEPT
                       !.next = IF edit.next # 0 THEN edit.next ELSE @,
                       !.seq = IF edit.seq # 0 THEN edit.seq ELSE @,
                       !.log = IF edit.log # 0 THEN edit.log ELSE @]

-----------------------------------------------------------------------------
\* DBImpl::Open.  The log to write is opened for append before the log the
\* MANIFEST names is replayed; a torn record fails the call.  A crash inside
\* is a crash before it: the MANIFEST append is its only lasting effect.
Open ==
    /\ closer = "down" /\ opens < MaxOpens /\ manifest.next < MaxFile
    /\ LET n == manifest.next
           old == IF manifest.log = 0 THEN EmptyLog ELSE log[manifest.log]
           E == Range(old.recs)
           seq == Max({manifest.seq} \cup Seqs(E))
       IN  /\ ~old.torn
           /\ LogAndApply([manifest EXCEPT !.next = n + 2, !.seq = seq],
                          [NoEdit EXCEPT !.log = n, !.next = n + 1])
           /\ tables' = [tables EXCEPT ![n] = E]
           /\ db' = [NoDB EXCEPT !.mem = n, !.wal = TRUE]
           /\ hist' = E \cup UNION {sst[f.number].data : f \in Range(manifest.l0) \cup manifest.l1}
           /\ reused' = (reused \/ log[n].recs # <<>>)
    /\ bg' = "run"
    /\ closer' = "none"
    /\ opens' = opens + 1
    /\ UNCHANGED <<log, sst, job, wr, rd, synced, mine, crashes, faults>>

-----------------------------------------------------------------------------
\* What WalWriter::Close leaves of log l: a stream that failed drops any part
\* of its buffer.
Prefix(l, n) == [recs |-> SubSeq(l.recs, 1, n), flushed |-> n, torn |-> l.torn]
Closed(l) == {Prefix(l, n) : n \in (IF db.wal THEN Len(l.recs) ELSE l.flushed) .. Len(l.recs)}

-----------------------------------------------------------------------------
\* DBImpl::Write, called by Put and Delete.

Full == Cardinality(tables[db.mem]) >= WriteBuffer

\* The new memtable and its log; the old ones become imm_.
Rotated(n, wal) == [db EXCEPT !.imm = db.mem, !.mem = n, !.wal = wal]

\* MakeRoomForWrite: return an error, go on, wait for the flush of imm_, or
\* rotate.  Opening the new log or appending the edit to the MANIFEST may fail
\* after imm_ and mem_ have been switched.
MakeRoomForWrite(w, k, s) ==
    /\ MutexFree
    /\ LET n == versions.next
           Goto(pc) == [wr EXCEPT ![w] = [pc |-> pc, key |-> k, sync |-> s]]
           Fail == [wr EXCEPT ![w] = IdleWriter]
           Switch == /\ tables' = [tables EXCEPT ![n] = {}]
                     /\ \E l \in Closed(log[db.mem]) : log' = [log EXCEPT ![db.mem] = l]
                     /\ reused' = (reused \/ log[n].recs # <<>>)
           Stay == UNCHANGED <<files, versions, tables, db, bg, reused, faults>>
       IN  \/ /\ db.bg_error
              /\ wr' = Fail
              /\ Stay
           \/ /\ ~db.bg_error /\ ~Full
              /\ wr' = Goto("write")
              /\ Stay
           \/ /\ ~db.bg_error /\ Full /\ db.imm # 0
              /\ wr' = Goto("cv")
              /\ Stay
           \/ /\ ~db.bg_error /\ Full /\ db.imm = 0
              /\ n <= MaxFile /\ Switch
              /\ LogAndApply([versions EXCEPT !.next = n + 1], [NoEdit EXCEPT !.log = n])
              /\ db' = [Rotated(n, TRUE) EXCEPT !.flush_scheduled = TRUE]
              /\ bg' = WokenBg
              /\ wr' = Woken(Goto("write"))
              /\ UNCHANGED <<sst, faults>>
           \/ /\ ~db.bg_error /\ Full /\ db.imm = 0
              /\ faults < MaxFaults /\ faults' = faults + 1
              /\ n <= MaxFile /\ Switch
              /\ \E wal \in BOOLEAN :
                    /\ db' = Rotated(n, wal)
                    /\ versions' = [versions EXCEPT !.next = n + 1, !.log = IF wal THEN n ELSE @]
              /\ wr' = Fail
              /\ UNCHANGED <<sst, manifest, bg>>
    /\ UNCHANGED <<job, rd, closer, hist, synced, mine, opens, crashes>>

InFlight == {w \in Writers : wr[w].pc # "idle"}

Put(w, k, s) ==
    /\ closer = "none"
    /\ wr[w] = IdleWriter
    /\ versions.seq + Cardinality(InFlight) < MaxSeq
    /\ MakeRoomForWrite(w, k, s)

\* The wait in MakeRoomForWrite is over.
Retry(w) == wr[w].pc = "room" /\ MakeRoomForWrite(w, wr[w].key, wr[w].sync)

\* WalWriter::AddRecord and, with sync, WalWriter::Sync.
AppendedSyncFirst(l, e, sync) ==
    [l EXCEPT !.recs = Append(@, e), !.flushed = IF sync THEN Len(l.recs) ELSE @]
Appended(l, e, sync) ==
    [l EXCEPT !.recs = Append(@, e), !.flushed = IF sync THEN Len(l.recs) + 1 ELSE @]

\* The rest of Write.  A log that could not be opened or written fails every
\* append until the next rotation; a failing append may leave a part of the
\* record, a failing sync the whole of it.
Write(w) ==
    /\ wr[w].pc = "write"
    /\ LET seq == versions.seq + 1
           e == [seq |-> seq, key |-> wr[w].key]
       IN  /\ versions' = [versions EXCEPT !.seq = seq]
           /\ \/ /\ db.wal
                 /\ log' = [log EXCEPT ![db.mem] = Appended(@, e, wr[w].sync)]
                 /\ tables' = [tables EXCEPT ![db.mem] = @ \cup {e}]
                 /\ hist' = hist \cup {e}
                 /\ IF wr[w].sync
                    THEN synced' = [synced EXCEPT ![e.key] = seq] /\ mine' = [mine EXCEPT ![e.key] = seq]
                    ELSE UNCHANGED <<synced, mine>>
                 /\ IF Cardinality(tables[db.mem]) + 1 >= WriteBuffer
                    THEN /\ db' = [db EXCEPT !.flush_scheduled = TRUE]
                         /\ bg' = WokenBg
                         /\ wr' = Woken([wr EXCEPT ![w] = IdleWriter])
                    ELSE wr' = [wr EXCEPT ![w] = IdleWriter] /\ UNCHANGED <<db, bg>>
                 /\ UNCHANGED faults
              \/ /\ db.wal => faults < MaxFaults
                 /\ faults' = IF db.wal THEN faults + 1 ELSE faults
                 /\ db' = [db EXCEPT !.wal = FALSE]
                 /\ log' \in IF db.wal THEN {log, [log EXCEPT ![db.mem].torn = TRUE],
                                             [log EXCEPT ![db.mem] = Appended(@, e, FALSE)]}
                                       ELSE {log}
                 /\ wr' = [wr EXCEPT ![w] = IdleWriter]
                 /\ UNCHANGED <<tables, hist, synced, mine, bg>>
    /\ UNCHANGED <<sst, manifest, job, rd, closer, reused, opens, crashes>>

-----------------------------------------------------------------------------
\* FlushMemTable, run by the background thread or, at the end, the destructor.
\* Both have seen imm_ set and nobody else clears it.

MetaNoSmallest(n, E) == [number |-> n, lo |-> 0, hi |-> Max({e.key : e \in E})]
Meta(n, E) == [number |-> n, lo |-> Min({e.key : e \in E}), hi |-> Max({e.key : e \in E})]

\* The files that a Get has yet to read.
BeingRead == UNION {{f.number : f \in Range(rd[r].l0) \cup rd[r].l1} : r \in Readers}

\* SSTableBuilder::Open truncates the file it names.
Truncate(n) ==
    /\ sst' = [sst EXCEPT ![n] = Partial]
    /\ reused' = (reused \/ sst[n] # NoFile \/ n \in BeingRead)

FlushTakeClearsImm ==
    /\ job.pc = "take" /\ MutexFree /\ versions.next <= MaxFile
    /\ versions' = [versions EXCEPT !.next = @ + 1]
    /\ Truncate(versions.next)
    /\ db' = [db EXCEPT !.imm = 0]
    /\ job' = [job EXCEPT !.pc = "build", !.table = db.imm, !.number = versions.next]
    /\ UNCHANGED <<log, manifest, tables, bg, wr, rd, closer, hist, synced, mine, bounds>>

FlushTake ==
    /\ job.pc = "take" /\ MutexFree /\ versions.next <= MaxFile
    /\ versions' = [versions EXCEPT !.next = @ + 1]
    /\ Truncate(versions.next)
    /\ job' = [job EXCEPT !.pc = "build", !.table = db.imm, !.number = versions.next]
    /\ UNCHANGED <<log, manifest, tables, db, bg, wr, rd, closer, hist, synced, mine, bounds>>

\* BuildTableFromMemTable; LastSequence is read before the lock is taken.
FlushBuild ==
    /\ job.pc = "build"
    /\ sst' = [sst EXCEPT ![job.number] = Table(tables[job.table])]
    /\ job' = [job EXCEPT !.pc = "install", !.seq = versions.seq]
    /\ UNCHANGED <<log, manifest, versions, tables, db, bg, wr, rd, closer, history, bounds>>

FlushInstallNoSequence ==
    /\ job.pc = "install" /\ MutexFree
    /\ LogAndApply(versions, [NoEdit EXCEPT !.add0 = <<Meta(job.number, tables[job.table])>>])
    /\ job' = [job EXCEPT !.pc = "clear"]
    /\ UNCHANGED <<log, sst, tables, db, bg, wr, rd, closer, history, bounds>>

FlushInstall ==
    /\ job.pc = "install" /\ MutexFree
    /\ LogAndApply(versions, [NoEdit EXCEPT !.seq = job.seq,
                                !.add0 = <<Meta(job.number, tables[job.table])>>])
    /\ job' = [job EXCEPT !.pc = "clear"]
    /\ UNCHANGED <<log, sst, tables, db, bg, wr, rd, closer, history, bounds>>

FlushClear ==
    /\ job.pc = "clear" /\ MutexFree
    /\ db' = [db EXCEPT !.imm = 0]
    /\ job' = [job EXCEPT !.pc = "done"]
    /\ UNCHANGED <<files, versions, tables, bg, wr, rd, closer, history, bounds>>

-----------------------------------------------------------------------------
\* CompactIfNeeded and CompactLevel0.

FileOverlapsInside(f, lo, hi) == f.hi > lo /\ f.lo < hi
FileOverlapsRange(f, lo, hi) == f.hi >= lo /\ f.lo <= hi

CompactPick ==
    /\ job.pc = "pick" /\ MutexFree
    /\ LET F == Range(versions.l0)
       IN  \/ /\ Len(versions.l0) < Trigger
              /\ job' = [job EXCEPT !.pc = "done"]
              /\ UNCHANGED versions
           \/ /\ Len(versions.l0) >= Trigger /\ versions.next <= MaxFile
              /\ versions' = [versions EXCEPT !.next = @ + 1]
              /\ job' = [job EXCEPT !.pc = "open", !.number = versions.next,
                           !.in0 = versions.l0,
                           !.in1 = {f \in versions.l1 :
                                      FileOverlapsRange(f, Min({g.lo : g \in F}), Max({g.hi : g \in F}))}]
    /\ UNCHANGED <<files, tables, db, bg, wr, rd, closer, history, bounds>>

Inputs == Range(job.in0) \cup job.in1

\* Every input is read as a whole before the output is created.
CompactOpen ==
    /\ job.pc = "open"
    /\ IF \A f \in Inputs : sst[f.number].is = "complete"
       THEN /\ Truncate(job.number)
            /\ job' = [job EXCEPT !.pc = "merge", !.data = UNION {sst[f.number].data : f \in Inputs}]
       ELSE /\ job' = [job EXCEPT !.pc = "done", !.ok = FALSE]
            /\ UNCHANGED <<sst, reused>>
    /\ UNCHANGED <<log, manifest, versions, tables, db, bg, wr, rd, closer, hist, synced, mine, bounds>>

\* The newest entry of every key.
Merged(E) == {e \in E : \A x \in E : x.key = e.key => x.seq <= e.seq}

CompactMergeRemovesInputs ==
    /\ job.pc = "merge"
    /\ sst' = [n \in Files |-> IF n = job.number THEN Table(Merged(job.data))
                               ELSE IF n \in {f.number : f \in Inputs} THEN NoFile ELSE sst[n]]
    /\ job' = [job EXCEPT !.pc = "replace", !.data = Merged(@), !.seq = versions.seq]
    /\ UNCHANGED <<log, manifest, versions, tables, db, bg, wr, rd, closer, history, bounds>>

\* LastSequence is read before the lock is taken.
CompactMerge ==
    /\ job.pc = "merge"
    /\ sst' = [sst EXCEPT ![job.number] = Table(Merged(job.data))]
    /\ job' = [job EXCEPT !.pc = "replace", !.data = Merged(@), !.seq = versions.seq]
    /\ UNCHANGED <<log, manifest, versions, tables, db, bg, wr, rd, closer, history, bounds>>

\* The lock taken here is held until the inputs are removed.
CompactReplace ==
    /\ job.pc = "replace" /\ MutexFree
    /\ LogAndApply(versions, [NoEdit EXCEPT !.seq = job.seq,
                                !.del0 = {f.number : f \in Range(job.in0)},
                                !.del1 = {f.number : f \in job.in1},
                                !.add1 = {Meta(job.number, job.data)}])
    /\ job' = [job EXCEPT !.pc = "remove"]
    /\ UNCHANGED <<log, sst, tables, db, bg, wr, rd, closer, history, bounds>>

CompactRemove ==
    /\ job.pc = "remove"
    /\ sst' = [n \in Files |-> IF n \in {f.number : f \in Inputs} THEN NoFile ELSE sst[n]]
    /\ job' = [job EXCEPT !.pc = "done"]
    /\ UNCHANGED <<log, manifest, versions, tables, db, bg, wr, rd, closer, history, bounds>>

\* A file cannot be read or written, or the edit not be appended: the call
\* returns an error.
JobFails ==
    /\ faults < MaxFaults
    /\ job.pc \in {"build", "open", "merge"} \/ (job.pc \in {"install", "replace"} /\ MutexFree)
    /\ faults' = faults + 1
    /\ job' = [job EXCEPT !.pc = "done", !.ok = FALSE]
    /\ UNCHANGED <<files, versions, tables, db, bg, wr, rd, closer, history, opens, crashes>>

-----------------------------------------------------------------------------
\* BackgroundThreadMain: one turn of its loop up to the call it makes.
BgLoop ==
    /\ bg = "run" /\ MutexFree
    /\ LET Work(what, pc) == bg' = "work" /\ job' = [NoJob EXCEPT !.what = what, !.pc = pc]
       IN  \/ /\ db.shutting_down
              /\ bg' = "exit"
              /\ UNCHANGED <<db, job, wr, closer>>
           \/ /\ ~db.shutting_down /\ ~db.flush_scheduled /\ ~db.compaction_scheduled
              /\ bg' = "cv"
              /\ UNCHANGED <<db, job, wr, closer>>
           \/ /\ ~db.shutting_down /\ db.flush_scheduled /\ db.imm # 0
              /\ db' = [db EXCEPT !.flush_scheduled = FALSE]
              /\ Work("flush", "take")
              /\ UNCHANGED <<wr, closer>>
           \/ /\ ~db.shutting_down /\ db.compaction_scheduled
              /\ ~(db.flush_scheduled /\ db.imm # 0)
              /\ db' = [db EXCEPT !.compaction_scheduled = FALSE]
              /\ Work("compaction", "pick")
              /\ UNCHANGED <<wr, closer>>
           \/ /\ ~db.shutting_down /\ db.flush_scheduled
              /\ db.imm = 0 /\ ~db.compaction_scheduled
              /\ db' = [db EXCEPT !.flush_scheduled = FALSE]
              /\ wr' = Woken(wr) /\ closer' = WokenCloser
              /\ UNCHANGED <<bg, job>>
    /\ UNCHANGED <<files, versions, tables, rd, history, bounds>>

\* The call returned: the caller's lock, bg_error_ and notification.
JobDone ==
    /\ job.pc = "done" /\ MutexFree
    /\ LET failed == [db EXCEPT !.bg_error = @ \/ ~job.ok]
       IN  \/ /\ bg = "work"
              /\ db' = [failed EXCEPT !.compaction_scheduled = @ \/ job.what = "flush"]
              /\ bg' = "run"
              /\ wr' = Woken(wr) /\ closer' = WokenCloser
           \/ /\ closer = "flushing"
              /\ db' = failed
              /\ closer' = "flush"
              /\ UNCHANGED <<bg, wr>>
    /\ job' = NoJob
    /\ UNCHANGED <<files, versions, tables, rd, history, bounds>>

-----------------------------------------------------------------------------
\* DBImpl::Get and Version::Get.

\* The section under mutex_: memtables, snapshot and Version are taken together.
Get(r, k) ==
    /\ closer = "none" /\ MutexFree
    /\ rd[r] = IdleReader
    /\ rd' = [rd EXCEPT ![r] =
                 [pc |-> "mem", key |-> k, mem |-> db.mem, imm |-> db.imm, res |-> 0,
                  snapshot |-> versions.seq, l0 |-> versions.l0, l1 |-> versions.l1]]
    /\ UNCHANGED <<files, versions, tables, db, bg, job, wr, closer, history, bounds>>

\* mem_ and then imm_; the newest entry up to the snapshot wins.
ReadMem(r) ==
    /\ rd[r].pc = "mem"
    /\ LET In(n) == IF n = 0 THEN 0 ELSE NewestSeq(tables[n], rd[r].key, rd[r].snapshot)
           s == IF In(rd[r].mem) # 0 THEN In(rd[r].mem) ELSE In(rd[r].imm)
       IN  rd' = [rd EXCEPT ![r].res = s, ![r].pc = IF s # 0 THEN "done" ELSE "files"]
    /\ UNCHANGED <<files, versions, tables, db, bg, job, wr, closer, history, bounds>>

\* The next file that can hold the key, L0 from its newest; a file that is gone
\* or unfinished ends the read with an error, and with none left the key is not
\* found.
Covers(f, k) == f.lo <= k /\ k <= f.hi

ReadFile(r) ==
    /\ rd[r].pc = "files"
    /\ LET me == rd[r]
           C0 == {i \in 1 .. Len(me.l0) : Covers(me.l0[i], me.key)}
           C1 == {f \in me.l1 : Covers(f, me.key)}
           Look(n, rest) ==
               LET s == NewestSeq(sst[n].data, me.key, me.snapshot)
               IN  rd' = [rd EXCEPT ![r] =
                            IF sst[n].is # "complete" THEN [me EXCEPT !.pc = "error"]
                            ELSE IF s # 0 THEN [me EXCEPT !.res = s, !.pc = "done"] ELSE rest]
       IN  \/ \E i \in C0 : /\ \A j \in C0 : j <= i
                            /\ Look(me.l0[i].number, [me EXCEPT !.l0 = SubSeq(@, 1, i - 1)])
           \/ /\ C0 = {}
              /\ \E f \in C1 : Look(f.number, [me EXCEPT !.l1 = @ \ {f}])
           \/ /\ C0 = {} /\ C1 = {}
              /\ rd' = [rd EXCEPT ![r].pc = "done"]
    /\ UNCHANGED <<files, versions, tables, db, bg, job, wr, closer, history, bounds>>

Return(r) ==
    /\ rd[r].pc \in {"done", "error"}
    /\ rd' = [rd EXCEPT ![r] = IdleReader]
    /\ UNCHANGED <<files, versions, tables, db, bg, job, wr, closer, history, bounds>>

-----------------------------------------------------------------------------
\* ~DBImpl.  Its caller has no other call under way.

Close ==
    /\ closer = "none"
    /\ InFlight = {} /\ \A r \in Readers : rd[r] = IdleReader
    /\ db' = [db EXCEPT !.shutting_down = TRUE]
    /\ closer' = "lock"
    /\ UNCHANGED <<files, versions, tables, bg, job, wr, rd, history, bounds>>

\* notify_all, and the wait for !bg_working_.
CloseWait ==
    /\ closer \in {"lock", "recheck"} /\ MutexFree
    /\ bg' = IF closer = "lock" THEN WokenBg ELSE bg
    /\ closer' = IF bg = "work" THEN "cv" ELSE "flush"
    /\ UNCHANGED <<files, versions, tables, db, job, wr, rd, history, bounds>>

\* The loop that flushes imm_ until there is none.
CloseFlush ==
    /\ closer = "flush"
    /\ IF db.imm # 0
       THEN closer' = "flushing" /\ job' = [NoJob EXCEPT !.pc = "take"]
       ELSE closer' = "join" /\ UNCHANGED job
    /\ UNCHANGED <<files, versions, tables, db, bg, wr, rd, history, bounds>>

\* The process is gone; the log is left as it is on disk.
Down(l) ==
    /\ log' = l
    /\ versions' = manifest
    /\ tables' = [n \in Files |-> {}]
    /\ db' = NoDB
    /\ bg' = "exit" /\ job' = NoJob
    /\ wr' = [w \in Writers |-> IdleWriter]
    /\ rd' = [r \in Readers |-> IdleReader]
    /\ closer' = "down"
    /\ hist' = {} /\ mine' = [k \in Keys |-> 0]
    /\ UNCHANGED <<sst, manifest, synced, reused, opens, faults>>

CloseJoin ==
    /\ closer = "join" /\ bg = "exit"
    /\ \E l \in Closed(log[db.mem]) : Down([log EXCEPT ![db.mem] = l])
    /\ UNCHANGED crashes

\* The process dies: any part of what the log's stream still buffers is gone.
Crash ==
    /\ closer # "down" /\ crashes < MaxCrashes
    /\ crashes' = crashes + 1
    /\ LET l == log[db.mem]
       IN  \E n \in l.flushed .. Len(l.recs), torn \in BOOLEAN :
              /\ torn => n < Len(l.recs)
              /\ Down([log EXCEPT ![db.mem] = [Prefix(l, n) EXCEPT !.torn = @ \/ torn]])

-----------------------------------------------------------------------------
Background ==
    \/ BgLoop \/ JobDone
    \/ FlushTake \/ FlushBuild \/ FlushInstall \/ FlushClear
    \/ CompactPick \/ CompactOpen \/ CompactMerge \/ CompactReplace \/ CompactRemove

Destructor == CloseWait \/ CloseFlush \/ CloseJoin

Next ==
    \/ Open \/ Close \/ Destructor \/ Crash
    \/ Background \/ JobFails
    \/ \E w \in Writers :
          \/ \E k \in Keys, s \in Syncs : Put(w, k, s)
          \/ Retry(w) \/ Write(w)
    \/ \E r \in Readers :
          \/ \E k \in Keys : Get(r, k)
          \/ ReadMem(r) \/ ReadFile(r) \/ Return(r)

Spec == Init /\ [][Next]_vars

\* Every thread that can run runs; nobody has to call, and nothing has to fail.
Fairness ==
    /\ WF_vars(Background) /\ WF_vars(Destructor)
    /\ \A w \in Writers : WF_vars(Retry(w)) /\ WF_vars(Write(w))

LiveSpec == Spec /\ Fairness

-----------------------------------------------------------------------------
Table0(n) == IF n = 0 THEN {} ELSE tables[n]
Numbers(v) == {f.number : f \in Range(v.l0) \cup v.l1}

\* What opening the database now would serve.
Recoverable ==
    (UNION {sst[n].data : n \in Numbers(manifest)})
        \cup (IF manifest.log = 0 THEN {}
              ELSE LET l == log[manifest.log] IN Range(SubSeq(l.recs, 1, l.flushed)))

\* Types of the engine's files, members and threads; no number passes its bound.
LogFile == [recs : Seq(Entry), flushed : Nat, torn : BOOLEAN]
TableFile == [is : {"absent", "partial", "complete"}, data : SUBSET Entry]
VersionType == [next : 2 .. MaxFile + 1, seq : 0 .. MaxSeq, log : 0 .. MaxFile,
                l0 : Seq(FileMetaData), l1 : SUBSET FileMetaData]
DBType == [mem : 0 .. MaxFile, imm : 0 .. MaxFile, wal : BOOLEAN, flush_scheduled : BOOLEAN,
           compaction_scheduled : BOOLEAN, bg_error : BOOLEAN, shutting_down : BOOLEAN]
JobType == [pc : {"none", "take", "build", "install", "clear", "pick", "open", "merge",
                  "replace", "remove", "done"},
            what : {"flush", "compaction"}, ok : BOOLEAN, table : 0 .. MaxFile,
            number : 0 .. MaxFile, seq : 0 .. MaxSeq, in0 : Seq(FileMetaData),
            in1 : SUBSET FileMetaData, data : SUBSET Entry]
WriterType == [pc : {"idle", "room", "cv", "write"}, key : Keys \cup {0}, sync : BOOLEAN]
ReaderType == [pc : {"idle", "mem", "files", "done", "error"}, key : Keys \cup {0},
               mem : 0 .. MaxFile, imm : 0 .. MaxFile, snapshot : 0 .. MaxSeq,
               l0 : Seq(FileMetaData), l1 : SUBSET FileMetaData, res : 0 .. MaxSeq]

TypeOK ==
    /\ log \in [Files -> LogFile] /\ \A n \in Files : log[n].flushed <= Len(log[n].recs)
    /\ sst \in [Files -> TableFile] /\ tables \in [Files -> SUBSET Entry]
    /\ manifest \in VersionType /\ versions \in VersionType
    /\ db \in DBType /\ job \in JobType
    /\ bg \in {"run", "cv", "work", "exit"}
    /\ wr \in [Writers -> WriterType] /\ rd \in [Readers -> ReaderType]
    /\ closer \in {"none", "lock", "cv", "recheck", "flush", "flushing", "join", "down"}
    /\ hist \subseteq Entry /\ synced \in [Keys -> 0 .. MaxSeq] /\ mine \in [Keys -> 0 .. MaxSeq]
    /\ reused \in BOOLEAN

\* A Get that succeeds answers the newest write of its key up to the snapshot it
\* took, whatever rotations, flushes and compactions run between its steps
\* (DBImpl::Get, Version::Get); in a directory where no file number was reused.
ReadsSnapshot ==
    \A r \in Readers : rd[r].pc = "done" /\ ~reused =>
        rd[r].res = NewestSeq(hist, rd[r].key, rd[r].snapshot)

\* B has nothing newer than what A has of a key that A does not have as well.
NotOlder(A, B) == \A a \in A, b \in B : a.key = b.key => a.seq >= b.seq \/ b \in A

\* The order Get searches in is the order of the writes: for every key mem_ hides
\* nothing newer in imm_, imm_ than L0, a later L0 file than an earlier one,
\* and L0 than L1 (MakeRoomForWrite, FlushMemTable, CompactIfNeeded, Open).
LayersOrdered ==
    LET l0 == versions.l0
        Data(f) == sst[f.number].data
        L1 == UNION {Data(f) : f \in versions.l1}
    IN  reused \/ closer = "down" \/
        /\ NotOlder(Table0(db.mem), Table0(db.imm))
        /\ NotOlder(Table0(db.mem) \cup Table0(db.imm), L1)
        /\ \A i \in 1 .. Len(l0) :
              /\ NotOlder(Table0(db.mem) \cup Table0(db.imm), Data(l0[i]))
              /\ \A j \in 1 .. i - 1 : NotOlder(Data(l0[i]), Data(l0[j]))
              /\ NotOlder(Data(l0[i]), L1)

\* Level 1 stays non-overlapping (version.h), in memory and as the MANIFEST
\* would be replayed: CompactLevel0 takes every L1 file its output can overlap.
Level1Disjoint ==
    reused \/ \A v \in {versions, manifest} : \A f, g \in v.l1 : f # g => f.hi < g.lo \/ g.hi < f.lo

\* Every file the MANIFEST lists is complete on disk, whenever the process dies:
\* files are built before LogAndApply and removed after it (FlushMemTable,
\* CompactIfNeeded).
LiveFilesComplete == \A n \in Numbers(manifest) : sst[n].is = "complete"
ManifestComplete == reused \/ LiveFilesComplete

\* No sequence number is given twice to writes that can meet: LastSequence is at
\* least that of every write served, and what the MANIFEST records at least
\* that of every write in the files it lists (the edits of FlushMemTable and
\* CompactIfNeeded carry a LastSequence read outside the lock).
SequenceCovers ==
    reused \/
    /\ \A e \in hist : e.seq <= versions.seq
    /\ \A n \in Numbers(manifest) : \A e \in sst[n].data : e.seq <= manifest.seq
    /\ \A e, f \in hist : e.seq = f.seq => e = f

\* Where a synced write is safe: one acknowledged by this process can be
\* recovered from disk, or a newer one of its key, except while its memtable is
\* imm_ and not yet a file of the MANIFEST (Write, MakeRoomForWrite, FlushMemTable).
SyncedRecoverable ==
    closer # "down" /\ ~reused /\ faults = 0 =>
        \A k \in Keys : \/ NewestSeq(Recoverable, k, MaxSeq) >= mine[k]
                        \/ mine[k] \in Seqs(Table0(db.imm))

\* DESIGN.md's "Correct Put/Get/Delete with durable WAL-backed writes": an open
\* database serves every write that was acknowledged with WriteOptions::sync.
SyncedServed ==
    closer = "none" => \A k \in Keys : NewestSeq(hist, k, MaxSeq) >= synced[k]

\* DESIGN.md's "Safe concurrent readers": a Get does not fail when nothing does.
ReadersFindFiles == faults = 0 => \A r \in Readers : rd[r].pc # "error"

\* A writer that waits in MakeRoomForWrite ends: the flush it waits for runs,
\* and every wakeup it needs is sent.
WritersProceed == \A w \in Writers : wr[w].pc = "room" \/ wr[w].pc = "cv" ~> wr[w].pc = "idle"

\* The destructor ends: no wait for the background thread or join is for ever.
CloseTerminates == closer = "lock" ~> closer = "down"
=============================================================================
