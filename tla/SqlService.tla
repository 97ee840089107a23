----------------------------- MODULE SqlService -----------------------------
(***************************************************************************)
(* The two TCP servers (sql_server.cpp, server.cpp): the thread in Serve   *)
(* and then in the destructor, a detached thread per client, and what the  *)
(* statements of a session do with the locks below them: Database::mu_,    *)
(* DBImpl::mutex_ and the lock of the memtable's skip list, which an       *)
(* iterator holds shared for its lifetime.                                 *)
(*                                                                         *)
(* A statement is the list of its steps that take locks.  Shared holds of  *)
(* mu_ end within one step and so do the steps under mutex_ that wait for  *)
(* nothing; a Put waits for the list while it holds mutex_ (and mu_).      *)
(***************************************************************************)
EXTENDS Integers, Sequences, FiniteSets

CONSTANTS
    Clients,        \* connections
    Nobody,         \* no client
    MaxClients,     \* config_.max_clients
    Statements,     \* statements that clients send to a SQL server
    MaxStatements,  \* bound: statements in all
    MaxRows,        \* bound: rows of the table
    MaxLists        \* bound: memtables

ASSUME ServiceAssumption ==
    /\ IsFiniteSet(Clients) /\ Nobody \notin Clients
    /\ MaxClients \in Nat \ {0} /\ MaxStatements \in Nat /\ MaxRows \in Nat
    /\ MaxLists \in Nat \ {0}
    /\ Statements \subseteq {"BEGIN", "COMMIT", "INSERT", "UPDATE", "GET", "SCAN", "LIMIT", "DDL"}

VARIABLES
    kind,       \* "sql" or "kv": which of the two servers
    main,       \* the thread in Serve and the destructor: [pc, client]
    running,    \* running_
    active,     \* active_clients_
    thr,        \* client -> where its ServeClient is
    sess,       \* client -> [txn, todo, at, rows]: transaction, steps left, progress in the first
    mu,         \* who holds Database::mu_ exclusively
    mutex,      \* who holds DBImpl::mutex_ across a step
    list,       \* number of mem_
    iter,       \* client -> memtable that its iterator locks, 0 for none
    sent,       \* number of statements
    late        \* history: a bounded wait ended with clients left

server == <<main, running, active, late>>
locks == <<mu, mutex, list, iter>>
vars == <<kind, server, thr, sess, locks, sent>>

Threads == {c \in Clients : thr[c] \notin {"none", "done"}}

Init ==
    /\ kind \in {"sql", "kv"}
    /\ main = [pc |-> "loop", client |-> Nobody] /\ running = TRUE /\ active = 0 /\ late = FALSE
    /\ thr = [c \in Clients |-> "none"]
    /\ sess = [c \in Clients |-> [txn |-> FALSE, todo |-> <<>>, at |-> "ready", rows |-> 0]]
    /\ mu = Nobody /\ mutex = Nobody /\ list = 1 /\ iter = [c \in Clients |-> 0]
    /\ sent = 0

-----------------------------------------------------------------------------
\* Serve.
Main(from, to, c) == main.pc = from /\ main' = [pc |-> to, client |-> c]
OfServer == UNCHANGED <<kind, thr, sess, locks, sent>>

Stop == running /\ running' = FALSE /\ UNCHANGED <<main, active, late>> /\ OfServer

CheckRunning ==
    /\ Main("loop", IF running THEN "select" ELSE "wait", Nobody)
    /\ UNCHANGED <<running, active, late>> /\ OfServer

\* Nothing to accept within 200 ms; or select() fails and the loop ends.
SelectEnds == /\ Main("select", "loop", Nobody) \/ Main("select", "wait", Nobody)
              /\ UNCHANGED <<running, active, late>> /\ OfServer

Accept(c) ==
    /\ thr[c] = "none" /\ Main("select", "accepted", c)
    /\ UNCHANGED <<running, active, late>> /\ OfServer

\* TryReserveClientSlot; a refused connection is closed.
Reserve ==
    /\ IF active < MaxClients
       THEN Main("accepted", "spawn", main.client) /\ active' = active + 1 /\ UNCHANGED thr
       ELSE /\ Main("accepted", "loop", Nobody) /\ UNCHANGED active
            /\ thr' = [thr EXCEPT ![main.client] = "done"]
    /\ UNCHANGED <<kind, running, late, sess, locks, sent>>

Spawn ==
    /\ Main("spawn", "loop", Nobody) /\ thr' = [thr EXCEPT ![main.client] = "loop"]
    /\ UNCHANGED <<kind, running, active, late, sess, locks, sent>>

\* Mutant: the slot is not given back when the thread does not start.
SpawnLeaks ==
    /\ Main("spawn", "loop", Nobody) /\ thr' = [thr EXCEPT ![main.client] = "done"]
    /\ UNCHANGED <<kind, running, active, late, sess, locks, sent>>

SpawnFails ==
    /\ Main("spawn", "loop", Nobody) /\ thr' = [thr EXCEPT ![main.client] = "done"]
    /\ active' = active - 1
    /\ UNCHANGED <<kind, running, late, sess, locks, sent>>

\* Mutant: it waits for the last client, however long that takes.
WaitForAllClients(from, to) ==
    Main(from, to, Nobody) /\ active = 0 /\ UNCHANGED <<active, late>>

\* WaitForIdleClients ends with the last client, or at its deadline.
WaitForIdleClients(from, to) ==
    Main(from, to, Nobody) /\ late' = (late \/ active > 0) /\ UNCHANGED active

ServeReturns == WaitForIdleClients("wait", "returned") /\ UNCHANGED running /\ OfServer

\* The destructor: Stop, and a wait of its own.
StartDestructor == /\ Main("returned", "destructor", Nobody) /\ running' = FALSE
                   /\ UNCHANGED <<active, late>> /\ OfServer
Destroyed == WaitForIdleClients("destructor", "gone") /\ UNCHANGED running /\ OfServer

-----------------------------------------------------------------------------
\* ServeClient.  The process ends when the server is gone.
Thread(c, from) == thr[c] = from /\ main.pc # "gone"
Go(c, to) == thr' = [thr EXCEPT ![c] = to]
OfThread == UNCHANGED <<kind, server>>

\* Where a connection goes when its loop ends: SqlResetSession, which aborts.
Leave(c) ==
    /\ Go(c, "reset")
    /\ sess' = [sess EXCEPT ![c].todo = IF sess[c].txn THEN <<"end">> ELSE <<>>]

LoopHead(c) ==
    /\ Thread(c, "loop")
    /\ IF running THEN Go(c, "recv") /\ UNCHANGED sess ELSE Leave(c)
    /\ UNCHANGED <<locks, sent>> /\ OfThread

\* The client hangs up or sends QUIT.
RecvEnds(c) == Thread(c, "recv") /\ Leave(c) /\ UNCHANGED <<locks, sent>> /\ OfThread

\* AutoTxnGuard: a statement outside a transaction begins and ends one.
AutoTxnGuard(c, body) == IF sess[c].txn THEN body ELSE <<"begin">> \o body \o <<"end">>

\* The handlers of SqlSession; COMMIT stands for ABORT and RESET too.  UpdateOp drains its scan
\* before it writes.
Plan(c, s) ==
    CASE s = "BEGIN" -> IF sess[c].txn THEN <<>> ELSE <<"begin">>
      [] s = "COMMIT" -> IF sess[c].txn THEN <<"end">> ELSE <<>>
      [] s = "DDL" -> IF sess[c].txn THEN <<>> ELSE <<"put">>
      [] s = "INSERT" -> AutoTxnGuard(c, <<"put">>)
      [] s = "UPDATE" -> AutoTxnGuard(c, <<"scan", "put">>)
      [] s = "GET" -> AutoTxnGuard(c, <<"get">>)
      [] s = "SCAN" -> AutoTxnGuard(c, <<"scan">>)
      [] s = "LIMIT" -> AutoTxnGuard(c, <<"limit">>)

\* A line with a whole statement arrives.  ExecuteRequest of the other server makes
\* one call of the engine.
Receive(c) ==
    /\ Thread(c, "recv") /\ sent < MaxStatements
    /\ sent' = sent + 1 /\ Go(c, "run")
    /\ IF kind = "kv" THEN \E call \in {"get", "put"} : sess' = [sess EXCEPT ![c].todo = <<call>>]
       ELSE \E s \in Statements : sess' = [sess EXCEPT ![c].todo = Plan(c, s)]
    /\ UNCHANGED locks /\ OfThread

\* The handler returns, its executors with it, and the reply is sent or not.
Reply(c) ==
    /\ Thread(c, "run") /\ sess[c].todo = <<>>
    /\ iter' = [iter EXCEPT ![c] = 0]
    /\ (Go(c, "loop") /\ UNCHANGED sess) \/ Leave(c)
    /\ UNCHANGED <<mu, mutex, list, sent>> /\ OfThread

\* The session is destroyed, then SlotGuard gives back the slot.
Release(c) ==
    /\ Thread(c, "reset") /\ sess[c].todo = <<>>
    /\ active' = active - 1 /\ Go(c, "done")
    /\ UNCHANGED <<kind, main, running, late, sess, locks, sent>>

-----------------------------------------------------------------------------
\* The steps of a statement.
Doing(c, steps) ==
    /\ thr[c] \in {"run", "reset"} /\ main.pc # "gone"
    /\ sess[c].todo # <<>> /\ sess[c].todo[1] \in steps
Done(c, txn) == sess' = [sess EXCEPT ![c] = [txn |-> txn, todo |-> Tail(@.todo), at |-> "ready", rows |-> 0]]
Now(c, at) == sess[c].at = at
Becomes(c, at) == sess' = [sess EXCEPT ![c].at = at]
Sections == {"begin", "put", "end"}
OfStep == UNCHANGED <<thr, sent>> /\ OfThread

\* Begin, Write, Commit, Abort and DDL hold mu_ exclusively; DB::Put alone does not.
LockMu(c) ==
    /\ Doing(c, Sections) /\ Now(c, "ready") /\ mu = Nobody /\ kind = "sql"
    /\ mu' = c /\ Becomes(c, "locked") /\ UNCHANGED <<mutex, list, iter>> /\ OfStep

\* DBImpl::Write up to MemTable::Add: under mutex_, after MakeRoomForWrite.
StartPut(c) ==
    /\ Doing(c, Sections) /\ Now(c, IF kind = "sql" THEN "locked" ELSE "ready") /\ mutex = Nobody
    /\ mutex' = c /\ Becomes(c, "putting")
    /\ list' \in {list, list + 1} /\ list' <= MaxLists
    /\ UNCHANGED <<mu, iter>> /\ OfStep

\* Mutant: mutex_ stays locked after a write into a new memtable.
InsertKeepsMutex(c) ==
    /\ Doing(c, Sections) /\ Now(c, "putting")
    /\ \A d \in Clients : iter[d] # list
    /\ mu' = Nobody /\ mutex' = IF list > 1 THEN mutex ELSE Nobody
    /\ Done(c, CASE sess[c].todo[1] = "begin" -> TRUE [] sess[c].todo[1] = "end" -> FALSE [] OTHER -> sess[c].txn)
    /\ UNCHANGED <<list, iter>> /\ OfStep

\* SkipList::Insert needs the list alone; then both mutexes are free again.
Insert(c) ==
    /\ Doing(c, Sections) /\ Now(c, "putting")
    /\ \A d \in Clients : iter[d] # list
    /\ mu' = Nobody /\ mutex' = Nobody
    /\ Done(c, CASE sess[c].todo[1] = "begin" -> TRUE [] sess[c].todo[1] = "end" -> FALSE [] OTHER -> sess[c].txn)
    /\ UNCHANGED <<list, iter>> /\ OfStep

\* A statement fails, in the middle of a scan after some row was read: only the end of an
\* automatic transaction is left to do.  The plan is not destroyed yet, so its scan stays open.
Fail(c) ==
    /\ Doing(c, {"put", "get", "scan", "limit"}) /\ Now(c, "ready") /\ mu = Nobody
    /\ sess' = [sess EXCEPT ![c] = [txn |-> @.txn, todo |-> SelectSeq(@.todo, LAMBDA s : s = "end"),
                                    at |-> "ready", rows |-> 0]]
    /\ UNCHANGED locks /\ OfStep

\* Transaction::Get and DB::Get.
Get(c) ==
    /\ Doing(c, {"get"}) /\ (kind = "sql" => mu = Nobody) /\ mutex = Nobody
    /\ Done(c, sess[c].txn) /\ UNCHANGED locks /\ OfStep

\* Transaction::Scan: NewIterator locks the list of mem_; mu_ was needed before, to look up the table.
OpenScan(c) ==
    /\ Doing(c, {"scan", "limit"}) /\ iter[c] = 0 /\ mutex = Nobody
    /\ iter' = [iter EXCEPT ![c] = list]
    /\ \E n \in 0 .. MaxRows : sess' = [sess EXCEPT ![c].rows = n]
    /\ UNCHANGED <<mu, mutex, list>> /\ OfStep

\* TableRowScan::Advance resolves a row under a shared mu_, by calls of DB::Get.  LimitExecutor asks for no
\* row after its last one, so its scan stays open.
ReadRow(c) ==
    /\ Doing(c, {"scan", "limit"}) /\ iter[c] # 0 /\ sess[c].rows > 0 /\ mu = Nobody /\ mutex = Nobody
    /\ IF sess[c].todo[1] = "limit" THEN Done(c, sess[c].txn)
       ELSE sess' = [sess EXCEPT ![c].rows = @ - 1]
    /\ UNCHANGED locks /\ OfStep

\* SeqScanExecutor::Next drops an exhausted scan.
EndScan(c) ==
    /\ Doing(c, {"scan", "limit"}) /\ iter[c] # 0 /\ sess[c].rows = 0
    /\ iter' = [iter EXCEPT ![c] = 0] /\ Done(c, sess[c].txn)
    /\ UNCHANGED <<mu, mutex, list>> /\ OfStep

-----------------------------------------------------------------------------
MainStep == \/ CheckRunning \/ SelectEnds \/ Reserve \/ Spawn \/ SpawnFails
            \/ ServeReturns \/ StartDestructor \/ Destroyed
ThreadStep(c) == \/ LoopHead(c) \/ Reply(c) \/ Release(c)
                 \/ LockMu(c) \/ StartPut(c) \/ Insert(c) \/ Fail(c) \/ Get(c)
                 \/ OpenScan(c) \/ ReadRow(c) \/ EndScan(c)

Next == \/ MainStep \/ Stop
        \/ \E c \in Clients : Accept(c) \/ RecvEnds(c) \/ Receive(c) \/ ThreadStep(c)

\* The threads run on; no client has to send, hang up or connect, nobody has to stop.
Fairness == WF_vars(MainStep) /\ \A c \in Clients : WF_vars(ThreadStep(c))

Spec == Init /\ [][Next]_vars
FairSpec == Spec /\ Fairness
-----------------------------------------------------------------------------
\* A slot is taken from the moment a connection is accepted until its session is
\* destroyed, and there are never more than max_clients: the count is exact however the
\* acceptor, failing thread starts and departing clients interleave.  A connection
\* leaves no transaction and no iterator behind, and the server outlives every client
\* thread unless one of its bounded waits ran out.
SlotsExact ==
    /\ active = Cardinality(Threads) + (IF main.pc = "spawn" THEN 1 ELSE 0)
    /\ active <= MaxClients
    /\ \A c \in Clients : thr[c] \in {"none", "done"} => ~sess[c].txn /\ iter[c] = 0
    /\ main.pc = "gone" => Threads = {} \/ late

Busy(c) == thr[c] \in {"loop", "run", "reset"}
Gone == main.pc = "gone"

\* A Put waits for a list whose iterator is not given up before the Put ends.
Deadlocked ==
    \E c, d \in Clients :
        /\ sess[c].at = "putting" /\ iter[d] = list
        /\ sess[d].todo # <<>> /\ (sess[d].todo[1] \in {"scan", "limit"} => sess[d].rows > 0)

\* Every statement ends, and so does the clean-up of a connection, whatever the other
\* sessions do with mu_, mutex_ and the list, except when a write waits for the memtable
\* that an open scan has locked.
OnlyScansBlock == \A c \in Clients : Busy(c) ~> (~Busy(c) \/ Gone \/ Deadlocked)

\* "Readers never block writers" (docs/RELATIONAL.md): every statement ends.
ReadersNeverBlockWriters == \A c \in Clients : Busy(c) ~> (~Busy(c) \/ Gone)

\* After Stop the server ends: Serve and the destructor wait for clients that may be
\* blocked in recv, or in a statement, but not for ever.
ServeEnds == ~running ~> Gone
=============================================================================
