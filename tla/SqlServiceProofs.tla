-------------------------- MODULE SqlServiceProofs --------------------------
(***************************************************************************)
(* The client slots of both servers are counted exactly, for any number of *)
(* clients, slots, statements and rows.  SlotsExact says nothing about the *)
(* connection between accept() and the start of its thread, nor about what *)
(* a session still has to do when its loop ends: SlotInv adds both.        *)
(***************************************************************************)
EXTENDS SqlService, FiniteSetTheorems, TLAPS

Places == {"none", "loop", "recv", "run", "reset", "done"}
MainPlaces == {"loop", "select", "accepted", "spawn", "wait", "returned", "destructor", "gone"}
IsSession(x) == /\ x = [txn |-> x.txn, todo |-> x.todo, at |-> x.at, rows |-> x.rows]
                /\ x.txn \in BOOLEAN /\ x.rows \in Int
Sessions == sess = [d \in Clients |-> sess[d]] /\ \A d \in Clients : IsSession(sess[d])

ServiceType ==
    /\ main \in [pc : MainPlaces, client : Clients \cup {Nobody}]
    /\ active \in Nat
    /\ thr \in [Clients -> Places]
    /\ Sessions
    /\ iter \in [Clients -> Int]
    /\ list \in Int

\* A session that ends has at most its transaction to end.
Ending(x) == (x.txn => x.todo = <<"end">>) /\ (~x.txn => x.todo = <<>>)

\* An accepted connection has no thread yet.
AcceptInv == main.pc \in {"accepted", "spawn"} => main.client \in Clients /\ thr[main.client] = "none"

\* Iterators live within a statement; a connection that leaves has at most its
\* transaction to end.
SessionInv ==
    \A c \in Clients :
        /\ thr[c] # "run" => iter[c] = 0
        /\ thr[c] \in {"none", "done"} => ~sess[c].txn
        /\ thr[c] = "reset" => Ending(sess[c])

SlotInv == ServiceType /\ AcceptInv /\ SessionInv /\ SlotsExact

-----------------------------------------------------------------------------
\* Starting or ending one thread changes the number of threads by one.
LEMMA ThreadCount ==
    ASSUME NEW c \in Clients, NEW to \in Places,
           thr \in [Clients -> Places], thr' = [thr EXCEPT ![c] = to]
    PROVE  /\ IsFiniteSet(Threads) /\ Cardinality(Threads) \in Nat
           /\ c \in Threads /\ to \in {"none", "done"} =>
                 Threads' = Threads \ {c} /\ Cardinality(Threads') = Cardinality(Threads) - 1
           /\ c \notin Threads /\ to \notin {"none", "done"} =>
                 Threads' = Threads \cup {c} /\ Cardinality(Threads') = Cardinality(Threads) + 1
           /\ (c \in Threads <=> to \notin {"none", "done"}) => Threads' = Threads
<1>1. IsFiniteSet(Threads) /\ Cardinality(Threads) \in Nat
  BY ServiceAssumption, FS_Subset, FS_CardinalityType DEF Threads
<1>2. \A d \in Clients : thr'[d] = IF d = c THEN to ELSE thr[d]
  BY Zenon
<1>3. c \in Threads /\ to \in {"none", "done"} => Threads' = Threads \ {c}
  BY <1>2, Zenon DEF Threads
<1>4. c \notin Threads /\ to \notin {"none", "done"} => Threads' = Threads \cup {c}
  BY <1>2, Zenon DEF Threads
<1>5. (c \in Threads <=> to \notin {"none", "done"}) => Threads' = Threads
  BY <1>2, Zenon DEF Threads
<1> QED
  BY <1>1, <1>3, <1>4, <1>5, FS_AddElement, FS_RemoveElement

\* A step that leaves the set of threads and the acceptor alone.
LEMMA Quiet ==
    ASSUME SlotsExact, Threads' = Threads, UNCHANGED <<main, active, late>>, SessionInv'
    PROVE  SlotsExact'
BY Zenon DEF SlotsExact, SessionInv

\* Finite sets without elements.
LEMMA NoThreads ==
    ASSUME ServiceType, Cardinality(Threads) = 0
    PROVE  Threads = {}
BY ServiceAssumption, FS_Subset, FS_EmptySet DEF Threads, ServiceType

\* The initial state satisfies the invariant.
LEMMA InitSlots == Init => SlotInv
<1> SUFFICES ASSUME Init PROVE SlotInv
  OBVIOUS
<1>1. ServiceType
  <2>1. /\ [pc |-> "loop", client |-> Nobody] \in [pc : MainPlaces, client : Clients \cup {Nobody}]
        /\ "none" \in Places
    BY DEF Places, MainPlaces
  <2>2. Sessions
    <3> DEFINE x == [txn |-> FALSE, todo |-> <<>>, at |-> "ready", rows |-> 0]
    <3>1. IsSession(x)
      BY DEF IsSession
    <3>2. sess = [d \in Clients |-> x]
      BY Zenon DEF Init
    <3> QED BY <3>1, <3>2, Zenon DEF Sessions
  <2> QED BY <2>1, <2>2 DEF Init, ServiceType
<1>2. Threads = {} /\ Cardinality(Threads) = 0
  BY FS_EmptySet, ZenonT(30) DEF Init, Threads
<1> QED
  BY <1>1, <1>2, ServiceAssumption DEF Init, SlotInv, AcceptInv, SessionInv, SlotsExact

\* Serve and the destructor, without the steps that start a thread or give up.
LEMMA MainSlots ==
    ASSUME SlotInv, Stop \/ CheckRunning \/ SelectEnds \/ StartDestructor \/ ServeReturns \/ Destroyed
    PROVE  SlotInv'
<1>1. UNCHANGED <<thr, sess, iter, list, active>> /\ Threads' = Threads
  BY DEF Stop, CheckRunning, SelectEnds, StartDestructor, ServeReturns, Destroyed,
         WaitForIdleClients, OfServer, locks, Threads
<1>2. \/ main' = main /\ late' = late
      \/ /\ main.pc \in {"loop", "select", "wait", "returned"}
         /\ main' \in [pc : MainPlaces \ {"accepted", "spawn", "gone"}, client : {Nobody}]
         /\ late => late'
      \/ /\ main.pc = "destructor" /\ main' = [pc |-> "gone", client |-> Nobody]
         /\ late' = (late \/ active > 0)
  <2>1. CASE Stop
    BY <2>1, Zenon DEF Stop
  <2>2. CASE CheckRunning \/ SelectEnds \/ StartDestructor
    <3>1. /\ main.pc \in {"loop", "select", "returned"} /\ late' = late
          /\ \E to \in {"loop", "select", "wait", "destructor"} : main' = [pc |-> to, client |-> Nobody]
      BY <2>2 DEF CheckRunning, SelectEnds, StartDestructor, Main
    <3> QED BY <3>1 DEF MainPlaces
  <2>3. CASE ServeReturns
    <3>1. /\ main.pc = "wait" /\ main' = [pc |-> "returned", client |-> Nobody]
          /\ late => late'
      BY <2>3, Zenon DEF ServeReturns, WaitForIdleClients, Main
    <3>2. main' \in [pc : MainPlaces \ {"accepted", "spawn", "gone"}, client : {Nobody}]
      BY <3>1 DEF MainPlaces
    <3> QED BY <3>1, <3>2, Zenon
  <2>4. CASE Destroyed
    BY <2>4, Zenon DEF Destroyed, WaitForIdleClients, Main
  <2> QED BY <2>1, <2>2, <2>3, <2>4, Zenon
<1>3. ServiceType' /\ AcceptInv' /\ SessionInv'
  BY <1>1, <1>2 DEF SlotInv, ServiceType, AcceptInv, SessionInv, MainPlaces, Sessions
<1>4. active = 0 /\ main.pc = "destructor" => Threads = {}
  BY NoThreads, ServiceAssumption, FS_Subset, FS_CardinalityType DEF SlotInv, SlotsExact, Threads
<1>5. /\ main'.pc = "spawn" <=> main.pc = "spawn"
      /\ main'.pc = "gone" => main' = main \/ main.pc = "destructor"
  BY <1>2 DEF MainPlaces
<1>6. main'.pc = "gone" => Threads' = {} \/ late'
  <2>1. CASE main' = main /\ late' = late
    BY <1>1, <2>1, Zenon DEF SlotInv, SlotsExact
  <2>2. CASE main.pc = "destructor" /\ late' = (late \/ active > 0)
    <3>1. active > 0 \/ active = 0
      BY DEF SlotInv, ServiceType
    <3> QED BY <1>1, <1>4, <2>2, <3>1, Zenon
  <2>3. CASE main'.pc # "gone"
    BY <2>3
  <2> QED BY <1>2, <2>1, <2>2, <2>3 DEF MainPlaces
<1> QED BY <1>1, <1>3, <1>5, <1>6, Zenon DEF SlotInv, SlotsExact

\* A connection is accepted.
LEMMA AcceptSlots ==
    ASSUME SlotInv, NEW c \in Clients, Accept(c)
    PROVE  SlotInv'
<1>1. /\ UNCHANGED <<thr, sess, iter, list, active, late>> /\ Threads' = Threads
      /\ main.pc = "select" /\ main' = [pc |-> "accepted", client |-> c] /\ thr[c] = "none"
  BY DEF Accept, OfServer, locks, Threads, Main
<1>2. ServiceType' /\ AcceptInv' /\ SessionInv'
  BY <1>1 DEF SlotInv, ServiceType, AcceptInv, SessionInv, MainPlaces, Sessions
<1> QED BY <1>1, <1>2 DEF SlotInv, SlotsExact

\* The slot is reserved, the thread started, or the start fails.
LEMMA StartSlots ==
    ASSUME SlotInv, Reserve \/ Spawn \/ SpawnFails
    PROVE  SlotInv'
<1> DEFINE c == main.client
<1>1. /\ UNCHANGED <<sess, iter, list, late>>
      /\ c \in Clients /\ thr[c] = "none" /\ main.pc \in {"accepted", "spawn"} /\ main'.client \in Clients \cup {Nobody}
      /\ thr \in [Clients -> Places] /\ active \in Nat /\ MaxClients \in Nat
  BY ServiceAssumption DEF Reserve, Spawn, SpawnFails, Main, locks, SlotInv, AcceptInv, ServiceType
<1>2. \/ /\ main.pc = "accepted" /\ active < MaxClients /\ main' = [pc |-> "spawn", client |-> c]
         /\ active' = active + 1 /\ thr' = thr
      \/ /\ main.pc = "accepted" /\ main' = [pc |-> "loop", client |-> Nobody]
         /\ active' = active /\ thr' = [thr EXCEPT ![c] = "done"]
      \/ /\ main.pc = "spawn" /\ main' = [pc |-> "loop", client |-> Nobody]
         /\ \/ active' = active /\ thr' = [thr EXCEPT ![c] = "loop"]
            \/ active' = active - 1 /\ thr' = [thr EXCEPT ![c] = "done"]
  BY DEF Reserve, Spawn, SpawnFails, Main
<1> HIDE DEF c
<1>3. c \notin Threads /\ {"loop", "done"} \subseteq Places
  BY <1>1 DEF Threads, Places
<1>4. /\ Cardinality(Threads) \in Nat
      /\ active = Cardinality(Threads) + (IF main.pc = "spawn" THEN 1 ELSE 0) /\ active <= MaxClients
      /\ \A d \in Clients : thr[d] \in {"none", "done"} => ~sess[d].txn /\ iter[d] = 0
  BY ServiceAssumption, FS_Subset, FS_CardinalityType DEF SlotInv, SlotsExact, Threads
<1>5. /\ active' = Cardinality(Threads') + (IF main'.pc = "spawn" THEN 1 ELSE 0)
      /\ active' <= MaxClients /\ active' \in Nat
  <2>1. CASE thr' = thr
    <3>1. Threads' = Threads
      BY <2>1 DEF Threads
    <3>2. main.pc = "accepted" /\ main'.pc = "spawn" /\ active' = active + 1 /\ active < MaxClients
      BY <1>2, <1>1, <2>1
    <3> QED BY <1>1, <1>4, <3>1, <3>2
  <2>2. CASE thr' = [thr EXCEPT ![c] = "done"]
    <3>1. Threads' = Threads
      BY <1>1, <1>3, <2>2, ThreadCount, ZenonT(30)
    <3>2. main'.pc = "loop" /\ active' = active - (IF main.pc = "spawn" THEN 1 ELSE 0)
      BY <1>2, <1>1, <2>2
    <3> QED BY <1>1, <1>4, <3>1, <3>2
  <2>3. CASE thr' = [thr EXCEPT ![c] = "loop"]
    <3>1. Cardinality(Threads') = Cardinality(Threads) + 1
      BY <1>1, <1>3, <2>3, ThreadCount, ZenonT(30)
    <3>2. main'.pc = "loop" /\ main.pc = "spawn" /\ active' = active
      BY <1>2, <1>1, <2>3
    <3> QED BY <1>1, <1>4, <3>1, <3>2
  <2> QED BY <1>2, <2>1, <2>2, <2>3
<1>6. \A d \in Clients : thr'[d] = thr[d] \/ (d = c /\ thr'[d] \in {"loop", "done"})
  BY <1>1, <1>2
<1>7. ServiceType'
  BY <1>1, <1>2, <1>3, <1>5 DEF SlotInv, ServiceType, MainPlaces, Sessions
<1>8. AcceptInv'
  BY <1>1, <1>2 DEF AcceptInv, c
<1>9. SessionInv'
  BY <1>1, <1>4, <1>6, Zenon DEF SlotInv, SessionInv
<1>10. main'.pc # "gone"
  BY <1>2
<1> QED BY <1>5, <1>7, <1>8, <1>9, <1>10, Zenon DEF SlotInv, SlotsExact, SessionInv

-----------------------------------------------------------------------------
\* What a step of one statement may do without disturbing the invariant.
LEMMA StatementFrame ==
    ASSUME SlotInv, NEW c \in Clients, thr[c] \in {"run", "reset"},
           UNCHANGED <<thr, main, active, late>>,
           Sessions', iter' \in [Clients -> Int], list' \in Int,
           \A d \in Clients : d # c => sess'[d] = sess[d] /\ iter'[d] = iter[d],
           thr[c] = "reset" => /\ iter'[c] = iter[c]
                               /\ Ending(sess'[c])
    PROVE  SlotInv'
<1>1. ServiceType' /\ AcceptInv' /\ Threads' = Threads
  BY Zenon DEF SlotInv, ServiceType, AcceptInv, Threads
<1>2. SessionInv'
  <2> SUFFICES ASSUME NEW d \in Clients
               PROVE  /\ thr[d] # "run" => iter'[d] = 0
                      /\ thr[d] \in {"none", "done"} => ~sess'[d].txn
                      /\ thr[d] = "reset" => Ending(sess'[d])
    BY Zenon DEF SessionInv
  <2> QED BY Zenon DEF SlotInv, SessionInv
<1> QED BY <1>1, <1>2, Quiet, Zenon DEF SlotInv

\* A connection that leaves can only end its transaction.
LEMMA ResetEnds ==
    ASSUME SlotInv, NEW c \in Clients, NEW S, Doing(c, S), thr[c] = "reset"
    PROVE  "end" \in S /\ sess[c].todo = <<"end">> /\ sess[c].txn
BY DEF SlotInv, SessionInv, Doing, Ending

\* Replacing one session by a well-formed one.
LEMMA Replace ==
    ASSUME SlotInv, NEW c \in Clients, NEW x, IsSession(x), sess' = [sess EXCEPT ![c] = x]
    PROVE  /\ Sessions' /\ sess'[c] = x
           /\ \A d \in Clients : d # c => sess'[d] = sess[d]
<1>1. sess = [d \in Clients |-> sess[d]] /\ \A d \in Clients : IsSession(sess[d])
  BY Zenon DEF SlotInv, ServiceType, Sessions
<1>2. sess' = [d \in Clients |-> IF d = c THEN x ELSE sess[d]]
  BY <1>1, Zenon
<1>3. \A d \in Clients : sess'[d] = IF d = c THEN x ELSE sess[d]
  BY <1>2, Zenon
<1>4. sess' = [d \in Clients |-> sess'[d]]
  BY <1>2, Zenon
<1> QED BY <1>1, <1>3, <1>4, Zenon DEF Sessions

\* The ways in which a step changes its session.
LEMMA Changes ==
    ASSUME SlotInv, NEW c \in Clients
    PROVE  /\ \A at : IsSession([sess[c] EXCEPT !.at = at])
                       /\ [sess[c] EXCEPT !.at = at].todo = sess[c].todo
                       /\ [sess[c] EXCEPT !.at = at].txn = sess[c].txn
           /\ \A n \in Int : IsSession([sess[c] EXCEPT !.rows = n])
           /\ \A q : IsSession([sess[c] EXCEPT !.todo = q])
                      /\ [sess[c] EXCEPT !.todo = q].todo = q
                      /\ [sess[c] EXCEPT !.todo = q].txn = sess[c].txn
           /\ \A q : \A b \in BOOLEAN : IsSession([txn |-> b, todo |-> q, at |-> "ready", rows |-> 0])
<1> DEFINE x == sess[c]
<1>1. /\ x = [txn |-> x.txn, todo |-> x.todo, at |-> x.at, rows |-> x.rows]
      /\ x.txn \in BOOLEAN /\ x.rows \in Int
  BY Zenon DEF SlotInv, ServiceType, Sessions, IsSession
<1> HIDE DEF x
<1>2. ASSUME NEW at PROVE [x EXCEPT !.at = at] = [txn |-> x.txn, todo |-> x.todo, at |-> at, rows |-> x.rows]
  BY <1>1
<1>3. ASSUME NEW n PROVE [x EXCEPT !.rows = n] = [txn |-> x.txn, todo |-> x.todo, at |-> x.at, rows |-> n]
  BY <1>1
<1>4. ASSUME NEW q PROVE [x EXCEPT !.todo = q] = [txn |-> x.txn, todo |-> q, at |-> x.at, rows |-> x.rows]
  BY <1>1
<1>6. ASSUME NEW b \in BOOLEAN, NEW q, NEW at, NEW n \in Int
      PROVE  IsSession([txn |-> b, todo |-> q, at |-> at, rows |-> n])
  BY <1>6 DEF IsSession
<1>7. 0 \in Int
  OBVIOUS
<1>8. \A at : IsSession([x EXCEPT !.at = at])
               /\ [x EXCEPT !.at = at].todo = x.todo /\ [x EXCEPT !.at = at].txn = x.txn
  BY <1>1, <1>2, <1>6
<1>9. \A n \in Int : IsSession([x EXCEPT !.rows = n])
  BY <1>1, <1>3, <1>6
<1>10. \A q : IsSession([x EXCEPT !.todo = q])
               /\ [x EXCEPT !.todo = q].todo = q /\ [x EXCEPT !.todo = q].txn = x.txn
  BY <1>1, <1>4, <1>6
<1> QED BY <1>6, <1>7, <1>8, <1>9, <1>10, Zenon DEF x

\* Every step of a statement keeps the invariant.
LEMMA StatementSlots ==
    ASSUME SlotInv, NEW c \in Clients,
           LockMu(c) \/ StartPut(c) \/ Insert(c) \/ Fail(c) \/ Get(c) \/ OpenScan(c) \/ ReadRow(c) \/ EndScan(c)
    PROVE  SlotInv'
<1> DEFINE s == sess[c]
<1>1. /\ thr[c] \in {"run", "reset"} /\ UNCHANGED <<thr, main, active, late>>
      /\ iter \in [Clients -> Int] /\ list \in Int /\ s.txn \in BOOLEAN /\ s.rows \in Int
  <2>1. UNCHANGED <<thr, main, active, late>>
    BY Zenon DEF LockMu, StartPut, Insert, Fail, Get, OpenScan, ReadRow, EndScan, OfStep, OfThread, server
  <2>2. thr[c] \in {"run", "reset"}
    BY Zenon DEF LockMu, StartPut, Insert, Fail, Get, OpenScan, ReadRow, EndScan, Doing
  <2> QED BY <2>1, <2>2, Zenon DEF SlotInv, ServiceType, Sessions, IsSession
<1>2. CASE LockMu(c) \/ StartPut(c)
  <2>1. PICK at : sess' = [sess EXCEPT ![c] = [s EXCEPT !.at = at]]
    BY <1>2, Zenon DEF LockMu, StartPut, Becomes
  <2>2. iter' = iter /\ list' \in Int
    BY <1>1, <1>2 DEF LockMu, StartPut
  <2>3. /\ IsSession([s EXCEPT !.at = at])
        /\ [s EXCEPT !.at = at].todo = s.todo /\ [s EXCEPT !.at = at].txn = s.txn
    BY Changes, Zenon
  <2>4. Sessions' /\ sess'[c] = [s EXCEPT !.at = at] /\ \A d \in Clients : d # c => sess'[d] = sess[d]
    BY <2>1, <2>3, Replace, Zenon
  <2>5. thr[c] = "reset" => Ending(sess'[c])
    BY <2>3, <2>4, Zenon DEF SlotInv, SessionInv, Ending
  <2> QED BY <1>1, <2>2, <2>4, <2>5, StatementFrame, Zenon
<1>3. CASE Insert(c)
  <2> DEFINE b == CASE s.todo[1] = "begin" -> TRUE [] s.todo[1] = "end" -> FALSE [] OTHER -> s.txn
             x == [txn |-> b, todo |-> Tail(s.todo), at |-> "ready", rows |-> 0]
  <2>1. iter' = iter /\ list' = list /\ sess' = [sess EXCEPT ![c] = x] /\ Doing(c, Sections)
    BY <1>3, Zenon DEF Insert, Done
  <2>2. b \in BOOLEAN
    <3>1. CASE s.todo[1] = "begin"
      BY <3>1
    <3>2. CASE s.todo[1] = "end"
      BY <3>2
    <3>3. CASE s.todo[1] # "begin" /\ s.todo[1] # "end"
      BY <1>1, <3>3, ZenonT(30)
    <3> QED BY <3>1, <3>2, <3>3, ZenonT(30)
  <2>3. thr[c] = "reset" => b = FALSE /\ Tail(s.todo) = <<>>
    <3> SUFFICES ASSUME thr[c] = "reset" PROVE b = FALSE /\ Tail(s.todo) = <<>>
      OBVIOUS
    <3>1. s.todo = <<"end">>
      BY <2>1, ResetEnds, Zenon
    <3>2. Tail(<<"end">>) = <<>> /\ <<"end">>[1] = "end" /\ "end" # "begin"
      OBVIOUS
    <3> QED BY <3>1, <3>2
  <2> HIDE DEF b
  <2>4. IsSession(x)
    BY <2>2, Changes, Zenon
  <2>5. Sessions' /\ sess'[c] = x /\ \A d \in Clients : d # c => sess'[d] = sess[d]
    BY <2>1, <2>4, Replace, Zenon
  <2>6. thr[c] = "reset" => Ending(sess'[c])
    BY <2>3, <2>5 DEF Ending
  <2> QED BY <1>1, <2>1, <2>5, <2>6, StatementFrame, Zenon
<1>4. CASE Fail(c) \/ Get(c) \/ OpenScan(c) \/ ReadRow(c) \/ EndScan(c)
  <2>1. thr[c] = "run"
    <3>1. PICK S \in {{"put", "get", "scan", "limit"}, {"get"}, {"scan", "limit"}} : Doing(c, S)
      BY <1>4, Zenon DEF Fail, Get, OpenScan, ReadRow, EndScan
    <3>2. "end" \notin S
      BY <3>1
    <3> QED BY <1>1, <3>1, <3>2, ResetEnds, Zenon
  <2>2. \E x : IsSession(x) /\ sess' = [sess EXCEPT ![c] = x]
    <3>1. CASE Fail(c)
      <4>1. \E q : sess' = [sess EXCEPT ![c] = [txn |-> s.txn, todo |-> q, at |-> "ready", rows |-> 0]]
        BY <3>1, Zenon DEF Fail
      <4> QED BY <1>1, <4>1, Changes, Zenon
    <3>2. CASE \E n \in Int : sess' = [sess EXCEPT ![c] = [s EXCEPT !.rows = n]]
      BY <3>2, Changes, Zenon
    <3>3. CASE Done(c, s.txn)
      BY <1>1, <3>3, Changes, Zenon DEF Done
    <3>4. OpenScan(c) => \E n \in Int : sess' = [sess EXCEPT ![c] = [s EXCEPT !.rows = n]]
      <4> SUFFICES ASSUME OpenScan(c) PROVE \E n \in Int : sess' = [sess EXCEPT ![c] = [s EXCEPT !.rows = n]]
        OBVIOUS
      <4>1. PICK n \in 0 .. MaxRows : sess' = [sess EXCEPT ![c] = [s EXCEPT !.rows = n]]
        BY Zenon DEF OpenScan
      <4>2. n \in Int
        BY <4>1, ServiceAssumption
      <4> QED BY <4>1, <4>2, Zenon
    <3>5. ReadRow(c) => Done(c, s.txn) \/ \E n \in Int : sess' = [sess EXCEPT ![c] = [s EXCEPT !.rows = n]]
      <4>1. s.rows - 1 \in Int
        BY <1>1
      <4>2. ReadRow(c) => Done(c, s.txn) \/ sess' = [sess EXCEPT ![c] = [s EXCEPT !.rows = s.rows - 1]]
        BY Zenon DEF ReadRow
      <4> QED BY <4>1, <4>2, Zenon
    <3> QED BY <1>4, <3>1, <3>2, <3>3, <3>4, <3>5, Zenon DEF Get, EndScan
  <2>3. iter' \in [Clients -> Int] /\ list' \in Int /\ \A d \in Clients : d # c => iter'[d] = iter[d]
    <3>1. list' = list /\ (iter' = iter \/ \E n \in Int : iter' = [iter EXCEPT ![c] = n])
      BY <1>1, <1>4 DEF Fail, Get, OpenScan, ReadRow, EndScan, locks
    <3> QED BY <1>1, <3>1
  <2>4. Sessions' /\ \A d \in Clients : d # c => sess'[d] = sess[d]
    BY <2>2, Replace, Zenon
  <2>5. thr[c] # "reset"
    BY <2>1
  <2> QED BY <1>1, <2>3, <2>4, <2>5, StatementFrame, Zenon
<1> QED BY <1>2, <1>3, <1>4, Zenon

-----------------------------------------------------------------------------
\* A thread moves on in ServeClient.
LEMMA MoveFrame ==
    ASSUME SlotInv, NEW c \in Clients, thr[c] \in {"loop", "recv", "run"},
           NEW to \in {"loop", "recv", "run", "reset"}, thr' = [thr EXCEPT ![c] = to],
           UNCHANGED <<main, active, late, list>>, main.pc # "gone",
           \/ sess' = sess /\ to # "reset"
           \/ \E q : /\ sess' = [sess EXCEPT ![c] = [sess[c] EXCEPT !.todo = q]]
                     /\ to = "reset" => Ending([sess[c] EXCEPT !.todo = q]),
           (iter' = iter /\ (iter[c] = 0 \/ to = "run")) \/ iter' = [iter EXCEPT ![c] = 0]
    PROVE  SlotInv'
<1>1. /\ thr \in [Clients -> Places] /\ to \in Places /\ to \notin {"none", "done"} /\ c \in Threads
      /\ iter \in [Clients -> Int]
  BY DEF SlotInv, ServiceType, Places, Threads
<1>2. Threads' = Threads
  BY <1>1, ThreadCount, ZenonT(30)
<1>3. \A d \in Clients : thr'[d] = IF d = c THEN to ELSE thr[d]
  BY <1>1, Zenon
<1>4. \A d \in Clients : iter'[d] = iter[d] \/ (d = c /\ iter'[d] = 0)
  BY <1>1
<1>5. to # "run" => iter'[c] = 0
  BY <1>1
<1>6. /\ Sessions' /\ \A d \in Clients : d # c => sess'[d] = sess[d]
      /\ to = "reset" => Ending(sess'[c])
  <2>1. CASE sess' = sess /\ to # "reset"
    BY <2>1, Zenon DEF SlotInv, ServiceType, Sessions
  <2>2. ASSUME NEW q, sess' = [sess EXCEPT ![c] = [sess[c] EXCEPT !.todo = q]],
               to = "reset" => Ending([sess[c] EXCEPT !.todo = q])
        PROVE  /\ Sessions' /\ \A d \in Clients : d # c => sess'[d] = sess[d]
               /\ to = "reset" => Ending(sess'[c])
    <3>1. /\ IsSession([sess[c] EXCEPT !.todo = q]) /\ [sess[c] EXCEPT !.todo = q].todo = q
          /\ [sess[c] EXCEPT !.todo = q].txn = sess[c].txn
      BY Changes, Zenon
    <3>2. Sessions' /\ sess'[c] = [sess[c] EXCEPT !.todo = q] /\ \A d \in Clients : d # c => sess'[d] = sess[d]
      BY <2>2, <3>1, Replace, Zenon
    <3>3. to = "reset" => Ending(sess'[c])
      BY <2>2, <3>2
    <3> QED BY <3>2, <3>3
  <2> QED BY <2>1, <2>2, Zenon
<1>7. ServiceType'
  <2>1. thr' \in [Clients -> Places] /\ iter' \in [Clients -> Int]
    BY <1>1
  <2> QED BY <1>6, <2>1, Zenon DEF SlotInv, ServiceType
<1>8. AcceptInv'
  BY <1>3 DEF SlotInv, AcceptInv
<1>9. SessionInv'
  <2> SUFFICES ASSUME NEW d \in Clients
               PROVE  /\ thr'[d] # "run" => iter'[d] = 0
                      /\ thr'[d] \in {"none", "done"} => ~sess'[d].txn
                      /\ thr'[d] = "reset" => Ending(sess'[d])
    BY Zenon DEF SessionInv
  <2>1. CASE d = c
    BY <1>1, <1>3, <1>5, <1>6, <2>1, Zenon
  <2>2. CASE d # c
    BY <1>3, <1>4, <1>6, <2>2, Zenon DEF SlotInv, SessionInv
  <2> QED BY <2>1, <2>2
<1> QED BY <1>2, <1>7, <1>8, <1>9, Quiet, Zenon DEF SlotInv

\* The loop of ServeClient.
LEMMA LoopSlots ==
    ASSUME SlotInv, NEW c \in Clients, LoopHead(c) \/ RecvEnds(c) \/ Receive(c) \/ Reply(c)
    PROVE  SlotInv'
<1>1. UNCHANGED <<main, active, late, list>> /\ main.pc # "gone"
  BY Zenon DEF LoopHead, RecvEnds, Receive, Reply, OfThread, server, locks, Thread
<1>2. thr[c] # "run" => iter[c] = 0
  BY Zenon DEF SlotInv, SessionInv
<1>3. Leave(c) => /\ thr' = [thr EXCEPT ![c] = "reset"]
                  /\ \E q : /\ sess' = [sess EXCEPT ![c] = [sess[c] EXCEPT !.todo = q]]
                            /\ Ending([sess[c] EXCEPT !.todo = q])
  <2> DEFINE q == IF sess[c].txn THEN <<"end">> ELSE <<>>
  <2>1. Leave(c) => thr' = [thr EXCEPT ![c] = "reset"] /\ sess' = [sess EXCEPT ![c] = [sess[c] EXCEPT !.todo = q]]
    BY Zenon DEF Leave, Go
  <2>2. (sess[c].txn => q = <<"end">>) /\ (~sess[c].txn => q = <<>>)
    BY Zenon
  <2> HIDE DEF q
  <2>3. [sess[c] EXCEPT !.todo = q].todo = q /\ [sess[c] EXCEPT !.todo = q].txn = sess[c].txn
    BY Changes, Zenon
  <2>4. Ending([sess[c] EXCEPT !.todo = q])
    BY <2>2, <2>3, Zenon DEF Ending
  <2> QED BY <2>1, <2>4, Zenon
<1>4. CASE LoopHead(c) \/ RecvEnds(c)
  <2>1. thr[c] \in {"loop", "recv"} /\ iter' = iter /\ thr[c] # "run"
    BY <1>4 DEF LoopHead, RecvEnds, Thread, locks
  <2>2. Leave(c) \/ (thr' = [thr EXCEPT ![c] = "recv"] /\ sess' = sess)
    BY <1>4, Zenon DEF LoopHead, RecvEnds, Go
  <2> QED BY <1>1, <1>2, <1>3, <2>1, <2>2, MoveFrame, ZenonT(30)
<1>5. CASE Receive(c)
  <2>1. thr[c] = "recv" /\ iter' = iter /\ thr' = [thr EXCEPT ![c] = "run"]
    BY <1>5, Zenon DEF Receive, Thread, Go, locks
  <2>2. \E q : sess' = [sess EXCEPT ![c] = [sess[c] EXCEPT !.todo = q]]
    BY <1>5, Zenon DEF Receive
  <2> QED BY <1>1, <2>1, <2>2, MoveFrame, ZenonT(30)
<1>6. CASE Reply(c)
  <2>1. thr[c] = "run" /\ iter' = [iter EXCEPT ![c] = 0]
    BY <1>6, Zenon DEF Reply, Thread
  <2>2. Leave(c) \/ (thr' = [thr EXCEPT ![c] = "loop"] /\ sess' = sess)
    BY <1>6, Zenon DEF Reply, Go
  <2> QED BY <1>1, <1>3, <2>1, <2>2, MoveFrame, ZenonT(30)
<1> QED BY <1>4, <1>5, <1>6, Zenon

\* SlotGuard gives back the slot of a session without a transaction.
LEMMA ReleaseSlots ==
    ASSUME SlotInv, NEW c \in Clients, Release(c)
    PROVE  SlotInv'
<1>1. /\ thr[c] = "reset" /\ sess[c].todo = <<>> /\ active' = active - 1 /\ thr' = [thr EXCEPT ![c] = "done"]
      /\ UNCHANGED <<main, late, sess, iter, list>> /\ main.pc # "gone"
  BY Zenon DEF Release, Thread, Go, locks
<1>2. /\ thr \in [Clients -> Places] /\ "done" \in Places /\ c \in Threads /\ iter[c] = 0
      /\ Ending(sess[c])
  BY <1>1 DEF SlotInv, ServiceType, SessionInv, Places, Threads
<1>3. ~sess[c].txn
  <2>1. <<"end">> # <<>>
    OBVIOUS
  <2> QED BY <1>1, <1>2, <2>1, Zenon DEF Ending
<1>4. Cardinality(Threads) \in Nat /\ Cardinality(Threads') = Cardinality(Threads) - 1 /\ Threads' \subseteq Threads
  BY <1>1, <1>2, ThreadCount, ZenonT(30)
<1>5. /\ active = Cardinality(Threads) + (IF main.pc = "spawn" THEN 1 ELSE 0) /\ active <= MaxClients
      /\ active \in Nat /\ MaxClients \in Nat
  BY ServiceAssumption DEF SlotInv, SlotsExact, ServiceType
<1>6. Cardinality(Threads) >= 1
  <2>1. IsFiniteSet(Threads)
    BY ServiceAssumption, FS_Subset DEF Threads
  <2> QED BY <1>2, <1>4, <2>1, FS_EmptySet
<1>7. /\ active' = Cardinality(Threads') + (IF main'.pc = "spawn" THEN 1 ELSE 0) /\ active' <= MaxClients
      /\ active' \in Nat
  BY <1>1, <1>4, <1>5, <1>6
<1>8. \A d \in Clients : thr'[d] = IF d = c THEN "done" ELSE thr[d]
  BY <1>1, <1>2, Zenon
<1>9. ServiceType'
  <2>1. thr' \in [Clients -> Places]
    BY <1>1, <1>2
  <2> QED BY <1>1, <1>7, <2>1, Zenon DEF SlotInv, ServiceType, Sessions
<1>10. AcceptInv'
  BY <1>1, <1>8 DEF SlotInv, AcceptInv
<1>11. \A d \in Clients : /\ thr'[d] # "run" => iter[d] = 0
                          /\ thr'[d] \in {"none", "done"} => ~sess[d].txn
                          /\ thr'[d] = "reset" => Ending(sess[d])
  <2> SUFFICES ASSUME NEW d \in Clients
               PROVE  /\ thr'[d] # "run" => iter[d] = 0
                      /\ thr'[d] \in {"none", "done"} => ~sess[d].txn
                      /\ thr'[d] = "reset" => Ending(sess[d])
    OBVIOUS
  <2>1. CASE d = c
    BY <1>2, <1>3, <1>8, <2>1
  <2>2. CASE d # c
    BY <1>8, <2>2, Zenon DEF SlotInv, SessionInv
  <2> QED BY <2>1, <2>2
<1>12. SessionInv'
  <2>1. \A d \in Clients : /\ thr'[d] # "run" => iter'[d] = 0
                           /\ thr'[d] \in {"none", "done"} => ~sess'[d].txn
                           /\ thr'[d] = "reset" => Ending(sess'[d])
    BY <1>1, <1>11
  <2> QED BY <2>1 DEF SessionInv, Ending
<1> QED BY <1>1, <1>7, <1>9, <1>10, <1>12, Zenon DEF SlotInv, SlotsExact, SessionInv

-----------------------------------------------------------------------------
\* No step disturbs the invariant.
LEMMA StepSlots == SlotInv /\ [Next]_vars => SlotInv'
<1> SUFFICES ASSUME SlotInv, [Next]_vars PROVE SlotInv'
  OBVIOUS
<1>1. CASE UNCHANGED vars
  <2>1. UNCHANGED <<main, active, late, thr, sess, iter, list>>
    BY <1>1, Zenon DEF vars, server, locks
  <2> QED BY <2>1, Zenon DEF SlotInv, ServiceType, Sessions, AcceptInv, SessionInv, SlotsExact, Threads
<1>2. CASE MainStep \/ Stop
  BY <1>2, MainSlots, StartSlots, Zenon DEF MainStep
<1>3. ASSUME NEW c \in Clients, Accept(c) \/ RecvEnds(c) \/ Receive(c) \/ ThreadStep(c)
      PROVE  SlotInv'
  BY <1>3, AcceptSlots, LoopSlots, ReleaseSlots, StatementSlots, Zenon DEF ThreadStep
<1> QED BY <1>1, <1>2, <1>3, Zenon DEF Next

\* For every number of clients, slots, statements and memtables, active_clients_ is exactly
\* the number of connections that are served or about to be, never above max_clients;
\* a connection leaves nothing open behind, and only a bounded wait that ran out lets
\* the server end before its threads.
THEOREM SlotsCounted == Spec => []SlotsExact
<1>1. SlotInv => SlotsExact
  BY DEF SlotInv
<1> QED BY <1>1, InitSlots, StepSlots, PTL DEF Spec
=============================================================================
