---------------------------- MODULE InboundsProofs ----------------------------
(***************************************************************************)
(* The safety properties of Inbounds, for every number of inbounds, ports, *)
(* requests and faults.                                                    *)
(***************************************************************************)
EXTENDS Inbounds, TLAPS

RequestType ==
  [op : {"none", "create", "update", "sync", "delete", "migrate"},
   pc : {"idle", "flush", "call", "commit", "rollback"},
   id : Ids \cup {None}, row : Row \cup {None}]
Writing == {"create", "update", "migrate"}
AtWork == {"call", "commit", "rollback"}

-----------------------------------------------------------------------------
(* Types.                                                                  *)

(* A request that is not idle names an inbound and a row of the table's    *)
(* type; only the migration script waits before it flushes, to port To.    *)
Shape(h) ==
  req[h] # Idle =>
    /\ req[h].id \in Ids /\ req[h].row \in Row
    /\ req[h].pc \in AtWork \cup {"flush"}
    /\ req[h].pc = "flush" => req[h].op = "migrate" /\ req[h].row.port = To
ShapeInv == \A h \in Handlers : Shape(h)

RequestsOK ==
  /\ req \in [Handlers -> RequestType] /\ lock \in [Ids -> Handlers \cup {None}]
  /\ \A i \in Ids : lock[i] # None => req[lock[i]].id = i
  /\ ShapeInv
RowsOK == rows \in [Ids -> Row \cup {None}]
NodeOK ==
  /\ link \in [Ifaces -> Ports \cup {None}]
  /\ todo \subseteq Row /\ working = (todo # {})
BoundsOK == up \in BOOLEAN /\ arrived \in 0..MaxRequests /\ faults \in 0..MaxFaults

Typed == RequestsOK /\ RowsOK /\ NodeOK /\ BoundsOK

LEMMA TypedSuffices == Typed => TypeOK
BY DEF Typed, RequestsOK, RowsOK, NodeOK, BoundsOK, TypeOK, RequestType

LEMMA Constants == Idle \in RequestType /\ Idle.id = None /\ None \notin Ids /\ None \notin Handlers
BY NoneAssumption DEF RequestType, Idle

LEMMA FaultType == faults \in 0..MaxFaults /\ Fault => faults' \in 0..MaxFaults
BY BoundAssumption DEF Fault

(* A request that arrives, with or without the lock of its row: the one    *)
(* that was idle held no lock.                                             *)
LEMMA AcceptType ==
  ASSUME Typed, NEW h \in Handlers, NEW r \in RequestType, Accept(h, r),
         r.id \in Ids, r.row \in Row, r.pc \in AtWork \cup {"flush"},
         r.pc = "flush" => r.op = "migrate" /\ r.row.port = To,
         \/ UNCHANGED lock
         \/ lock[r.id] = None /\ lock' = [lock EXCEPT ![r.id] = h]
  PROVE  RequestsOK' /\ arrived' \in 0..MaxRequests
<1> USE DEF Typed, RequestsOK
<1>1. \A i \in Ids : lock[i] # h
  BY Constants DEF Accept
<1>2. req' = [req EXCEPT ![h] = r] /\ req' \in [Handlers -> RequestType]
  BY DEF Accept
<1>3. lock' \in [Ids -> Handlers \cup {None}] /\ \A i \in Ids : lock'[i] # None => req'[lock'[i]].id = i
  BY <1>1, <1>2
<1>4. ShapeInv'
  BY <1>2 DEF ShapeInv, Shape
<1>5. arrived' \in 0..MaxRequests
  BY BoundAssumption DEF Accept, BoundsOK
<1> QED BY <1>2, <1>3, <1>4, <1>5

LEMMA EndType ==
  ASSUME RequestsOK, NEW h \in Handlers, End(h)
  PROVE  RequestsOK'
<1> USE DEF RequestsOK
<1>1. req' = [req EXCEPT ![h] = Idle] /\ req' \in [Handlers -> RequestType]
  BY Constants DEF End
<1>2. \A i \in Ids : lock'[i] = (IF lock[i] = h THEN None ELSE lock[i])
  BY DEF End, Unlocked
<1>3. lock' \in [Ids -> Handlers \cup {None}]
  BY DEF End, Unlocked
<1>4. ShapeInv'
  BY <1>1 DEF ShapeInv, Shape
<1> QED BY <1>1, <1>2, <1>3, <1>4

LEMMA GotoType ==
  ASSUME RequestsOK, NEW h \in Handlers, req[h] # Idle, NEW pc \in AtWork, Goto(h, pc),
         \/ UNCHANGED lock
         \/ lock[req[h].id] = None /\ lock' = [lock EXCEPT ![req[h].id] = h]
  PROVE  RequestsOK'
<1> USE DEF RequestsOK
<1>1. req' = [req EXCEPT ![h].pc = pc] /\ req' \in [Handlers -> RequestType]
  BY DEF Goto, RequestType, AtWork
<1>2. \A g \in Handlers : req'[g].id = req[g].id /\ req'[g].row = req[g].row /\ (g # h => req'[g] = req[g])
  BY <1>1 DEF RequestType
<1>3. req'[h].pc = pc
  BY <1>1 DEF RequestType
<1>4. ShapeInv'
  BY <1>1, <1>2, <1>3 DEF ShapeInv, Shape, AtWork
<1>5. lock' \in [Ids -> Handlers \cup {None}] /\ \A i \in Ids : lock'[i] # None => req'[lock'[i]].id = i
  BY <1>2
<1> QED BY <1>1, <1>4, <1>5

LEMMA NotIdle ==
  ASSUME NEW h \in Handlers, req[h].pc # "idle"
  PROVE  req[h] # Idle
BY DEF Idle

(* What an apply and a removal leave of the node's interfaces.             *)
LEMMA LinkType ==
  ASSUME NodeOK, NEW row \in Row
  PROVE  /\ Applied(row) \in [Ifaces -> Ports \cup {None}]
         /\ Removed(row) \in [Ifaces -> Ports \cup {None}]
BY DEF NodeOK, Applied, Removed, Row

(* The requests up to their flush, ...                                     *)
LEMMA ArriveType ==
  ASSUME Typed, NEW h \in Handlers, Arrive(h)
  PROVE  Typed'
<1>1. PICK i \in Ids : \/ \E row \in Row : Create(h, i, row)
                       \/ \E p \in Ports : Update(h, i, p)
                       \/ Sync(h, i) \/ Delete(h, i) \/ Migrate(h, i)
  BY DEF Arrive
<1> USE DEF Typed
<1>2. \/ rows[i] # None /\ rows[i] \in Row
      \/ \E row \in Row : Create(h, i, row)
  BY <1>1 DEF Update, Sync, Delete, Migrate, LockRow, RowsOK
<1>3. ASSUME NEW row \in Row, Create(h, i, row)
      PROVE  Typed'
  <2> DEFINE r == [op |-> "create", pc |-> "call", id |-> i, row |-> row]
  <2>1. r \in RequestType /\ r.pc = "call" /\ r.id = i /\ r.row = row
    BY DEF RequestType
  <2>2. Accept(h, r) /\ UNCHANGED <<rows, lock, link, worker, up, faults>>
    BY <1>3 DEF Create
  <2> HIDE DEF r
  <2>3. RequestsOK' /\ arrived' \in 0..MaxRequests
    BY <2>1, <2>2, AcceptType DEF AtWork
  <2> QED BY <2>2, <2>3 DEF RowsOK, NodeOK, BoundsOK, worker
<1>4. ASSUME NEW op \in {"update", "sync", "delete"}, NEW row \in Row, LockRow(h, i, op, row)
      PROVE  Typed'
  <2> DEFINE r == [op |-> op, pc |-> "call", id |-> i, row |-> row]
  <2>1. r \in RequestType /\ r.pc = "call" /\ r.id = i /\ r.row = row
    BY DEF RequestType
  <2>2. /\ Accept(h, r) /\ UNCHANGED <<rows, link, worker, up, faults>>
        /\ lock[i] = None /\ lock' = [lock EXCEPT ![i] = h]
    BY <1>4 DEF LockRow
  <2> HIDE DEF r
  <2>3. RequestsOK' /\ arrived' \in 0..MaxRequests
    BY <2>1, <2>2, AcceptType DEF AtWork
  <2> QED BY <2>2, <2>3 DEF RowsOK, NodeOK, BoundsOK, worker
<1>5. ASSUME NEW p \in Ports, Update(h, i, p)
      PROVE  Typed'
  <2>1. [iface |-> rows[i].iface, port |-> p] \in Row
    BY <1>5, <1>2 DEF Row, Update, LockRow, RowsOK
  <2> QED BY <1>4, <1>5, <2>1 DEF Update
<1>6. CASE Sync(h, i) \/ Delete(h, i)
  BY <1>2, <1>4, <1>6 DEF Sync, Delete, LockRow, RowsOK
<1>7. CASE Migrate(h, i)
  <2> DEFINE r == [op |-> "migrate", pc |-> "flush", id |-> i, row |-> [rows[i] EXCEPT !.port = To]]
  <2>1. rows[i] \in Row
    BY <1>7 DEF Migrate, RowsOK
  <2>2. [rows[i] EXCEPT !.port = To] \in Row /\ [rows[i] EXCEPT !.port = To].port = To
    BY <2>1, MigrationAssumption DEF Row
  <2>3. r \in RequestType /\ r.pc = "flush" /\ r.op = "migrate" /\ r.id = i /\ r.row \in Row /\ r.row.port = To
    BY <2>2 DEF RequestType
  <2>4. Accept(h, r) /\ UNCHANGED <<rows, lock, link, worker, up, faults>>
    BY <1>7 DEF Migrate
  <2> HIDE DEF r
  <2>5. RequestsOK' /\ arrived' \in 0..MaxRequests
    BY <2>3, <2>4, AcceptType
  <2> QED BY <2>4, <2>5 DEF RowsOK, NodeOK, BoundsOK, worker
<1> QED BY <1>1, <1>3, <1>5, <1>6, <1>7

(* ... their calls and their ends, ...                                     *)
LEMMA HandleType ==
  ASSUME Typed, NEW h \in Handlers, Handle(h) \/ RequestDies(h)
  PROVE  Typed'
<1> USE DEF Typed
<1>1. req[h] # Idle /\ req[h].id \in Ids /\ req[h].row \in Row
  <2>1. req[h] # Idle
    BY NotIdle DEF Handle, FlushMigration, CallApply, CallRemove, Commit, Rollback, RequestDies
  <2> QED BY <2>1 DEF RequestsOK, ShapeInv, Shape
<1>2. CASE FlushMigration(h)
  <2>1. RequestsOK'
    BY <1>1, <1>2, EndType, GotoType DEF FlushMigration, AtWork
  <2> QED BY <1>2, <2>1 DEF FlushMigration, RowsOK, NodeOK, BoundsOK, worker
<1>3. CASE CallApply(h) \/ CallRemove(h)
  <2>1. \E pc \in AtWork : Goto(h, pc)
    BY <1>3 DEF CallApply, CallRemove, AtWork
  <2>2. UNCHANGED <<rows, lock, worker, up, arrived>>
    BY <1>3 DEF CallApply, CallRemove
  <2>3. RequestsOK'
    BY <1>1, <2>1, <2>2, GotoType
  <2>4. link' \in {link, Applied(req[h].row), Removed(req[h].row)}
    BY <1>3 DEF CallApply, CallRemove
  <2>5. faults' \in 0..MaxFaults
    BY <1>3, FaultType DEF CallApply, CallRemove, BoundsOK
  <2>6. NodeOK'
    BY <1>1, <2>2, <2>4, LinkType DEF NodeOK, worker
  <2> QED BY <2>2, <2>3, <2>5, <2>6 DEF RowsOK, BoundsOK
<1>4. CASE Commit(h)
  <2>1. RequestsOK' /\ UNCHANGED <<link, worker, up, arrived, faults>>
    BY <1>4, EndType DEF Commit
  <2>2. RowsOK'
    BY <1>1, <1>4 DEF Commit, Outcome, RowsOK
  <2> QED BY <2>1, <2>2 DEF NodeOK, BoundsOK, worker
<1>5. CASE Rollback(h) \/ RequestDies(h)
  <2>1. RequestsOK' /\ UNCHANGED <<rows, link, worker, up, arrived>>
    BY <1>5, EndType DEF Rollback, RequestDies
  <2>2. faults' \in 0..MaxFaults
    BY <1>5, FaultType DEF Rollback, RequestDies, BoundsOK
  <2> QED BY <2>1, <2>2 DEF RowsOK, NodeOK, BoundsOK, worker
<1> QED BY <1>2, <1>3, <1>4, <1>5 DEF Handle

(* ... the worker, and what happens by itself.                             *)
LEMMA WorkerType ==
  ASSUME Typed, WorkerStep \/ WorkerDies \/ AgentFails \/ AgentAnswers
  PROVE  Typed'
<1> USE DEF Typed
<1>1. UNCHANGED <<rows, lock, req, arrived>> /\ RequestsOK' /\ RowsOK'
  BY DEF WorkerStep, StartCycle, ApplyNext, WorkerDies, AgentFails, AgentAnswers, RequestsOK, RowsOK,
     ShapeInv, Shape
<1>2. faults' \in 0..MaxFaults /\ up' \in BOOLEAN
  BY FaultType DEF WorkerStep, StartCycle, ApplyNext, WorkerDies, AgentFails, AgentAnswers, BoundsOK
<1>3. CASE StartCycle
  <2>1. todo' \subseteq Row /\ working' = (todo' # {}) /\ UNCHANGED link
    <3>1. Rendered \subseteq Row
      BY DEF Rendered, Present, RowsOK
    <3>2. Present # {} => Rendered # {}
      BY DEF Rendered
    <3>3. todo' = Rendered /\ working' = TRUE /\ Present # {} /\ UNCHANGED link
      BY <1>3 DEF StartCycle
    <3> QED BY <3>1, <3>2, <3>3
  <2>2. NodeOK'
    BY <2>1 DEF NodeOK
  <2> QED BY <1>1, <1>2, <2>2 DEF BoundsOK
<1>4. CASE ApplyNext
  <2>1. PICK row \in todo : /\ link' \in {link, Applied(row), Removed(row)}
                            /\ todo' \in {{}, todo \ {row}} /\ working' = (todo' # {})
    BY <1>4 DEF ApplyNext
  <2>2. row \in Row /\ todo' \subseteq Row
    BY <2>1 DEF NodeOK
  <2>3. NodeOK'
    BY <2>1, <2>2, LinkType DEF NodeOK
  <2> QED BY <1>1, <1>2, <2>3 DEF BoundsOK
<1>5. CASE WorkerDies \/ AgentFails \/ AgentAnswers
  BY <1>1, <1>2, <1>5 DEF WorkerDies, AgentFails, AgentAnswers, worker, NodeOK, BoundsOK
<1> QED BY <1>3, <1>4, <1>5 DEF WorkerStep

LEMMA InitType == Init => Typed
<1> SUFFICES ASSUME Init PROVE Typed
  OBVIOUS
<1>1. RequestsOK
  BY Constants DEF Init, RequestsOK, ShapeInv, Shape
<1>2. NodeOK
  BY DEF Init, NodeOK
<1>3. RowsOK /\ BoundsOK
  BY BoundAssumption DEF Init, RowsOK, BoundsOK
<1> QED BY <1>1, <1>2, <1>3 DEF Typed

LEMMA NextType == Typed /\ [Next]_vars => Typed'
<1> SUFFICES ASSUME Typed, [Next]_vars PROVE Typed'
  OBVIOUS
<1>1. CASE UNCHANGED vars
  BY <1>1 DEF vars, worker, Typed, RequestsOK, RowsOK, NodeOK, BoundsOK, ShapeInv, Shape
<1> QED BY <1>1, ArriveType, HandleType, WorkerType DEF Next

(* The variables of Inbounds have their types, and a locked row is one a   *)
(* request is at work on (TypeOK).                                         *)
THEOREM TypeCorrect == Spec => []TypeOK
<1>1. Spec => []Typed
  BY InitType, NextType, PTL DEF Spec
<1> QED BY <1>1, TypedSuffices, PTL

-----------------------------------------------------------------------------
(* Ports.                                                                  *)

(* What a request has flushed is free of the ports of the other rows, and  *)
(* of those the other requests have flushed.                               *)
FlushedFree == \A h \in Flushed : PortFree(req[h].row.port, req[h].id)
FlushedApart == \A g, h \in Flushed : g # h => req[g].row.port # req[h].row.port

Inv == Typed /\ PortsDistinct /\ FlushedFree /\ FlushedApart

(* Steps that change no row and flush nothing.                             *)
LEMMA PortsKept ==
  ASSUME Inv, UNCHANGED rows,
         \A g \in Flushed' : g \in Flushed /\ req'[g].id = req[g].id /\ req'[g].row = req[g].row
  PROVE  PortsDistinct' /\ FlushedFree' /\ FlushedApart'
<1>1. Present' = Present
  BY DEF Present
<1>2. PortsDistinct'
  BY <1>1 DEF Inv, PortsDistinct
<1>3. FlushedFree'
  BY <1>1 DEF Inv, FlushedFree, PortFree
<1>4. FlushedApart'
  BY DEF Inv, FlushedApart
<1> QED BY <1>2, <1>3, <1>4

(* A flush: the port is no other row's, and nobody else has flushed it.    *)
LEMMA PortsFlushed ==
  ASSUME Inv, UNCHANGED rows, NEW h \in Handlers \ Flushed,
         PortFree(req'[h].row.port, req'[h].id), PortSettled(req'[h].row.port),
         \A g \in Handlers \ {h} : req'[g] = req[g]
  PROVE  PortsDistinct' /\ FlushedFree' /\ FlushedApart'
<1>1. Present' = Present /\ Flushed' \subseteq Flushed \cup {h}
  BY DEF Present, Flushed
<1>2. \A g \in Flushed : g # h /\ req'[g] = req[g] /\ req[g].row.port # req'[h].row.port
  BY DEF PortSettled, Flushed
<1>3. PortsDistinct'
  BY <1>1 DEF Inv, PortsDistinct
<1>4. FlushedFree'
  BY <1>1, <1>2 DEF Inv, FlushedFree, PortFree
<1>5. FlushedApart'
  BY <1>1, <1>2 DEF Inv, FlushedApart
<1> QED BY <1>3, <1>4, <1>5

LEMMA EndFlushed ==
  ASSUME Typed, NEW h \in Handlers, End(h)
  PROVE  /\ Flushed' = Flushed \ {h}
         /\ \A g \in Handlers \ {h} : req'[g] = req[g]
BY DEF End, Flushed, Typed, RequestsOK, Idle

LEMMA CommitPorts ==
  ASSUME Inv, NEW h \in Handlers, Commit(h)
  PROVE  PortsDistinct' /\ FlushedFree' /\ FlushedApart'
<1> DEFINE i == req[h].id
           row == req[h].row
<1>1. i \in Ids /\ row \in Row
  <2>1. req[h] # Idle
    BY NotIdle DEF Commit
  <2> QED BY <2>1 DEF Inv, Typed, RequestsOK, ShapeInv, Shape
<1>2. Flushed' = Flushed \ {h} /\ \A g \in Handlers \ {h} : req'[g] = req[g]
  BY EndFlushed DEF Commit, Inv
<1>3. \A g \in Flushed' : g \in Flushed /\ g # h /\ req'[g] = req[g]
  BY <1>2 DEF Flushed
<1>4. FlushedApart'
  BY <1>3 DEF Inv, FlushedApart
<1>5. CASE req[h].op \in Writing
  <2>1. rows' = [rows EXCEPT ![i] = row] /\ h \in Flushed
    BY <1>5 DEF Commit, Outcome, Writing, Flushed
  <2>2. PortFree(row.port, i)
    BY <2>1 DEF Inv, FlushedFree
  <2>3. \A g \in Flushed' : req[g].row.port # row.port
    BY <1>3, <2>1 DEF Inv, FlushedApart
  <2> HIDE DEF i, row
  <2>4. rows'[i] = row /\ \A j \in Ids \ {i} : rows'[j] = rows[j]
    BY <1>1, <2>1 DEF Inv, Typed, RowsOK
  <2>5. Present' \subseteq Present \cup {i}
    BY <2>4 DEF Present
  <2>6. PortsDistinct'
    BY <2>2, <2>4, <2>5 DEF Inv, PortsDistinct, PortFree, Present
  <2>7. FlushedFree'
    BY <1>3, <2>3, <2>4, <2>5 DEF Inv, FlushedFree, PortFree, Present
  <2> QED BY <1>4, <2>6, <2>7
<1>6. CASE req[h].op \notin Writing
  <2>1. Present' \subseteq Present /\ \A j \in Present' : rows'[j] = rows[j]
    BY <1>6 DEF Commit, Outcome, Writing, Present, Inv, Typed, RowsOK
  <2>2. PortsDistinct'
    BY <2>1 DEF Inv, PortsDistinct
  <2>3. FlushedFree'
    BY <1>3, <2>1 DEF Inv, FlushedFree, PortFree
  <2> QED BY <1>4, <2>2, <2>3
<1> QED BY <1>5, <1>6

LEMMA ArrivePorts ==
  ASSUME Inv, NEW h \in Handlers, Arrive(h)
  PROVE  PortsDistinct' /\ FlushedFree' /\ FlushedApart'
<1>1. PICK i \in Ids : \/ \E row \in Row : Create(h, i, row)
                       \/ \E p \in Ports : Update(h, i, p)
                       \/ Sync(h, i) \/ Delete(h, i) \/ Migrate(h, i)
  BY DEF Arrive
<1>2. UNCHANGED rows /\ req[h] = Idle /\ \A g \in Handlers \ {h} : req'[g] = req[g]
  BY <1>1 DEF Create, Update, Sync, Delete, Migrate, LockRow, Accept, Inv, Typed, RequestsOK
<1>3. h \notin Flushed
  BY <1>2 DEF Flushed, Idle
<1>4. ASSUME NEW row \in Row, Create(h, i, row)
      PROVE  PortFree(req'[h].row.port, req'[h].id) /\ PortSettled(req'[h].row.port)
  BY <1>4 DEF Create, Accept, Inv, Typed, RequestsOK
<1>5. ASSUME NEW p \in Ports, Update(h, i, p)
      PROVE  PortFree(req'[h].row.port, req'[h].id) /\ PortSettled(req'[h].row.port)
  BY <1>5 DEF Update, LockRow, Accept, Inv, Typed, RequestsOK
<1>6. CASE Sync(h, i) \/ Delete(h, i) \/ Migrate(h, i)
  <2>1. h \notin Flushed'
    BY <1>6 DEF Sync, Delete, Migrate, LockRow, Accept, Flushed, Inv, Typed, RequestsOK
  <2>2. \A g \in Flushed' : g \in Flushed /\ req'[g] = req[g]
    BY <1>2, <2>1 DEF Flushed
  <2> QED BY <1>2, <2>2, PortsKept
<1> QED BY <1>1, <1>2, <1>3, <1>4, <1>5, <1>6, PortsFlushed

LEMMA NextPorts == Inv /\ [Next]_vars => PortsDistinct' /\ FlushedFree' /\ FlushedApart'
<1> SUFFICES ASSUME Inv, [Next]_vars PROVE PortsDistinct' /\ FlushedFree' /\ FlushedApart'
  OBVIOUS
<1>1. CASE UNCHANGED <<rows, req>>
  BY <1>1, PortsKept DEF Flushed
<1>2. WorkerStep \/ WorkerDies \/ AgentFails \/ AgentAnswers \/ UNCHANGED vars => UNCHANGED <<rows, req>>
  BY DEF WorkerStep, StartCycle, ApplyNext, WorkerDies, AgentFails, AgentAnswers, vars
<1>3. ASSUME NEW h \in Handlers, CallApply(h) \/ CallRemove(h)
      PROVE  PortsDistinct' /\ FlushedFree' /\ FlushedApart'
  <2>1. PICK pc \in AtWork : Goto(h, pc) /\ UNCHANGED rows /\ req[h].pc = "call"
    BY <1>3 DEF CallApply, CallRemove, AtWork
  <2>2. \A g \in Handlers : /\ req'[g].op = req[g].op /\ req'[g].id = req[g].id /\ req'[g].row = req[g].row
                            /\ g # h => req'[g].pc = req[g].pc
    BY <2>1 DEF Goto, Inv, Typed, RequestsOK, RequestType
  <2>3. \A g \in Flushed' : g \in Flushed
    BY <2>1, <2>2 DEF Flushed
  <2> QED BY <2>1, <2>2, <2>3, PortsKept DEF Flushed
<1>4. ASSUME NEW h \in Handlers, End(h), UNCHANGED rows
      PROVE  PortsDistinct' /\ FlushedFree' /\ FlushedApart'
  <2>1. \A g \in Flushed' : g \in Flushed /\ req'[g] = req[g]
    BY <1>4, EndFlushed DEF Inv, Flushed
  <2> QED BY <1>4, <2>1, PortsKept
<1>5. ASSUME NEW h \in Handlers, FlushMigration(h)
      PROVE  PortsDistinct' /\ FlushedFree' /\ FlushedApart'
  <2>1. CASE End(h)
    BY <1>4, <1>5, <2>1 DEF FlushMigration
  <2>2. CASE Goto(h, "call") /\ PortFree(To, req[h].id)
    <3>1. UNCHANGED rows /\ PortSettled(To) /\ h \notin Flushed /\ req[h].row.port = To
      <4>1. req[h].pc = "flush" /\ req[h] # Idle
        BY <1>5, NotIdle DEF FlushMigration
      <4> QED BY <1>5, <4>1 DEF FlushMigration, Flushed, Inv, Typed, RequestsOK, ShapeInv, Shape
    <3>2. /\ req'[h].row = req[h].row /\ req'[h].id = req[h].id
          /\ \A g \in Handlers \ {h} : req'[g] = req[g]
      BY <2>2 DEF Goto, Inv, Typed, RequestsOK, RequestType
    <3> QED BY <2>2, <3>1, <3>2, PortsFlushed
  <2> QED BY <1>5, <2>1, <2>2 DEF FlushMigration
<1> QED BY <1>1, <1>2, <1>3, <1>4, <1>5, ArrivePorts, CommitPorts DEF Next, Handle, Rollback, RequestDies

(* No two inbounds of the node have one port: the unique index makes a     *)
(* request wait for those that have flushed the port and not committed, so *)
(* that the check before it is enough (PortsDistinct).                     *)
THEOREM PortsStayDistinct == Spec => []PortsDistinct
<1>1. Init => Inv
  <2> SUFFICES ASSUME Init PROVE Inv
    OBVIOUS
  <2>1. Present = {} /\ Flushed = {}
    BY DEF Init, Present, Flushed, Idle
  <2> QED BY <2>1, InitType DEF Inv, PortsDistinct, FlushedFree, FlushedApart
<1>2. Inv /\ [Next]_vars => Inv'
  BY NextType, NextPorts DEF Inv
<1> QED BY <1>1, <1>2, PTL DEF Spec, Inv

-----------------------------------------------------------------------------
(* Rows.                                                                   *)

(* Two requests are never at work on one inbound, between their flush and  *)
(* their end; and a sync or a deletion works on the row as it is committed,*)
(* not on one that was replaced since it was read (FOR UPDATE).            *)
OneWriterPerRow ==
  \A g, h \in Handlers :
    req[g].pc \in AtWork /\ req[h].pc \in AtWork /\ req[g].id = req[h].id => g = h
WorksOnCommitted ==
  \A h \in Handlers :
    req[h].pc \in AtWork /\ req[h].op \in {"sync", "delete"} => req[h].row = rows[req[h].id]

(* A creation has the inbound for itself; every other request at work holds*)
(* the lock of its row, which is there.                                    *)
Creates(h) == rows[req[h].id] = None /\ \A o \in Handlers \ {h} : req[o].id # req[h].id
Holds(h) ==
  /\ lock[req[h].id] = h /\ rows[req[h].id] # None
  /\ req[h].op \in {"sync", "delete"} => rows[req[h].id] = req[h].row
Works(h) == req[h].pc \in AtWork => IF req[h].op = "create" THEN Creates(h) ELSE Holds(h)
WorkInv == \A h \in Handlers : Works(h)

LEMMA OneWriter == Typed /\ WorkInv => OneWriterPerRow /\ WorksOnCommitted
BY DEF WorkInv, Works, Creates, Holds, OneWriterPerRow, WorksOnCommitted

(* A request that a step leaves alone.                                     *)
LEMMA WorksKept ==
  ASSUME NEW h \in Handlers, Works(h), req'[h] = req[h],
         req[h].pc \in AtWork => rows'[req[h].id] = rows[req[h].id],
         lock[req[h].id] = h => lock'[req[h].id] = h,
         \A o \in Handlers : req[h].pc \in AtWork /\ req[h].op = "create" /\ req[o].id # req[h].id
                               => req'[o].id # req[h].id
  PROVE  Works(h)'
BY DEF Works, Creates, Holds

LEMMA AtWorkNamed ==
  ASSUME Typed, NEW h \in Handlers, req[h].pc \in AtWork
  PROVE  req[h].id \in Ids
BY NotIdle DEF AtWork, Typed, RequestsOK, ShapeInv, Shape

(* A request ends; at most the row it had for itself changes.              *)
LEMMA EndWorks ==
  ASSUME Typed, WorkInv, NEW h \in Handlers, End(h),
         \A g \in Handlers \ {h} : req[g].pc \in AtWork => rows'[req[g].id] = rows[req[g].id]
  PROVE  WorkInv'
<1> USE DEF WorkInv
<1>1. req'[h] = Idle /\ \A g \in Handlers \ {h} : req'[g] = req[g]
  BY DEF End, Typed, RequestsOK
<1>2. Works(h)'
  BY <1>1 DEF Works, AtWork, Idle
<1>3. ASSUME NEW g \in Handlers \ {h}
      PROVE  Works(g)'
  <2>1. CASE req[g].pc \notin AtWork
    BY <1>1, <2>1 DEF Works
  <2>2. CASE req[g].pc \in AtWork
    <3>1. req[g].id \in Ids
      BY <2>2, AtWorkNamed
    <3>2. lock[req[g].id] = g => lock'[req[g].id] = g
      BY <3>1 DEF End, Unlocked
    <3>3. req'[h].id # req[g].id
      BY <1>1, <3>1, Constants
    <3> QED BY <1>1, <3>2, <3>3, WorksKept
  <2> QED BY <2>1, <2>2
<1> QED BY <1>2, <1>3

(* A request that arrives, on an inbound that nobody creates.              *)
LEMMA ArriveWorks ==
  ASSUME Typed, WorkInv, NEW h \in Handlers, NEW r \in RequestType, Accept(h, r), UNCHANGED rows,
         \A g \in Handlers : req[g].pc \in AtWork /\ req[g].op = "create" => req[g].id # r.id,
         \A g \in Handlers, i \in Ids : lock[i] = g => lock'[i] = g,
         Works(h)'
  PROVE  WorkInv'
<1> USE DEF WorkInv
<1>1. req'[h] = r /\ \A g \in Handlers \ {h} : req'[g] = req[g]
  BY DEF Accept, Typed, RequestsOK
<1>2. ASSUME NEW g \in Handlers \ {h}, req[g].pc \in AtWork
      PROVE  Works(g)'
  <2>1. req[g].id \in Ids
    BY <1>2, AtWorkNamed
  <2> QED BY <1>1, <1>2, <2>1, WorksKept
<1>3. ASSUME NEW g \in Handlers \ {h}, req[g].pc \notin AtWork
      PROVE  Works(g)'
  BY <1>1, <1>3 DEF Works
<1> QED BY <1>2, <1>3

LEMMA ArriveWork ==
  ASSUME Typed, WorkInv, NEW h \in Handlers, Arrive(h)
  PROVE  WorkInv'
<1>1. PICK i \in Ids : \/ \E row \in Row : Create(h, i, row)
                       \/ \E p \in Ports : Update(h, i, p)
                       \/ Sync(h, i) \/ Delete(h, i) \/ Migrate(h, i)
  BY DEF Arrive
<1> USE DEF Typed, RequestsOK
<1>2. rows[i] # None =>
        \A g \in Handlers : req[g].pc \in AtWork /\ req[g].op = "create" => req[g].id # i
  BY DEF WorkInv, Works, Creates
<1>3. ASSUME NEW row \in Row, Create(h, i, row)
      PROVE  WorkInv'
  <2> DEFINE r == [op |-> "create", pc |-> "call", id |-> i, row |-> row]
  <2>1. r \in RequestType /\ Accept(h, r) /\ UNCHANGED <<rows, lock>>
    BY <1>3 DEF Create, RequestType
  <2>2. rows[i] = None /\ \A o \in Handlers : req[o].id # i
    BY <1>3 DEF Create
  <2>3. req'[h] = r /\ \A g \in Handlers \ {h} : req'[g] = req[g]
    BY <2>1 DEF Accept
  <2>4. r.op = "create" /\ r.id = i
    OBVIOUS
  <2> HIDE DEF r
  <2>5. Works(h)'
    BY <2>1, <2>2, <2>3, <2>4 DEF Works, Creates
  <2> QED BY <2>1, <2>2, <2>4, <2>5, ArriveWorks
<1>4. ASSUME NEW op \in {"update", "sync", "delete"}, NEW row \in Row, LockRow(h, i, op, row),
             op # "update" => row = rows[i]
      PROVE  WorkInv'
  <2> DEFINE r == [op |-> op, pc |-> "call", id |-> i, row |-> row]
  <2>1. r \in RequestType /\ Accept(h, r) /\ UNCHANGED rows /\ lock[i] = None /\ rows[i] # None
        /\ lock' = [lock EXCEPT ![i] = h]
    BY <1>4 DEF LockRow, RequestType
  <2>2. req'[h] = r
    BY <2>1 DEF Accept
  <2>3. r.op = op /\ r.op # "create" /\ r.id = i /\ r.row = row
    OBVIOUS
  <2> HIDE DEF r
  <2>4. Works(h)'
    BY <1>4, <2>1, <2>2, <2>3 DEF Works, Holds
  <2>5. \A g \in Handlers, j \in Ids : lock[j] = g => lock'[j] = g
    BY <2>1, Constants
  <2> QED BY <1>2, <2>1, <2>3, <2>4, <2>5, ArriveWorks
<1>5. ASSUME NEW p \in Ports, Update(h, i, p)
      PROVE  WorkInv'
  <2>1. [iface |-> rows[i].iface, port |-> p] \in Row
    BY <1>5 DEF Row, Update, LockRow, RowsOK
  <2> QED BY <1>4, <1>5, <2>1 DEF Update
<1>6. CASE Sync(h, i) \/ Delete(h, i)
  <2>1. rows[i] \in Row
    BY <1>6 DEF Sync, Delete, LockRow, RowsOK
  <2> QED BY <1>4, <1>6, <2>1 DEF Sync, Delete
<1>7. CASE Migrate(h, i)
  <2>1. PICK r \in RequestType : /\ Accept(h, r) /\ UNCHANGED <<rows, lock>> /\ rows[i] # None
                                 /\ r.id = i /\ r.pc = "flush"
    <3>1. [rows[i] EXCEPT !.port = To] \in Row
      BY <1>7, MigrationAssumption DEF Migrate, RowsOK, Row
    <3>2. [op |-> "migrate", pc |-> "flush", id |-> i, row |-> [rows[i] EXCEPT !.port = To]] \in RequestType
      BY <3>1 DEF RequestType
    <3> QED BY <1>7, <3>2 DEF Migrate
  <2>2. Works(h)'
    BY <2>1 DEF Accept, Works, AtWork
  <2> QED BY <1>2, <2>1, <2>2, ArriveWorks
<1> QED BY <1>1, <1>3, <1>5, <1>6, <1>7

LEMMA CommitWork ==
  ASSUME Typed, WorkInv, NEW h \in Handlers, Commit(h)
  PROVE  WorkInv'
<1>1. ASSUME NEW g \in Handlers \ {h}, req[g].pc \in AtWork
      PROVE  rows'[req[g].id] = rows[req[g].id]
  <2>1. req[h].pc \in AtWork
    BY DEF Commit, AtWork
  <2>2. req[g].id # req[h].id
    BY <1>1, <2>1, OneWriter DEF OneWriterPerRow
  <2> QED BY <2>2 DEF Commit, Outcome, Typed, RowsOK
<1> QED BY <1>1, EndWorks DEF Commit

LEMMA NextWork == Typed /\ WorkInv /\ [Next]_vars => WorkInv'
<1> SUFFICES ASSUME Typed, WorkInv, [Next]_vars PROVE WorkInv'
  OBVIOUS
<1>1. WorkerStep \/ WorkerDies \/ AgentFails \/ AgentAnswers \/ UNCHANGED vars => UNCHANGED <<rows, lock, req>>
  BY DEF WorkerStep, StartCycle, ApplyNext, WorkerDies, AgentFails, AgentAnswers, vars
<1>2. CASE UNCHANGED <<rows, lock, req>>
  BY <1>2 DEF WorkInv, Works, Creates, Holds
<1>3. ASSUME NEW h \in Handlers, NEW pc \in AtWork, Goto(h, pc), UNCHANGED rows, Works(h)',
             \A g \in Handlers, i \in Ids : lock[i] = g => lock'[i] = g
      PROVE  WorkInv'
  <2>1. \A g \in Handlers : req'[g].id = req[g].id /\ (g # h => req'[g] = req[g])
    BY <1>3 DEF Goto, Typed, RequestsOK, RequestType
  <2>2. ASSUME NEW g \in Handlers \ {h}, req[g].pc \in AtWork
        PROVE  Works(g)'
    <3>1. req[g].id \in Ids
      BY <2>2, AtWorkNamed
    <3> QED BY <1>3, <2>1, <3>1, WorksKept DEF WorkInv
  <2>3. ASSUME NEW g \in Handlers \ {h}, req[g].pc \notin AtWork
        PROVE  Works(g)'
    BY <2>1, <2>3 DEF Works
  <2> QED BY <1>3, <2>2, <2>3 DEF WorkInv
<1>4. ASSUME NEW h \in Handlers, CallApply(h) \/ CallRemove(h)
      PROVE  WorkInv'
  <2>1. PICK pc \in AtWork : Goto(h, pc) /\ UNCHANGED <<rows, lock>> /\ req[h].pc = "call"
    BY <1>4 DEF CallApply, CallRemove, AtWork
  <2>2. \A g \in Handlers : req'[g].op = req[g].op /\ req'[g].id = req[g].id /\ req'[g].row = req[g].row
    BY <2>1 DEF Goto, Typed, RequestsOK, RequestType
  <2>3. Works(h)'
    BY <2>1, <2>2 DEF WorkInv, Works, Creates, Holds, AtWork
  <2> QED BY <1>3, <2>1, <2>3
<1>5. ASSUME NEW h \in Handlers, FlushMigration(h)
      PROVE  WorkInv'
  <2>1. UNCHANGED rows /\ req[h].pc = "flush" /\ lock[req[h].id] = None
    BY <1>5 DEF FlushMigration
  <2>2. CASE End(h)
    BY <2>1, <2>2, EndWorks
  <2>3. CASE rows[req[h].id] # None /\ lock' = [lock EXCEPT ![req[h].id] = h] /\ Goto(h, "call")
    <3>1. req[h].op = "migrate" /\ req[h].id \in Ids
      BY <2>1, NotIdle DEF Typed, RequestsOK, ShapeInv, Shape
    <3>2. req'[h].op = req[h].op /\ req'[h].id = req[h].id
      BY <2>3 DEF Goto, Typed, RequestsOK, RequestType
    <3>3. Works(h)'
      BY <2>1, <2>3, <3>1, <3>2 DEF Works, Holds, Typed, RequestsOK
    <3>4. \A g \in Handlers, i \in Ids : lock[i] = g => lock'[i] = g
      BY <2>1, <2>3, Constants DEF Typed, RequestsOK
    <3> QED BY <1>3, <2>1, <2>3, <3>3, <3>4 DEF AtWork
  <2> QED BY <1>5, <2>2, <2>3 DEF FlushMigration
<1>6. ASSUME NEW h \in Handlers, Rollback(h) \/ RequestDies(h)
      PROVE  WorkInv'
  BY <1>6, EndWorks DEF Rollback, RequestDies
<1> QED BY <1>1, <1>2, <1>4, <1>5, <1>6, ArriveWork, CommitWork DEF Next, Handle

(* However requests, the migration script, faults and the worker           *)
(* interleave, an inbound has one request at work on it, and a sync or a   *)
(* deletion uses the row as it is (OneWriterPerRow, WorksOnCommitted).     *)
THEOREM RowsExclusive == Spec => [](OneWriterPerRow /\ WorksOnCommitted)
<1>1. Init => WorkInv
  BY DEF Init, WorkInv, Works, AtWork, Idle
<1> QED BY <1>1, InitType, NextType, NextWork, OneWriter, PTL DEF Spec
=============================================================================
