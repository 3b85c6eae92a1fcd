------------------------------- MODULE Inbounds -------------------------------
(***************************************************************************)
(* The inbounds of one node: their rows, and the interfaces the node runs. *)
(* Requests create, update, sync and delete inbounds, a script moves one   *)
(* to another port, and the worker applies the rows it read at the start   *)
(* of its cycle.  Every request calls the agent inside its transaction, so *)
(* that the node may have changed when the transaction is rolled back.     *)
(***************************************************************************)
EXTENDS Integers, FiniteSets

CONSTANTS
  Handlers,      \* requests in progress at once, the migration script included
  Ids,           \* inbounds that may be created
  Ifaces, Ports,
  From, To,      \* the ports of the migration script
  None,
  MaxRequests,   \* bound: requests
  MaxFaults      \* bound: processes that die, calls that fail, agents that go down

ASSUME NoneAssumption == None \notin Handlers \cup Ids \cup Ifaces \cup Ports
ASSUME MigrationAssumption == {From, To} \subseteq Ports
ASSUME BoundAssumption == MaxRequests \in Nat /\ MaxFaults \in Nat

VARIABLES
  rows,     \* the committed rows: [iface, port], or None
  lock,     \* who holds a row's lock
  req,      \* the requests
  link,     \* the node's interfaces: the port each listens on, or None
  todo,     \* the configurations the worker's cycle has still to apply
  working,  \* whether a cycle is under way
  up,       \* whether the node's agent answers
  arrived, faults

vars == <<rows, lock, req, link, todo, working, up, arrived, faults>>
worker == <<todo, working>>

Row == [iface : Ifaces, port : Ports]
Idle == [op |-> "none", pc |-> "idle", id |-> None, row |-> None]

Fault == faults < MaxFaults /\ faults' = faults + 1
Present == {i \in Ids : rows[i] # None}

(* The rows an uncommitted INSERT or UPDATE has written.                   *)
Flushed == {h \in Handlers : req[h].op \in {"create", "update", "migrate"}
                             /\ req[h].pc \in {"call", "commit", "rollback"}}

(* The unique index on (node, port) makes a transaction wait for another   *)
(* that has written, or moved away from, the same port.                    *)
PortUntouched(p) == TRUE
PortSettled(p) ==
  \A h \in Flushed : req[h].row.port # p
                     /\ (rows[req[h].id] # None => rows[req[h].id].port # p)

PortFree(p, i) == \A j \in Present \ {i} : rows[j].port # p
IfaceFree(f) == \A j \in Present : rows[j].iface # f

Accept(h, r) ==
  /\ req[h] = Idle /\ arrived < MaxRequests
  /\ req' = [req EXCEPT ![h] = r] /\ arrived' = arrived + 1

Goto(h, pc) == req' = [req EXCEPT ![h].pc = pc]

KeepsLock(h) == lock
Unlocked(h) == [i \in Ids |-> IF lock[i] = h THEN None ELSE lock[i]]
End(h) == req' = [req EXCEPT ![h] = Idle] /\ lock' = Unlocked(h)

-----------------------------------------------------------------------------
(* The requests up to their flush.                                         *)

(* Nothing but the query keeps two inbounds off one interface.             *)
Create(h, i, row) ==
  /\ rows[i] = None /\ \A o \in Handlers : req[o].id # i
  /\ PortFree(row.port, i) /\ IfaceFree(row.iface) /\ PortSettled(row.port)
  /\ Accept(h, [op |-> "create", pc |-> "call", id |-> i, row |-> row])
  /\ UNCHANGED <<rows, lock, link, worker, up, faults>>

(* SELECT ... FOR UPDATE waits for the row.                                *)
LockRow(h, i, op, row) ==
  /\ rows[i] # None /\ lock[i] = None
  /\ lock' = [lock EXCEPT ![i] = h]
  /\ Accept(h, [op |-> op, pc |-> "call", id |-> i, row |-> row])
  /\ UNCHANGED <<rows, link, worker, up, faults>>

Update(h, i, p) ==
  /\ PortFree(p, i) /\ PortSettled(p)
  /\ LockRow(h, i, "update", [iface |-> rows[i].iface, port |-> p])

Sync(h, i) == LockRow(h, i, "sync", rows[i])
Delete(h, i) == LockRow(h, i, "delete", rows[i])

(* The script reads without a lock; its UPDATE waits for the row later.    *)
Migrate(h, i) ==
  /\ rows[i] # None /\ rows[i].port = From
  /\ \A j \in Present \ {i} : rows[j].port \notin {From, To}
  /\ Accept(h, [op |-> "migrate", pc |-> "flush", id |-> i, row |-> [rows[i] EXCEPT !.port = To]])
  /\ UNCHANGED <<rows, lock, link, worker, up, faults>>

FlushMigration(h) ==
  /\ req[h].pc = "flush" /\ lock[req[h].id] = None /\ PortSettled(To)
  /\ IF rows[req[h].id] # None /\ PortFree(To, req[h].id)
       THEN lock' = [lock EXCEPT ![req[h].id] = h] /\ Goto(h, "call")
       ELSE End(h)
  /\ UNCHANGED <<rows, link, worker, up, arrived, faults>>

-----------------------------------------------------------------------------
(* The agent.                                                              *)

(* Another interface of the node may listen on the port.                   *)
CanListen(row) == \A f \in Ifaces \ {row.iface} : link[f] # row.port
Applied(row) == [link EXCEPT ![row.iface] = row.port]
Removed(row) == [link EXCEPT ![row.iface] = None]

(* The script looks at the interface it moved, and gives up when it finds  *)
(* no peer on it.                                                          *)
Rejected(h) == req[h].op = "migrate"

(* A failed apply may have had its effect; a failed validation removes the *)
(* interface and applies again, and may leave it down.                     *)
CallApply(h) ==
  LET row == req[h].row IN
  /\ req[h].op # "delete" /\ req[h].pc = "call"
  /\ \/ up /\ CanListen(row) /\ link' = Applied(row) /\ Goto(h, "commit") /\ UNCHANGED faults
     \/ (~up \/ ~CanListen(row)) /\ Goto(h, "rollback") /\ UNCHANGED <<link, faults>>
     \/ up /\ Rejected(h) /\ CanListen(row) /\ link' = Applied(row) /\ Goto(h, "rollback") /\ UNCHANGED faults
     \/ /\ up /\ Fault /\ Goto(h, "rollback")
        /\ link' \in {link, Removed(row)} \cup (IF CanListen(row) THEN {Applied(row)} ELSE {})
  /\ UNCHANGED <<rows, lock, worker, up, arrived>>

(* An agent that cannot be reached, or does not answer in time, does not   *)
(* keep the row from being deleted; one that answers an error does.        *)
CallRemove(h) ==
  LET row == req[h].row IN
  /\ req[h].op = "delete" /\ req[h].pc = "call"
  /\ \/ up /\ link' = Removed(row) /\ Goto(h, "commit") /\ UNCHANGED faults
     \/ ~up /\ Goto(h, "commit") /\ UNCHANGED <<link, faults>>
     \/ /\ up /\ Fault /\ link' \in {link, Removed(row)}
        /\ \E pc \in {"commit", "rollback"} : Goto(h, pc)
  /\ UNCHANGED <<rows, lock, worker, up, arrived>>

Outcome(h) ==
  CASE req[h].op \in {"create", "update", "migrate"} -> [rows EXCEPT ![req[h].id] = req[h].row]
    [] req[h].op = "delete" -> [rows EXCEPT ![req[h].id] = None]
    [] OTHER -> rows

Commit(h) ==
  /\ req[h].pc = "commit"
  /\ rows' = Outcome(h) /\ End(h)
  /\ UNCHANGED <<link, worker, up, arrived, faults>>

Rollback(h) ==
  /\ req[h].pc = "rollback" /\ End(h)
  /\ UNCHANGED <<rows, link, worker, up, arrived, faults>>

-----------------------------------------------------------------------------
(* The worker.                                                             *)

(* Every row, at the start of the cycle.                                   *)
RenderedOne == IF Present = {} THEN {} ELSE {rows[CHOOSE i \in Present : TRUE]}  \* .first()
Rendered == {rows[i] : i \in Present}

StartCycle ==
  /\ ~working /\ Present # {}
  /\ todo' = Rendered /\ working' = TRUE
  /\ UNCHANGED <<rows, lock, req, link, up, arrived, faults>>

(* One configuration after the other, in the order the query returned; the *)
(* first that fails ends the cycle.                                        *)
ApplyNext ==
  /\ working
  /\ \E row \in todo :
       \/ /\ up /\ CanListen(row) /\ link' = Applied(row)
          /\ todo' = todo \ {row} /\ working' = (todo' # {}) /\ UNCHANGED faults
       \/ (~up \/ ~CanListen(row)) /\ todo' = {} /\ working' = FALSE
          /\ UNCHANGED <<link, faults>>
       \/ /\ up /\ Fault /\ todo' = {} /\ working' = FALSE
          /\ link' \in {link, Removed(row)} \cup (IF CanListen(row) THEN {Applied(row)} ELSE {})
  /\ UNCHANGED <<rows, lock, req, up, arrived>>

-----------------------------------------------------------------------------
(* Faults.                                                                 *)

RequestDies(h) ==
  /\ req[h] # Idle /\ Fault /\ End(h)
  /\ UNCHANGED <<rows, link, worker, up, arrived>>

WorkerDies ==
  /\ working /\ Fault /\ todo' = {} /\ working' = FALSE
  /\ UNCHANGED <<rows, lock, req, link, up, arrived>>

AgentFails ==
  /\ up /\ Fault /\ up' = FALSE
  /\ UNCHANGED <<rows, lock, req, link, worker, arrived>>

AgentAnswers ==
  /\ ~up /\ up' = TRUE
  /\ UNCHANGED <<rows, lock, req, link, worker, arrived, faults>>

-----------------------------------------------------------------------------

Init ==
  /\ rows = [i \in Ids |-> None] /\ lock = [i \in Ids |-> None]
  /\ req = [h \in Handlers |-> Idle]
  /\ link = [f \in Ifaces |-> None]
  /\ todo = {} /\ working = FALSE
  /\ up = TRUE /\ arrived = 0 /\ faults = 0

Arrive(h) ==
  \E i \in Ids :
    \/ \E row \in Row : Create(h, i, row)
    \/ \E p \in Ports : Update(h, i, p)
    \/ Sync(h, i) \/ Delete(h, i) \/ Migrate(h, i)

Handle(h) == FlushMigration(h) \/ CallApply(h) \/ CallRemove(h) \/ Commit(h) \/ Rollback(h)

WorkerStep == StartCycle \/ ApplyNext

Next ==
  \/ \E h \in Handlers : Arrive(h) \/ Handle(h) \/ RequestDies(h)
  \/ WorkerStep \/ WorkerDies \/ AgentFails \/ AgentAnswers

Spec == Init /\ [][Next]_vars

(* Requests run to their end, the worker cycles for ever.                  *)
FairSpec == Spec /\ (\A h \in Handlers : WF_vars(Handle(h))) /\ WF_vars(WorkerStep)

-----------------------------------------------------------------------------
(* Properties.                                                             *)

(* The variables have their types; a locked row is one a request is at     *)
(* work on.                                                                *)
TypeOK ==
  /\ rows \in [Ids -> Row \cup {None}]
  /\ lock \in [Ids -> Handlers \cup {None}]
  /\ \A i \in Ids : lock[i] # None => req[lock[i]].id = i
  /\ req \in [Handlers -> [op : {"none", "create", "update", "sync", "delete", "migrate"},
                           pc : {"idle", "flush", "call", "commit", "rollback"},
                           id : Ids \cup {None}, row : Row \cup {None}]]
  /\ link \in [Ifaces -> Ports \cup {None}]
  /\ todo \subseteq Row /\ working = (todo # {})
  /\ up \in BOOLEAN
  /\ arrived \in 0..MaxRequests /\ faults \in 0..MaxFaults

(* No two inbounds of the node have one port, whatever requests and the    *)
(* script write at the same time: the check alone does not see rows that   *)
(* are not committed.                                                      *)
PortsDistinct ==
  \A i, j \in Present : rows[i].port = rows[j].port => i = j

(* Every request is answered: the row locks it waits for are released,     *)
(* however the request that took them ended.                               *)
RequestsAnswered == \A h \in Handlers : req[h] # Idle ~> req[h] = Idle

(* Once the agent answers, the node runs what the rows say: requests       *)
(* rolled back after the node had changed, ports put back by a cycle that  *)
(* read the rows before an update, and interfaces left down by a failed    *)
(* apply are all repaired by the next cycles.  Not so while an interface   *)
(* holds the port of another's row, since the first row that cannot be     *)
(* applied ends every cycle, nor for an interface that two rows name.      *)
Named(f) == {i \in Present : rows[i].iface = f}
Blocked == \E f \in Ifaces, i \in Present : f # rows[i].iface /\ link[f] = rows[i].port
Follows ==
  ~Blocked => \A i \in Present : Named(rows[i].iface) = {i} => link[rows[i].iface] = rows[i].port
NodeFollowsRows == <>[]up => <>[]Follows
=============================================================================
