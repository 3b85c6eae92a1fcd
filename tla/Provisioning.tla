----------------------------- MODULE Provisioning -----------------------------
(***************************************************************************)
(* One node's row and its provisioning tasks: the requests that create and *)
(* delete the node, hand out bootstrap tokens, exchange them and register  *)
(* the agent, and the worker's cycle over the node.  Every request and the *)
(* worker read in one step and commit in a later one; the sessions flush   *)
(* at commit only, so a row lock is taken by SELECT ... FOR UPDATE or by   *)
(* the commit itself, the node's row before the task's.                    *)
(***************************************************************************)
EXTENDS Integers

CONSTANTS
  Handlers,   \* requests in progress at once
  Keys,       \* values of the Idempotency-Key header
  MaxTasks,   \* bound: tasks created
  MaxRequests,\* bound: requests after the node's creation
  MaxFaults,  \* bound: processes that die, agents that go down, calls lost
  None

ASSUME HandlerAssumption == None \notin Handlers /\ "worker" \notin Handlers /\ None # "worker"
ASSUME KeyAssumption == None \notin Keys
ASSUME TaskAssumption == MaxTasks \in Nat /\ MaxRequests \in Nat /\ MaxFaults \in Nat

VARIABLES
  node,    \* the node's row: its state, and whether it has the agent's URL
  tasks,   \* its provisioning tasks
  count,   \* the tasks created so far; the latest is tasks[count]
  owner,   \* who holds the lock of a row: 0 is the node's, t that of task t
  req,     \* the requests
  worker,  \* the worker's cycle
  issued,  \* issued[t]: the agent tokens given out for task t's bootstrap token
  up,      \* whether the agent answers
  arrived, \* the requests so far
  faults

vars == <<node, tasks, count, owner, req, worker, issued, up, arrived, faults>>

TaskIds == 1..MaxTasks
Rows == 0..MaxTasks

NodeStates == {"DISCOVERED", "AUTHENTICATING", "INSTALLING", "SYNCING", "READY", "DEGRADED",
               "PROVISION_FAILED"}
Absent == {"NONE", "DELETED"}
Exists == node.state \notin Absent

(* key is None when the key was made up by the handler from the token.     *)
NoTask == [key |-> None, hash |-> FALSE, state |-> "NONE"]
NewTask(k) == [key |-> k, hash |-> TRUE, state |-> "AUTHENTICATING"]

NoRequest == [op |-> "none", pc |-> "idle", task |-> 0, key |-> None, hash |-> FALSE,
              seen |-> "NONE", goal |-> "NONE"]
NoCycle == [pc |-> "idle", seen |-> "NONE", goal |-> "NONE", task |-> 0, tseen |-> "NONE"]

Fault == faults < MaxFaults /\ faults' = faults + 1

Accept(h, r) ==
  /\ req[h] = NoRequest /\ req' = [req EXCEPT ![h] = r]
  /\ arrived < MaxRequests /\ arrived' = arrived + 1

(* The transaction ends, by commit or rollback, and so does the request.   *)
OnlyNode(h) == [owner EXCEPT ![0] = IF @ = h THEN None ELSE @]
Released(h) == [r \in Rows |-> IF owner[r] = h THEN None ELSE owner[r]]
End(h) == req' = [req EXCEPT ![h] = NoRequest] /\ owner' = Released(h)

(* An UPDATE names the column only if the value differs from the one the   *)
(* session loaded.                                                         *)
After(current, seen, goal) == IF goal = seen THEN current ELSE goal

-----------------------------------------------------------------------------
(* Creation.                                                               *)

CreateNode ==
  /\ node.state = "NONE"
  /\ node' \in [state : {"DISCOVERED"}, url : BOOLEAN]
  /\ UNCHANGED <<tasks, count, owner, req, worker, issued, up, arrived, faults>>

InstallToken ==
  /\ node.state = "NONE" /\ count < MaxTasks
  /\ node' = [state |-> "AUTHENTICATING", url |-> FALSE]
  /\ count' = count + 1 /\ tasks' = [tasks EXCEPT ![count + 1] = NewTask(None)]
  /\ UNCHANGED <<owner, req, worker, issued, up, arrived, faults>>

(* The row is committed INSTALLING, then the script is built: its f-string *)
(* names a Python variable PORT that does not exist, so that every call    *)
(* ends in the exception handler (ssh_provisioner.py:105).                 *)
AutoProvision(h) ==
  /\ node.state = "NONE"
  /\ Accept(h, [NoRequest EXCEPT !.op = "auto", !.pc = "write", !.seen = "INSTALLING",
                                 !.goal = "PROVISION_FAILED"])
  /\ node' = [state |-> "INSTALLING", url |-> FALSE]
  /\ UNCHANGED <<tasks, count, owner, worker, issued, up, faults>>

-----------------------------------------------------------------------------
(* provision (with a key) and bootstrap (without).                         *)

KeyUsed(k) == k # None /\ \E t \in TaskIds : tasks[t].key = k

(* A key already used is answered with its task and changes nothing.       *)
Ask(h, k) ==
  /\ Exists /\ ~KeyUsed(k)
  /\ count < MaxTasks
  /\ Accept(h, [NoRequest EXCEPT !.op = "token", !.pc = "write", !.key = k, !.seen = node.state,
                                 !.goal = "AUTHENTICATING"])
  /\ UNCHANGED <<node, tasks, count, owner, worker, issued, up, faults>>

KeyUnchecked(k) == FALSE

(* The unique constraint on the key refuses a second task.                 *)
Duplicate(k) == KeyUsed(k)

CreateTask(h) ==
  /\ req[h].op = "token" /\ owner[0] = None
  /\ IF Exists /\ count < MaxTasks /\ ~Duplicate(req[h].key)
       THEN /\ count' = count + 1 /\ tasks' = [tasks EXCEPT ![count + 1] = NewTask(req[h].key)]
            /\ node' = [node EXCEPT !.state = After(@, req[h].seen, req[h].goal)]
       ELSE UNCHANGED <<node, tasks, count>>
  /\ End(h)
  /\ UNCHANGED <<worker, issued, up, arrived, faults>>

-----------------------------------------------------------------------------
(* exchange                                                                *)

TaskNotLocked(t) == TRUE
TaskFree(t) == owner[t] = None

(* SELECT ... FOR UPDATE waits, and reads the row as the last commit left  *)
(* it; the node is read without a lock.  The token may be wrong or expired.*)
LockTask(h, t) ==
  /\ Exists /\ t <= count /\ TaskFree(t)
  /\ \E valid \in {FALSE, tasks[t].hash} :
       Accept(h, [NoRequest EXCEPT !.op = "exchange", !.pc = "locked", !.task = t, !.hash = valid,
                                   !.seen = node.state, !.goal = "SYNCING"])
  /\ owner' = [owner EXCEPT ![t] = h]
  /\ UNCHANGED <<node, tasks, count, worker, issued, up, faults>>

Refuse(h) ==
  /\ req[h].pc = "locked" /\ ~req[h].hash
  /\ End(h)
  /\ UNCHANGED <<node, tasks, count, worker, issued, up, arrived, faults>>

Spend(h) ==
  /\ req[h].pc = "locked" /\ req[h].hash /\ owner[0] = None
  /\ LET t == req[h].task IN
       /\ tasks' = [tasks EXCEPT ![t].hash = FALSE, ![t].state = "SYNCING"]
       /\ issued' = [issued EXCEPT ![t] = @ + 1]
  /\ node' = [node EXCEPT !.state = After(@, req[h].seen, req[h].goal)]
  /\ End(h)
  /\ UNCHANGED <<count, worker, up, arrived, faults>>

-----------------------------------------------------------------------------
(* register                                                                *)

Register(h) ==
  /\ Exists /\ \E t \in TaskIds : issued[t] > 0
  /\ Accept(h, [NoRequest EXCEPT !.op = "register", !.pc = "calling", !.seen = node.state])
  /\ UNCHANGED <<node, tasks, count, owner, worker, issued, up, faults>>

(* The control plane calls the agent at the URL it was given.              *)
Healthy(h, goal) == req' = [req EXCEPT ![h].pc = "write", ![h].goal = goal]

CallAgent(h) ==
  /\ req[h].pc = "calling"
  /\ \/ up /\ Healthy(h, "READY") /\ UNCHANGED faults
     \/ ~up /\ Healthy(h, "PROVISION_FAILED") /\ UNCHANGED faults
     \/ up /\ Fault /\ Healthy(h, "PROVISION_FAILED")
  /\ UNCHANGED <<node, tasks, count, owner, worker, issued, up, arrived>>

(* The commits of register and auto-provision; a row deleted meanwhile is  *)
(* an error.                                                               *)
WriteState(h) ==
  /\ req[h].op \in {"register", "auto"} /\ req[h].pc = "write" /\ owner[0] = None
  /\ node' = IF Exists THEN [state |-> After(node.state, req[h].seen, req[h].goal),
                             url |-> node.url \/ req[h].op = "register"]
                       ELSE node
  /\ End(h)
  /\ UNCHANGED <<tasks, count, worker, issued, up, arrived, faults>>

-----------------------------------------------------------------------------
(* delete: the row, and by the foreign key's cascade its tasks.            *)

Delete(h) ==
  /\ Exists
  /\ Accept(h, [NoRequest EXCEPT !.op = "delete", !.pc = "delete"])
  /\ UNCHANGED <<node, tasks, count, owner, worker, issued, up, faults>>

LockNode(h) ==
  /\ req[h].pc = "delete" /\ owner[0] = None
  /\ IF Exists THEN /\ req' = [req EXCEPT ![h].pc = "cascade"]
                    /\ owner' = [owner EXCEPT ![0] = h]
               ELSE End(h)
  /\ UNCHANGED <<node, tasks, count, worker, issued, up, arrived, faults>>

Cascade(h) ==
  /\ req[h].pc = "cascade" /\ \A t \in TaskIds : owner[t] = None
  /\ node' = [state |-> "DELETED", url |-> FALSE]
  /\ tasks' = [t \in TaskIds |-> NoTask]
  /\ End(h)
  /\ UNCHANGED <<count, worker, issued, up, arrived, faults>>

-----------------------------------------------------------------------------
(* The worker.  Its session keeps the node as the cycle first loaded it.   *)

SelectedReady == Exists /\ node.url /\ node.state = "READY"
Selected == Exists /\ node.url /\ node.state # "PROVISION_FAILED"

Cycle(w) == worker' = w

Load ==
  /\ worker = NoCycle /\ Selected
  /\ Cycle([NoCycle EXCEPT !.pc = "collect", !.seen = node.state])
  /\ UNCHANGED <<node, tasks, count, owner, req, issued, up, arrived, faults>>

(* A failed collection commits the node DEGRADED.                          *)
Collect ==
  /\ worker.pc = "collect"
  /\ \/ up /\ Cycle([worker EXCEPT !.pc = "select"]) /\ UNCHANGED <<node, faults>>
     \/ /\ owner[0] = None
        /\ IF up THEN Fault ELSE UNCHANGED faults
        /\ IF Exists
             THEN /\ node' = [node EXCEPT !.state = After(@, worker.seen, "DEGRADED")]
                  /\ Cycle([worker EXCEPT !.pc = "select", !.seen = "DEGRADED"])
             ELSE Cycle(NoCycle) /\ UNCHANGED node
  /\ UNCHANGED <<tasks, count, owner, req, issued, up, arrived>>

LatestByCount == [worker EXCEPT !.task = count + 1,
                                !.tseen = IF count = 0 THEN "NONE" ELSE tasks[count].state]
Latest == [worker EXCEPT !.task = count,
                         !.tseen = IF count = 0 THEN "NONE" ELSE tasks[count].state]

Sync ==
  /\ worker.pc = "select"
  /\ IF ~Selected THEN Cycle(NoCycle) /\ UNCHANGED faults
     ELSE \/ up /\ Cycle([Latest EXCEPT !.pc = "node", !.goal = "READY"]) /\ UNCHANGED faults
          \/ ~up /\ Cycle([worker EXCEPT !.pc = "failed"]) /\ UNCHANGED faults
          \/ up /\ Fault /\ Cycle([worker EXCEPT !.pc = "failed"])
  /\ UNCHANGED <<node, tasks, count, owner, req, issued, up, arrived>>

(* The exception handler rolls back and reads the node again.              *)
Requery ==
  /\ worker.pc = "failed"
  /\ IF Exists THEN Cycle([Latest EXCEPT !.pc = "node", !.goal = "DEGRADED", !.seen = node.state])
               ELSE Cycle(NoCycle)
  /\ UNCHANGED <<node, tasks, count, owner, req, issued, up, arrived, faults>>

(* A commit that fails is handled once; the second ends the cycle.         *)
CommitFails == Cycle(IF worker.goal = "READY" THEN [worker EXCEPT !.pc = "failed"] ELSE NoCycle)

UpdateNode ==
  /\ worker.pc = "node" /\ owner[0] = None
  /\ IF Exists THEN /\ Cycle([worker EXCEPT !.pc = "task"])
                    /\ owner' = [owner EXCEPT ![0] = "worker"]
               ELSE CommitFails /\ UNCHANGED owner
  /\ UNCHANGED <<node, tasks, count, req, issued, up, arrived, faults>>

TaskChanges == worker.task # 0 /\ worker.tseen # worker.goal

UpdateTask ==
  /\ worker.pc = "task" /\ (TaskChanges => owner[worker.task] = None)
  /\ node' = [node EXCEPT !.state = After(@, worker.seen, worker.goal)]
  /\ tasks' = IF TaskChanges THEN [tasks EXCEPT ![worker.task].state = worker.goal] ELSE tasks
  /\ owner' = Released("worker") /\ Cycle(NoCycle)
  /\ UNCHANGED <<count, req, issued, up, arrived, faults>>

-----------------------------------------------------------------------------
(* PostgreSQL finds two transactions that wait for each other, an exchange *)
(* that holds a task and a commit that holds the node, and aborts one.     *)

WantsNode(h) == req[h].pc = "locked" /\ req[h].hash /\ owner[0] # None
WantsTask(h) ==
  \/ owner[0] = "worker" /\ worker.pc = "task" /\ TaskChanges /\ worker.task = req[h].task
  \/ owner[0] \in Handlers \* a deletion wants every task

BreakDeadlock(h) ==
  /\ WantsNode(h) /\ WantsTask(h)
  /\ \/ End(h) /\ UNCHANGED worker
     \/ owner[0] = "worker" /\ CommitFails /\ owner' = Released("worker") /\ UNCHANGED req
     \/ owner[0] \in Handlers /\ End(owner[0]) /\ UNCHANGED worker
  /\ UNCHANGED <<node, tasks, count, issued, up, arrived, faults>>

-----------------------------------------------------------------------------
(* Faults.                                                                 *)

RequestDies(h) ==
  /\ req[h] # NoRequest /\ Fault /\ End(h)
  /\ UNCHANGED <<node, tasks, count, worker, issued, up, arrived>>

WorkerDies ==
  /\ worker # NoCycle /\ Fault /\ Cycle(NoCycle) /\ owner' = Released("worker")
  /\ UNCHANGED <<node, tasks, count, req, issued, up, arrived>>

AgentFails ==
  /\ up /\ Fault /\ up' = FALSE
  /\ UNCHANGED <<node, tasks, count, owner, req, worker, issued, arrived>>

AgentAnswers ==
  /\ ~up /\ up' = TRUE
  /\ UNCHANGED <<node, tasks, count, owner, req, worker, issued, arrived, faults>>

-----------------------------------------------------------------------------

Init ==
  /\ node = [state |-> "NONE", url |-> FALSE]
  /\ tasks = [t \in TaskIds |-> NoTask] /\ count = 0
  /\ owner = [r \in Rows |-> None]
  /\ req = [h \in Handlers |-> NoRequest] /\ worker = NoCycle
  /\ issued = [t \in TaskIds |-> 0]
  /\ up = TRUE /\ arrived = 0 /\ faults = 0

Arrive(h) ==
  \/ AutoProvision(h) \/ Register(h) \/ Delete(h)
  \/ \E k \in Keys \cup {None} : Ask(h, k)
  \/ \E t \in TaskIds : LockTask(h, t)

Handle(h) ==
  \/ CreateTask(h) \/ Refuse(h) \/ Spend(h) \/ CallAgent(h) \/ WriteState(h)
  \/ LockNode(h) \/ Cascade(h)

WorkerStep == Load \/ Collect \/ Sync \/ Requery \/ UpdateNode \/ UpdateTask

Next ==
  \/ CreateNode \/ InstallToken
  \/ \E h \in Handlers : Arrive(h) \/ Handle(h) \/ BreakDeadlock(h) \/ RequestDies(h)
  \/ WorkerStep \/ WorkerDies \/ AgentFails \/ AgentAnswers

Spec == Init /\ [][Next]_vars

(* Requests run to their end and the worker cycles for ever.  PostgreSQL   *)
(* queues the transactions that wait for a row: one that waits while the   *)
(* worker takes and frees it in every cycle gets it, whence the strong     *)
(* fairness.                                                               *)
FairSpec ==
  /\ Spec
  /\ \A h \in Handlers : SF_vars(Handle(h)) /\ WF_vars(BreakDeadlock(h))
  /\ WF_vars(WorkerStep)

-----------------------------------------------------------------------------
(* Properties.                                                             *)

(* The variables have their types; a lock belongs to a request or to the   *)
(* worker at a step that needs it.                                         *)
TypeOK ==
  /\ node \in [state : NodeStates \cup Absent, url : BOOLEAN]
  /\ tasks \in [TaskIds -> [key : Keys \cup {None}, hash : BOOLEAN,
                            state : NodeStates \cup {"NONE"}]]
  /\ count \in Rows
  /\ owner \in [Rows -> Handlers \cup {"worker", None}]
  /\ req \in [Handlers -> [op : {"none", "auto", "token", "exchange", "register", "delete"},
                           pc : {"idle", "write", "locked", "calling", "delete", "cascade"},
                           task : Rows, key : Keys \cup {None}, hash : BOOLEAN,
                           seen : NodeStates \cup {"NONE"}, goal : NodeStates \cup {"NONE"}]]
  /\ worker \in [pc : {"idle", "collect", "select", "failed", "node", "task"},
                 seen : NodeStates \cup {"NONE"}, goal : {"NONE", "READY", "DEGRADED"},
                 task : Rows, tseen : NodeStates \cup {"NONE"}]
  /\ issued \in [TaskIds -> Nat]
  /\ up \in BOOLEAN /\ arrived \in 0..MaxRequests /\ faults \in 0..MaxFaults

(* A lock is held only by a transaction at the step that took it, so that  *)
(* no request and no cycle ends with one.                                  *)
LocksInUse ==
  \A r \in Rows :
    /\ owner[r] = "worker" => r = 0 /\ worker.pc = "task"
    /\ \A h \in Handlers : owner[r] = h =>
         \/ r = 0 /\ req[h].pc = "cascade"
         \/ r = req[h].task /\ req[h].pc = "locked"

(* A bootstrap token is exchanged once, whoever else presents it at the    *)
(* same time and whatever dies in between: one agent token per task        *)
(* (with_for_update, provisioning.py:391).                                 *)
TokenOnce == \A t \in TaskIds : issued[t] <= 1

(* Requests with one Idempotency-Key create one task, also when the second *)
(* looks for the key before the first has committed it.                    *)
OneTaskPerKey ==
  \A s, t \in TaskIds : tasks[s].key = tasks[t].key /\ tasks[s].key # None => s = t

(* Every request is answered: none waits for ever for a row that an        *)
(* exchange, a deletion or the worker's commit holds.                      *)
Answered == \A h \in Handlers : req[h] # NoRequest ~> req[h] = NoRequest

(* A node whose agent answers from some time on settles: READY, with its   *)
(* latest task, unless its registration failed, whatever the worker read   *)
(* before a request changed the row.                                       *)
Settled ==
  Exists /\ node.url => \/ node.state = "PROVISION_FAILED"
                        \/ /\ node.state = "READY"
                           /\ count > 0 => tasks[count].state = "READY"
Settles == <>[]up => <>[]Settled
=============================================================================
