-------------------------- MODULE ProvisioningProofs --------------------------
(***************************************************************************)
(* The safety properties of Provisioning, for every number of requests,    *)
(* tasks, keys and faults.                                                 *)
(***************************************************************************)
EXTENDS Provisioning, TLAPS

RequestType ==
  [op : {"none", "auto", "token", "exchange", "register", "delete"},
   pc : {"idle", "write", "locked", "calling", "delete", "cascade"},
   task : Rows, key : Keys \cup {None}, hash : BOOLEAN,
   seen : NodeStates \cup {"NONE"}, goal : NodeStates \cup {"NONE"}]

CycleType ==
  [pc : {"idle", "collect", "select", "failed", "node", "task"},
   seen : NodeStates \cup {"NONE"}, goal : {"NONE", "READY", "DEGRADED"},
   task : Rows, tseen : NodeStates \cup {"NONE"}]

TaskType == [key : Keys \cup {None}, hash : BOOLEAN, state : NodeStates \cup {"NONE"}]
NodeType == [state : NodeStates \cup Absent, url : BOOLEAN]
Owners == Handlers \cup {"worker", None}

-----------------------------------------------------------------------------
(* Types.                                                                  *)

LEMMA Numbers ==
  /\ MaxTasks \in Nat /\ MaxRequests \in Nat /\ MaxFaults \in Nat
  /\ TaskIds \subseteq Rows /\ 0 \in Rows /\ 0 \notin TaskIds
  /\ \A n \in Rows : n \in Int /\ (n < MaxTasks => n + 1 \in TaskIds)
BY TaskAssumption DEF TaskIds, Rows

LEMMA Constants ==
  /\ NoRequest \in RequestType /\ NoCycle \in CycleType /\ NoTask \in TaskType
  /\ \A k \in Keys \cup {None} : NewTask(k) \in TaskType
BY Numbers DEF RequestType, CycleType, TaskType, NoRequest, NoCycle, NoTask, NewTask, NodeStates

LEMMA StateOf ==
  ASSUME NEW current \in NodeStates \cup Absent, NEW seen, NEW goal \in NodeStates \cup {"NONE"}
  PROVE  After(current, seen, goal) \in NodeStates \cup Absent
BY DEF After, Absent

LEMMA FaultType == faults \in 0..MaxFaults /\ Fault => faults' \in 0..MaxFaults
BY Numbers DEF Fault

LEMMA AcceptType ==
  ASSUME req \in [Handlers -> RequestType], arrived \in 0..MaxRequests,
         NEW h \in Handlers, NEW r \in RequestType, Accept(h, r)
  PROVE  req' \in [Handlers -> RequestType] /\ arrived' \in 0..MaxRequests
BY Numbers DEF Accept

LEMMA EndType ==
  ASSUME req \in [Handlers -> RequestType], owner \in [Rows -> Owners], NEW h \in Handlers, End(h)
  PROVE  req' \in [Handlers -> RequestType] /\ owner' \in [Rows -> Owners]
BY Constants DEF End, Released, Owners

LEMMA ReleasedType ==
  ASSUME owner \in [Rows -> Owners], NEW h
  PROVE  Released(h) \in [Rows -> Owners]
BY DEF Released, Owners

LEMMA TaskUpdate ==
  ASSUME NEW f \in [TaskIds -> TaskType], NEW t, NEW st \in NodeStates \cup {"NONE"}
  PROVE  /\ [f EXCEPT ![t].state = st] \in [TaskIds -> TaskType]
         /\ [f EXCEPT ![t].hash = FALSE, ![t].state = st] \in [TaskIds -> TaskType]
<1>1. ASSUME NEW g \in [TaskIds -> TaskType]
      PROVE  [g EXCEPT ![t].state = st] \in [TaskIds -> TaskType]
  BY DEF TaskType
<1>2. [f EXCEPT ![t].hash = FALSE] \in [TaskIds -> TaskType]
  BY DEF TaskType
<1> DEFINE g == [f EXCEPT ![t].hash = FALSE]
<1>3. [g EXCEPT ![t].state = st] \in [TaskIds -> TaskType]
  BY <1>1, <1>2
<1> QED BY <1>1, <1>3

LEMMA LatestType ==
  ASSUME worker \in CycleType, count \in Rows, tasks \in [TaskIds -> TaskType]
  PROVE  Latest \in CycleType
<1>1. count # 0 => tasks[count].state \in NodeStates \cup {"NONE"}
  <2>1. count # 0 => count \in TaskIds
    BY Numbers DEF Rows, TaskIds
  <2> QED BY <2>1 DEF TaskType
<1> QED BY <1>1 DEF Latest, CycleType

(* TypeOK by groups of variables, so that a step is typed group by group.  *)
RowsOK ==
  /\ node \in NodeType /\ tasks \in [TaskIds -> TaskType] /\ count \in Rows
  /\ issued \in [TaskIds -> Nat]
BoundsOK == up \in BOOLEAN /\ arrived \in 0..MaxRequests /\ faults \in 0..MaxFaults

LEMMA Groups ==
  /\ TypeOK <=> /\ RowsOK /\ owner \in [Rows -> Owners] /\ req \in [Handlers -> RequestType]
                /\ worker \in CycleType /\ BoundsOK
  /\ TypeOK' <=> /\ RowsOK' /\ owner' \in [Rows -> Owners] /\ req' \in [Handlers -> RequestType]
                 /\ worker' \in CycleType /\ BoundsOK'
<1>1. TypeOK <=> /\ RowsOK /\ owner \in [Rows -> Owners] /\ req \in [Handlers -> RequestType]
                 /\ worker \in CycleType /\ BoundsOK
  BY Zenon DEF TypeOK, RowsOK, BoundsOK, NodeType, TaskType, Owners, RequestType, CycleType
<1>2. TypeOK' <=> /\ RowsOK' /\ owner' \in [Rows -> Owners] /\ req' \in [Handlers -> RequestType]
                  /\ worker' \in CycleType /\ BoundsOK'
  BY Zenon DEF TypeOK, RowsOK, BoundsOK, NodeType, TaskType, Owners, RequestType, CycleType
<1> QED BY <1>1, <1>2

LEMMA InitType == Init => TypeOK
<1> SUFFICES ASSUME Init PROVE TypeOK
  OBVIOUS
<1>1. RowsOK
  BY Numbers, Constants DEF Init, RowsOK, NodeType, Absent
<1>2. owner \in [Rows -> Owners] /\ req \in [Handlers -> RequestType] /\ worker \in CycleType
  BY Constants DEF Init, Owners
<1>3. BoundsOK
  BY Numbers DEF Init, BoundsOK
<1> QED BY <1>1, <1>2, <1>3, Groups

(* The actions by what they touch: the requests that read and wait, ...    *)
LEMMA ArriveType ==
  ASSUME TypeOK, NEW h \in Handlers, Arrive(h)
  PROVE  TypeOK'
<1> USE Groups, Numbers
<1>1. CASE AutoProvision(h)
  <2>1. [NoRequest EXCEPT !.op = "auto", !.pc = "write", !.seen = "INSTALLING",
                          !.goal = "PROVISION_FAILED"] \in RequestType
    BY Constants DEF RequestType, NodeStates
  <2>2. req' \in [Handlers -> RequestType] /\ arrived' \in 0..MaxRequests
    BY <1>1, <2>1, AcceptType DEF AutoProvision, BoundsOK
  <2> QED BY <1>1, <2>2 DEF AutoProvision, RowsOK, NodeType, NodeStates, BoundsOK
<1>2. CASE Register(h)
  <2>1. [NoRequest EXCEPT !.op = "register", !.pc = "calling", !.seen = node.state] \in RequestType
    BY <1>2, Constants DEF RequestType, Register, Exists, RowsOK, NodeType
  <2>2. req' \in [Handlers -> RequestType] /\ arrived' \in 0..MaxRequests
    BY <1>2, <2>1, AcceptType DEF Register, BoundsOK
  <2> QED BY <1>2, <2>2 DEF Register, RowsOK, BoundsOK
<1>3. CASE Delete(h)
  <2>1. [NoRequest EXCEPT !.op = "delete", !.pc = "delete"] \in RequestType
    BY Constants DEF RequestType
  <2>2. req' \in [Handlers -> RequestType] /\ arrived' \in 0..MaxRequests
    BY <1>3, <2>1, AcceptType DEF Delete, BoundsOK
  <2> QED BY <1>3, <2>2 DEF Delete, RowsOK, BoundsOK
<1>4. CASE \E k \in Keys \cup {None} : Ask(h, k)
  <2>1. PICK k \in Keys \cup {None} : Ask(h, k)
    BY <1>4
  <2>2. [NoRequest EXCEPT !.op = "token", !.pc = "write", !.key = k, !.seen = node.state,
                          !.goal = "AUTHENTICATING"] \in RequestType
    BY <2>1, Constants DEF RequestType, Ask, Exists, RowsOK, NodeType, NodeStates
  <2>3. req' \in [Handlers -> RequestType] /\ arrived' \in 0..MaxRequests
    BY <2>1, <2>2, AcceptType DEF Ask, BoundsOK
  <2> QED BY <2>1, <2>3 DEF Ask, RowsOK, BoundsOK
<1>5. CASE \E t \in TaskIds : LockTask(h, t)
  <2>1. PICK t \in TaskIds : LockTask(h, t)
    BY <1>5
  <2>2. PICK valid \in {FALSE, tasks[t].hash} :
          Accept(h, [NoRequest EXCEPT !.op = "exchange", !.pc = "locked", !.task = t, !.hash = valid,
                                      !.seen = node.state, !.goal = "SYNCING"])
    BY <2>1 DEF LockTask
  <2> valid \in BOOLEAN
    <3>1. tasks[t] \in TaskType
      BY <2>1 DEF RowsOK
    <3> QED BY <3>1 DEF TaskType
  <2>3. [NoRequest EXCEPT !.op = "exchange", !.pc = "locked", !.task = t, !.hash = valid,
                          !.seen = node.state, !.goal = "SYNCING"] \in RequestType
    BY <2>1, Constants DEF RequestType, LockTask, Exists, RowsOK, NodeType, NodeStates
  <2>4. req' \in [Handlers -> RequestType] /\ arrived' \in 0..MaxRequests
    BY <2>2, <2>3, AcceptType DEF BoundsOK
  <2> QED BY <2>1, <2>4 DEF LockTask, RowsOK, BoundsOK, Owners
<1> QED BY <1>1, <1>2, <1>3, <1>4, <1>5 DEF Arrive

(* ... the requests that write and end, ...                                *)
LEMMA HandleType ==
  ASSUME TypeOK, NEW h \in Handlers, Handle(h) \/ BreakDeadlock(h) \/ RequestDies(h)
  PROVE  TypeOK'
<1> USE Groups, Numbers
<1>1. CASE CreateTask(h)
  <2>1. req' \in [Handlers -> RequestType] /\ owner' \in [Rows -> Owners]
    BY <1>1, EndType DEF CreateTask
  <2>2. NewTask(req[h].key) \in TaskType
    BY Constants DEF RequestType
  <2>3. After(node.state, req[h].seen, req[h].goal) \in NodeStates \cup Absent
    BY StateOf DEF RowsOK, NodeType, RequestType
  <2>4. RowsOK'
    BY <1>1, <2>2, <2>3 DEF CreateTask, RowsOK, NodeType, Rows
  <2> QED BY <1>1, <2>1, <2>4 DEF CreateTask, BoundsOK
<1>2. CASE Refuse(h)
  BY <1>2, EndType DEF Refuse, RowsOK, BoundsOK
<1>3. CASE Spend(h)
  <2>1. req' \in [Handlers -> RequestType] /\ owner' \in [Rows -> Owners]
    BY <1>3, EndType DEF Spend
  <2>2. After(node.state, req[h].seen, req[h].goal) \in NodeStates \cup Absent
    BY StateOf DEF RowsOK, NodeType, RequestType
  <2>3. tasks' \in [TaskIds -> TaskType]
    BY <1>3, TaskUpdate DEF Spend, RowsOK, NodeStates
  <2>4. issued' \in [TaskIds -> Nat]
    <3> DEFINE t == req[h].task
    <3>1. issued' = [issued EXCEPT ![t] = issued[t] + 1]
      BY <1>3 DEF Spend
    <3>2. t \in TaskIds => issued[t] + 1 \in Nat
      BY DEF RowsOK
    <3> HIDE DEF t
    <3> QED BY <3>1, <3>2 DEF RowsOK
  <2>5. RowsOK'
    BY <1>3, <2>2, <2>3, <2>4 DEF Spend, RowsOK, NodeType
  <2> QED BY <1>3, <2>1, <2>5 DEF Spend, BoundsOK
<1>4. CASE CallAgent(h)
  <2>1. req' \in [Handlers -> RequestType]
    BY <1>4 DEF CallAgent, Healthy, RequestType, NodeStates
  <2> QED BY <1>4, <2>1, FaultType DEF CallAgent, RowsOK, BoundsOK
<1>5. CASE WriteState(h)
  <2>1. After(node.state, req[h].seen, req[h].goal) \in NodeStates \cup Absent
    BY StateOf DEF RowsOK, NodeType, RequestType
  <2>2. RowsOK'
    BY <1>5, <2>1 DEF WriteState, RowsOK, NodeType
  <2> QED BY <1>5, <2>2, EndType DEF WriteState, BoundsOK
<1>6. CASE LockNode(h)
  <2>1. CASE Exists
    BY <1>6, <2>1 DEF LockNode, RequestType, Owners, RowsOK, BoundsOK
  <2>2. CASE ~Exists
    BY <1>6, <2>2, EndType DEF LockNode, RowsOK, BoundsOK
  <2> QED BY <2>1, <2>2
<1>7. CASE Cascade(h)
  <2>1. RowsOK'
    BY <1>7, Constants DEF Cascade, RowsOK, NodeType, Absent
  <2> QED BY <1>7, <2>1, EndType DEF Cascade, BoundsOK
<1>8. CASE BreakDeadlock(h)
  <2>1. CASE End(h) /\ UNCHANGED worker
    BY <1>8, <2>1, EndType DEF BreakDeadlock, RowsOK, BoundsOK
  <2>2. CASE CommitFails /\ owner' = Released("worker") /\ UNCHANGED req
    BY <1>8, <2>2, ReleasedType, Constants DEF BreakDeadlock, CommitFails, Cycle, CycleType, RowsOK, BoundsOK
  <2>3. CASE owner[0] \in Handlers /\ End(owner[0]) /\ UNCHANGED worker
    BY <1>8, <2>3, EndType DEF BreakDeadlock, RowsOK, BoundsOK
  <2> QED BY <1>8, <2>1, <2>2, <2>3 DEF BreakDeadlock
<1>9. CASE RequestDies(h)
  BY <1>9, EndType, FaultType DEF RequestDies, RowsOK, BoundsOK
<1> QED BY <1>1, <1>2, <1>3, <1>4, <1>5, <1>6, <1>7, <1>8, <1>9 DEF Handle

(* ... the worker, and what happens by itself.                             *)
LEMMA WorkerType ==
  ASSUME TypeOK, WorkerStep \/ WorkerDies
  PROVE  TypeOK'
<1> USE Groups, Numbers
<1>1. CASE Load
  <2>1. worker' \in CycleType
    BY <1>1, Constants DEF Load, Cycle, CycleType, Selected, Exists, RowsOK, NodeType
  <2> QED BY <1>1, <2>1 DEF Load, RowsOK, BoundsOK
<1>2. CASE Collect
  <2>1. worker' \in CycleType
    BY <1>2, Constants DEF Collect, Cycle, CycleType, NodeStates
  <2>2. After(node.state, worker.seen, "DEGRADED") \in NodeStates \cup Absent
    BY StateOf DEF RowsOK, NodeType, NodeStates
  <2>3. RowsOK'
    BY <1>2, <2>2 DEF Collect, RowsOK, NodeType
  <2> QED BY <1>2, <2>1, <2>3, FaultType DEF Collect, BoundsOK
<1>3. CASE Sync
  <2>1. Latest \in CycleType
    BY LatestType DEF RowsOK
  <2>2. worker' \in CycleType
    BY <1>3, <2>1, Constants DEF Sync, Cycle, CycleType
  <2> QED BY <1>3, <2>2, FaultType DEF Sync, RowsOK, BoundsOK
<1>4. CASE Requery
  <2>1. Latest \in CycleType
    BY LatestType DEF RowsOK
  <2>2. worker' \in CycleType
    BY <1>4, <2>1, Constants DEF Requery, Cycle, CycleType, Exists, RowsOK, NodeType
  <2> QED BY <1>4, <2>2 DEF Requery, RowsOK, BoundsOK
<1>5. CASE UpdateNode
  <2>1. worker' \in CycleType
    BY <1>5, Constants DEF UpdateNode, CommitFails, Cycle, CycleType
  <2> QED BY <1>5, <2>1 DEF UpdateNode, RowsOK, BoundsOK, Owners
<1>6. CASE UpdateTask
  <2>1. After(node.state, worker.seen, worker.goal) \in NodeStates \cup Absent
    BY StateOf DEF RowsOK, NodeType, CycleType, NodeStates
  <2>2. tasks' \in [TaskIds -> TaskType]
    <3>1. worker.goal \in NodeStates \cup {"NONE"}
      BY DEF CycleType, NodeStates
    <3> QED BY <1>6, <3>1, TaskUpdate DEF UpdateTask, RowsOK
  <2>3. RowsOK'
    BY <1>6, <2>1, <2>2 DEF UpdateTask, RowsOK, NodeType
  <2> QED BY <1>6, <2>3, ReleasedType, Constants DEF UpdateTask, Cycle, BoundsOK
<1>7. CASE WorkerDies
  BY <1>7, ReleasedType, Constants, FaultType DEF WorkerDies, Cycle, RowsOK, BoundsOK
<1> QED BY <1>1, <1>2, <1>3, <1>4, <1>5, <1>6, <1>7 DEF WorkerStep

LEMMA NextType == TypeOK /\ [Next]_vars => TypeOK'
<1> SUFFICES ASSUME TypeOK, [Next]_vars PROVE TypeOK'
  OBVIOUS
<1> USE Groups, Numbers
<1>1. CASE CreateNode
  BY <1>1 DEF CreateNode, RowsOK, NodeType, NodeStates, BoundsOK
<1>2. CASE InstallToken
  <2>1. NewTask(None) \in TaskType
    BY Constants
  <2>2. RowsOK'
    BY <1>2, <2>1 DEF InstallToken, RowsOK, NodeType, NodeStates, Rows
  <2> QED BY <1>2, <2>2 DEF InstallToken, BoundsOK
<1>3. CASE \E h \in Handlers : Arrive(h) \/ Handle(h) \/ BreakDeadlock(h) \/ RequestDies(h)
  BY <1>3, ArriveType, HandleType
<1>4. CASE WorkerStep \/ WorkerDies
  BY <1>4, WorkerType
<1>5. CASE AgentFails \/ AgentAnswers
  BY <1>5, FaultType DEF AgentFails, AgentAnswers, RowsOK, BoundsOK
<1>6. CASE UNCHANGED vars
  BY <1>6 DEF vars, RowsOK, BoundsOK
<1> QED BY <1>1, <1>2, <1>3, <1>4, <1>5, <1>6 DEF Next

(* The variables of Provisioning have their types (TypeOK).                *)
THEOREM TypeCorrect == Spec => []TypeOK
<1> QED BY InitType, NextType, PTL DEF Spec

-----------------------------------------------------------------------------
(* Locks.                                                                  *)

LEMMA FreshOwnsNothing ==
  ASSUME TypeOK, LocksInUse, NEW h \in Handlers, req[h] = NoRequest, NEW r \in Rows
  PROVE  owner[r] # h
BY DEF LocksInUse, NoRequest

(* A request that ends holds nothing, and nobody else's lock changes.      *)
LEMMA EndLocks ==
  ASSUME TypeOK, LocksInUse, NEW h \in Handlers, End(h), UNCHANGED worker
  PROVE  LocksInUse'
<1>1. \A r \in Rows : owner'[r] = (IF owner[r] = h THEN None ELSE owner[r])
  BY DEF End, Released
<1>2. \A g \in Handlers \ {h} : req'[g] = req[g]
  BY DEF End, TypeOK
<1>3. None \notin Handlers /\ None # "worker" /\ "worker" \notin Handlers
  BY HandlerAssumption
<1> QED BY <1>1, <1>2, <1>3 DEF LocksInUse

LEMMA AcceptLocks ==
  ASSUME TypeOK, LocksInUse, NEW h \in Handlers, NEW r, Accept(h, r), UNCHANGED <<owner, worker>>
  PROVE  LocksInUse'
<1>1. \A q \in Rows : owner[q] # h
  BY FreshOwnsNothing DEF Accept
<1>2. \A g \in Handlers \ {h} : req'[g] = req[g]
  BY DEF Accept, TypeOK
<1> QED BY <1>1, <1>2 DEF LocksInUse

LEMMA WorkerReleases ==
  ASSUME TypeOK, LocksInUse, owner' = Released("worker"), UNCHANGED req
  PROVE  LocksInUse'
<1>1. \A r \in Rows : owner'[r] = (IF owner[r] = "worker" THEN None ELSE owner[r])
  BY DEF Released
<1> QED BY <1>1, HandlerAssumption DEF LocksInUse

LEMMA WorkerGoesOn ==
  ASSUME TypeOK, LocksInUse, worker.pc # "task", UNCHANGED <<owner, req>>
  PROVE  LocksInUse'
BY DEF LocksInUse

LEMMA NextLocks == TypeOK /\ LocksInUse /\ [Next]_vars => LocksInUse'
<1> SUFFICES ASSUME TypeOK, LocksInUse, [Next]_vars PROVE LocksInUse'
  OBVIOUS
<1>1. CASE CreateNode \/ InstallToken \/ AgentFails \/ AgentAnswers \/ UNCHANGED vars
  BY <1>1 DEF CreateNode, InstallToken, AgentFails, AgentAnswers, vars, LocksInUse
<1>2. ASSUME NEW h \in Handlers, Arrive(h)
      PROVE  LocksInUse'
  <2>1. CASE AutoProvision(h) \/ Register(h) \/ Delete(h) \/ \E k \in Keys \cup {None} : Ask(h, k)
    BY <2>1, AcceptLocks DEF AutoProvision, Register, Delete, Ask
  <2>2. CASE \E t \in TaskIds : LockTask(h, t)
    <3>1. PICK t \in TaskIds : LockTask(h, t)
      BY <2>2
    <3>2. \A r \in Rows : owner[r] # h
      BY <3>1, FreshOwnsNothing DEF LockTask, Accept
    <3>3. req'[h].task = t /\ req'[h].pc = "locked"
      BY <3>1 DEF LockTask, Accept, TypeOK, NoRequest
    <3>4. \A g \in Handlers \ {h} : req'[g] = req[g]
      BY <3>1 DEF LockTask, Accept, TypeOK
    <3>5. UNCHANGED worker /\ \A r \in Rows : owner'[r] = (IF r = t THEN h ELSE owner[r])
      BY <3>1, Numbers DEF LockTask, TypeOK
    <3> QED BY <3>2, <3>3, <3>4, <3>5, HandlerAssumption DEF LocksInUse
  <2> QED BY <1>2, <2>1, <2>2 DEF Arrive
<1>3. ASSUME NEW h \in Handlers, Handle(h)
      PROVE  LocksInUse'
  <2>1. CASE CreateTask(h) \/ Refuse(h) \/ Spend(h) \/ WriteState(h) \/ Cascade(h)
    BY <2>1, EndLocks DEF CreateTask, Refuse, Spend, WriteState, Cascade
  <2>2. CASE CallAgent(h)
    <3>1. \A r \in Rows : owner[r] # h
      BY <2>2 DEF CallAgent, LocksInUse
    <3>2. \A g \in Handlers \ {h} : req'[g] = req[g]
      BY <2>2 DEF CallAgent, Healthy, TypeOK
    <3> QED BY <2>2, <3>1, <3>2 DEF CallAgent, LocksInUse
  <2>3. CASE LockNode(h)
    <3>1. CASE ~Exists
      BY <2>3, <3>1, EndLocks DEF LockNode
    <3>2. CASE Exists
      <4>1. \A r \in Rows : owner[r] # h
        BY <2>3 DEF LockNode, LocksInUse
      <4>2. req'[h].pc = "cascade" /\ \A g \in Handlers \ {h} : req'[g] = req[g]
        BY <2>3, <3>2 DEF LockNode, TypeOK
      <4>3. UNCHANGED worker /\ \A r \in Rows : owner'[r] = (IF r = 0 THEN h ELSE owner[r])
        BY <2>3, <3>2, Numbers DEF LockNode, TypeOK
      <4> QED BY <4>1, <4>2, <4>3, HandlerAssumption DEF LocksInUse
    <3> QED BY <3>1, <3>2
  <2> QED BY <1>3, <2>1, <2>2, <2>3 DEF Handle
<1>4. ASSUME NEW h \in Handlers, BreakDeadlock(h) \/ RequestDies(h)
      PROVE  LocksInUse'
  <2>1. CASE RequestDies(h)
    BY <2>1, EndLocks DEF RequestDies
  <2>2. CASE BreakDeadlock(h)
    BY <2>2, EndLocks, WorkerReleases DEF BreakDeadlock
  <2> QED BY <1>4, <2>1, <2>2
<1>5. CASE Load \/ Collect \/ Sync \/ Requery
  <2>1. worker.pc # "task" /\ UNCHANGED <<owner, req>>
    BY <1>5 DEF Load, Collect, Sync, Requery, NoCycle
  <2> QED BY <2>1, WorkerGoesOn
<1>6. CASE UpdateNode
  <2>1. CASE Exists
    <3>1. UNCHANGED req /\ worker'.pc = "task"
      BY <1>6, <2>1 DEF UpdateNode, Cycle, TypeOK
    <3>2. \A r \in Rows : owner'[r] = (IF r = 0 THEN "worker" ELSE owner[r])
      BY <1>6, <2>1, Numbers DEF UpdateNode, TypeOK
    <3> QED BY <3>1, <3>2, HandlerAssumption DEF LocksInUse
  <2>2. CASE ~Exists
    BY <1>6, <2>2, WorkerGoesOn DEF UpdateNode
  <2> QED BY <2>1, <2>2
<1>7. CASE UpdateTask \/ WorkerDies
  BY <1>7, WorkerReleases DEF UpdateTask, WorkerDies
<1> QED BY <1>1, <1>2, <1>3, <1>4, <1>5, <1>6, <1>7 DEF Next, WorkerStep

(* No lock outlives the transaction that took it, nor is it held at a step *)
(* that does not need it: an abandoned lock would stop every later         *)
(* exchange, deletion and worker cycle of the node (LocksInUse).           *)
THEOREM LocksReleased == Spec => []LocksInUse
<1>1. Init => LocksInUse
  BY HandlerAssumption DEF Init, LocksInUse
<1> QED BY <1>1, InitType, NextType, NextLocks, PTL DEF Spec

-----------------------------------------------------------------------------
(* Tokens.                                                                 *)

(* A task for which an agent token was given out has no bootstrap token    *)
(* left; one that is not created has neither; a request about to exchange  *)
(* a token has locked its task, and the token is still there.              *)
TasksInv ==
  \A t \in TaskIds : /\ issued[t] <= 1 /\ (issued[t] = 1 => ~tasks[t].hash)
                     /\ t > count => issued[t] = 0
Locked(h) ==
  req[h].pc = "locked" => /\ req[h].op = "exchange"
                          /\ req[h].task \in TaskIds /\ req[h].task <= count
                          /\ owner[req[h].task] = h
                          /\ req[h].hash => tasks[req[h].task].hash
LockedInv == \A h \in Handlers : Locked(h)

Inv == TypeOK /\ LocksInUse /\ TasksInv /\ LockedInv

LEMMA LockedKept ==
  ASSUME TypeOK, LockedInv, NEW g \in Handlers, req'[g] = req[g],
         count' \in Rows, count' >= count,
         \A r \in Rows : owner[r] = g => owner'[r] = g,
         \A t \in TaskIds : t <= count /\ owner[t] = g /\ tasks[t].hash => tasks'[t].hash
  PROVE  Locked(g)'
<1>1. Locked(g) /\ count \in Int /\ count' \in Int
  BY Numbers DEF LockedInv, TypeOK
<1>2. \A t \in TaskIds : t \in Rows /\ t \in Int
  BY Numbers
<1> QED BY <1>1, <1>2 DEF Locked

(* A step of one request: the others keep what they locked.                *)
LEMMA OthersKeep ==
  ASSUME TypeOK, LockedInv, NEW h \in Handlers,
         \A g \in Handlers \ {h} : req'[g] = req[g],
         \A g \in Handlers \ {h}, r \in Rows : owner[r] = g => owner'[r] = g,
         count' \in Rows, count' >= count,
         \A g \in Handlers \ {h}, t \in TaskIds : t <= count /\ owner[t] = g /\ tasks[t].hash => tasks'[t].hash,
         Locked(h)'
  PROVE  LockedInv'
<1> SUFFICES ASSUME NEW g \in Handlers PROVE Locked(g)'
  BY DEF LockedInv
<1>1. CASE g = h
  BY <1>1
<1>2. CASE g # h
  BY <1>2, LockedKept
<1> QED BY <1>1, <1>2

LEMMA EndKeeps ==
  ASSUME TypeOK, NEW h \in Handlers, End(h)
  PROVE  /\ req'[h].pc # "locked"
         /\ \A g \in Handlers \ {h} : req'[g] = req[g]
         /\ \A g \in Handlers \ {h}, r \in Rows : owner[r] = g => owner'[r] = g
BY DEF End, Released, TypeOK, NoRequest

(* A request that ends and leaves the tasks alone.                         *)
LEMMA EndLocked ==
  ASSUME Inv, NEW h \in Handlers, End(h), UNCHANGED <<tasks, count, issued>>
  PROVE  TasksInv' /\ LockedInv'
<1>1. TasksInv'
  BY DEF Inv, TasksInv
<1>2. count' \in Rows /\ count' >= count
  BY Numbers DEF Inv, TypeOK
<1>3. LockedInv'
  BY <1>2, EndKeeps, OthersKeep DEF Inv, Locked
<1> QED BY <1>1, <1>3

LEMMA AcceptLocked ==
  ASSUME Inv, NEW h \in Handlers, NEW r \in RequestType, r.pc # "locked", Accept(h, r),
         UNCHANGED <<tasks, count, issued, owner>>
  PROVE  TasksInv' /\ LockedInv'
<1>1. TasksInv'
  BY DEF Inv, TasksInv
<1>2. req'[h].pc # "locked" /\ \A g \in Handlers \ {h} : req'[g] = req[g]
  BY DEF Accept, Inv, TypeOK
<1>3. count' \in Rows /\ count' >= count
  BY Numbers DEF Inv, TypeOK
<1>4. LockedInv'
  BY <1>2, <1>3, OthersKeep DEF Inv, Locked
<1> QED BY <1>1, <1>4

(* A step of the worker, or of nobody: no task loses its token.            *)
LEMMA WorkerLocked ==
  ASSUME Inv, UNCHANGED <<req, count, issued>>,
         \A g \in Handlers, r \in Rows : owner[r] = g => owner'[r] = g,
         \A t \in TaskIds : tasks'[t].hash = tasks[t].hash
  PROVE  TasksInv' /\ LockedInv'
<1>1. TasksInv'
  BY DEF Inv, TasksInv
<1>2. count' \in Rows /\ count' >= count
  BY Numbers DEF Inv, TypeOK
<1>3. LockedInv'
  BY <1>2, LockedKept DEF Inv, LockedInv
<1> QED BY <1>1, <1>3

LEMMA ReleasedKeeps ==
  ASSUME TypeOK, owner' = Released("worker")
  PROVE  \A g \in Handlers, r \in Rows : owner[r] = g => owner'[r] = g
BY HandlerAssumption DEF Released

LEMMA ArriveLocked ==
  ASSUME Inv, NEW h \in Handlers, Arrive(h)
  PROVE  TasksInv' /\ LockedInv'
<1>1. CASE AutoProvision(h)
  BY <1>1, AcceptLocked, Constants DEF AutoProvision, RequestType, NodeStates, NoRequest
<1>2. CASE Register(h)
  <2>1. node.state \in NodeStates
    BY <1>2 DEF Register, Exists, Inv, TypeOK
  <2> QED BY <1>2, <2>1, AcceptLocked, Constants DEF Register, RequestType, NoRequest
<1>3. CASE Delete(h)
  BY <1>3, AcceptLocked, Constants DEF Delete, RequestType, NoRequest
<1>4. CASE \E k \in Keys \cup {None} : Ask(h, k)
  <2>1. PICK k \in Keys \cup {None} : Ask(h, k)
    BY <1>4
  <2>2. node.state \in NodeStates
    BY <2>1 DEF Ask, Exists, Inv, TypeOK
  <2> QED BY <2>1, <2>2, AcceptLocked, Constants DEF Ask, RequestType, NodeStates, NoRequest
<1>5. CASE \E t \in TaskIds : LockTask(h, t)
  <2>1. PICK t \in TaskIds : LockTask(h, t)
    BY <1>5
  <2>2. TypeOK /\ \A r \in Rows : owner[r] # h
    BY <2>1, FreshOwnsNothing DEF LockTask, Accept, Inv
  <2>3. /\ req'[h].task = t /\ req'[h].op = "exchange" /\ req'[h].hash \in {FALSE, tasks[t].hash}
        /\ \A g \in Handlers \ {h} : req'[g] = req[g]
    <3>1. PICK r : /\ req' = [req EXCEPT ![h] = r] /\ r.task = t /\ r.op = "exchange"
                   /\ r.hash \in {FALSE, tasks[t].hash}
      <4> DEFINE Rec(valid) == [NoRequest EXCEPT !.op = "exchange", !.pc = "locked", !.task = t,
                                  !.hash = valid, !.seen = node.state, !.goal = "SYNCING"]
      <4>1. PICK valid \in {FALSE, tasks[t].hash} : Accept(h, Rec(valid))
        BY <2>1 DEF LockTask
      <4>2. Rec(valid).task = t /\ Rec(valid).op = "exchange" /\ Rec(valid).hash = valid
        BY Constants DEF RequestType
      <4> HIDE DEF Rec
      <4> QED BY <4>1, <4>2 DEF Accept
    <3> QED BY <2>2, <3>1 DEF TypeOK
  <2>4. \A r \in Rows : owner'[r] = (IF r = t THEN h ELSE owner[r])
    BY <2>1, <2>2, Numbers DEF LockTask, TypeOK
  <2>5. t <= count /\ owner[t] = None /\ UNCHANGED <<tasks, count, issued>>
    BY <2>1 DEF LockTask, TaskFree
  <2>6. count' \in Rows /\ count' >= count
    BY <2>2, <2>5, Numbers DEF TypeOK
  <2>7. Locked(h)'
    BY <2>3, <2>4, <2>5, Numbers DEF Locked
  <2>8. TasksInv'
    BY <2>5 DEF Inv, TasksInv
  <2> QED BY <2>2, <2>3, <2>4, <2>5, <2>6, <2>7, <2>8, OthersKeep, HandlerAssumption DEF Inv
<1> QED BY <1>1, <1>2, <1>3, <1>4, <1>5 DEF Arrive

LEMMA HandleLocked ==
  ASSUME Inv, NEW h \in Handlers, Handle(h)
  PROVE  TasksInv' /\ LockedInv'
<1> USE DEF Inv
<1>1. CASE CreateTask(h)
  <2>1. CASE UNCHANGED <<node, tasks, count>>
    BY <1>1, <2>1, EndLocked DEF CreateTask
  <2>2. CASE count < MaxTasks /\ count' = count + 1 /\ tasks' = [tasks EXCEPT ![count + 1] = NewTask(req[h].key)]
    <3>1. count + 1 \in TaskIds /\ count' \in Rows /\ count' > count /\ count \in Int
      BY <2>2, Numbers DEF TypeOK, Rows, TaskIds
    <3>2. \A t \in TaskIds : t <= count => tasks'[t] = tasks[t]
      BY <2>2, <3>1 DEF TypeOK
    <3>3. TasksInv'
      BY <1>1, <2>2, <3>1, Numbers DEF CreateTask, TasksInv, TypeOK
    <3>4. LockedInv'
      BY <1>1, <3>1, <3>2, EndKeeps, OthersKeep DEF CreateTask, Locked
    <3> QED BY <3>3, <3>4
  <2> QED BY <1>1, <2>1, <2>2 DEF CreateTask
<1>2. CASE Refuse(h) \/ WriteState(h)
  BY <1>2, EndLocked DEF Refuse, WriteState
<1>3. CASE Spend(h)
  <2> DEFINE t == req[h].task
  <2>1. t \in TaskIds /\ t <= count /\ owner[t] = h /\ tasks[t].hash
    BY <1>3 DEF Spend, LockedInv, Locked
  <2>3. /\ issued' = [issued EXCEPT ![t] = issued[t] + 1] /\ End(h) /\ UNCHANGED count
        /\ tasks' = [tasks EXCEPT ![t].hash = FALSE, ![t].state = "SYNCING"]
    BY <1>3 DEF Spend
  <2> HIDE DEF t
  <2>2. issued[t] = 0
    <3>1. issued[t] \in Nat
      BY <2>1 DEF TypeOK
    <3>2. issued[t] <= 1 /\ issued[t] # 1
      BY <2>1 DEF TasksInv
    <3> QED BY <3>1, <3>2
  <2>4. ~tasks'[t].hash /\ \A u \in TaskIds \ {t} : tasks'[u] = tasks[u]
    BY <2>1, <2>3 DEF TypeOK
  <2>5. TasksInv'
    BY <2>1, <2>2, <2>3, <2>4, Numbers DEF TasksInv, TypeOK
  <2>6. count' \in Rows /\ count' >= count
    BY <2>3, Numbers DEF TypeOK
  <2>7. Locked(h)'
    BY <2>3, EndKeeps DEF Locked
  <2>8. LockedInv'
    BY <2>1, <2>3, <2>4, <2>6, <2>7, EndKeeps, OthersKeep
  <2> QED BY <2>5, <2>8
<1>4. CASE CallAgent(h) \/ (LockNode(h) /\ Exists)
  <2>1. req'[h].pc # "locked" /\ (\A g \in Handlers \ {h} : req'[g] = req[g])
        /\ UNCHANGED <<tasks, count, issued>>
    BY <1>4 DEF CallAgent, Healthy, LockNode, TypeOK
  <2>2. \A g \in Handlers \ {h}, r \in Rows : owner[r] = g => owner'[r] = g
    BY <1>4, HandlerAssumption DEF CallAgent, LockNode, TypeOK
  <2>3. count' \in Rows /\ count' >= count /\ TasksInv'
    BY <2>1, Numbers DEF TypeOK, TasksInv
  <2> QED BY <2>1, <2>2, <2>3, OthersKeep DEF Locked
<1>5. CASE LockNode(h) /\ ~Exists
  BY <1>5, EndLocked DEF LockNode
<1>6. CASE Cascade(h)
  <2>1. \A g \in Handlers : req[g].pc # "locked"
    BY <1>6, HandlerAssumption DEF Cascade, LockedInv, Locked
  <2>2. \A g \in Handlers : req'[g].pc # "locked"
    BY <1>6, <2>1, EndKeeps DEF Cascade
  <2>3. TasksInv'
    BY <1>6 DEF Cascade, TasksInv, NoTask
  <2> QED BY <2>2, <2>3 DEF LockedInv, Locked
<1> QED BY <1>1, <1>2, <1>3, <1>4, <1>5, <1>6 DEF Handle

LEMMA NextLocked == Inv /\ [Next]_vars => TasksInv' /\ LockedInv'
<1> SUFFICES ASSUME Inv, [Next]_vars PROVE TasksInv' /\ LockedInv'
  OBVIOUS
<1>1. CASE CreateNode \/ AgentFails \/ AgentAnswers \/ UNCHANGED vars
  BY <1>1, WorkerLocked DEF CreateNode, AgentFails, AgentAnswers, vars
<1>2. CASE InstallToken
  <2>1. count + 1 \in TaskIds /\ count' \in Rows /\ count' > count /\ count \in Int
    BY <1>2, Numbers DEF InstallToken, Inv, TypeOK, Rows, TaskIds
  <2>2. \A t \in TaskIds : t <= count => tasks'[t] = tasks[t]
    BY <1>2, <2>1 DEF InstallToken, Inv, TypeOK
  <2>3. TasksInv'
    BY <1>2, <2>1, Numbers DEF InstallToken, Inv, TasksInv, TypeOK
  <2>4. LockedInv'
    BY <1>2, <2>1, <2>2, LockedKept DEF InstallToken, Inv, LockedInv
  <2> QED BY <2>3, <2>4
<1>3. ASSUME NEW h \in Handlers, Arrive(h) \/ Handle(h) \/ RequestDies(h)
      PROVE  TasksInv' /\ LockedInv'
  BY <1>3, ArriveLocked, HandleLocked, EndLocked DEF RequestDies
<1>4. ASSUME NEW h \in Handlers, BreakDeadlock(h)
      PROVE  TasksInv' /\ LockedInv'
  <2>1. CASE End(h)
    BY <1>4, <2>1, EndLocked DEF BreakDeadlock
  <2>2. CASE owner' = Released("worker") /\ UNCHANGED req
    BY <1>4, <2>2, ReleasedKeeps, WorkerLocked DEF BreakDeadlock, Inv
  <2>3. CASE owner[0] \in Handlers /\ End(owner[0])
    BY <1>4, <2>3, EndLocked DEF BreakDeadlock
  <2> QED BY <1>4, <2>1, <2>2, <2>3 DEF BreakDeadlock
<1>5. CASE Load \/ Collect \/ Sync \/ Requery
  BY <1>5, WorkerLocked DEF Load, Collect, Sync, Requery
<1>6. CASE UpdateNode
  <2>1. \A g \in Handlers, r \in Rows : owner[r] = g => owner'[r] = g
    BY <1>6, HandlerAssumption DEF UpdateNode, Inv, TypeOK
  <2> QED BY <1>6, <2>1, WorkerLocked DEF UpdateNode
<1>7. CASE UpdateTask \/ WorkerDies
  <2>1. \A t \in TaskIds : tasks'[t].hash = tasks[t].hash
    BY <1>7 DEF UpdateTask, WorkerDies, Inv, TypeOK
  <2> QED BY <1>7, <2>1, ReleasedKeeps, WorkerLocked DEF UpdateTask, WorkerDies, Inv
<1> QED BY <1>1, <1>2, <1>3, <1>4, <1>5, <1>6, <1>7 DEF Next, WorkerStep

LEMMA InitLocked == Init => TasksInv /\ LockedInv
BY DEF Init, TasksInv, LockedInv, Locked, NoRequest

LEMMA InvHolds == Spec => []Inv
<1>1. Init => Inv
  BY InitType, InitLocked, HandlerAssumption DEF Init, Inv, LocksInUse
<1>2. Inv /\ [Next]_vars => Inv'
  BY NextType, NextLocks, NextLocked DEF Inv
<1> QED BY <1>1, <1>2, PTL DEF Spec

(* One bootstrap token gives at most one agent token, however many         *)
(* exchanges present it at once and whatever dies in between (TokenOnce).  *)
THEOREM TokenGivenOnce == Spec => []TokenOnce
<1>1. Inv => TokenOnce
  BY DEF Inv, TasksInv, TokenOnce
<1> QED BY <1>1, InvHolds, PTL

-----------------------------------------------------------------------------
(* Keys.                                                                   *)

LEMMA NewTaskKey ==
  ASSUME TypeOK, OneTaskPerKey, NEW k, k = None \/ ~KeyUsed(k), count < MaxTasks,
         tasks' = [tasks EXCEPT ![count + 1] = NewTask(k)]
  PROVE  OneTaskPerKey'
<1>1. count + 1 \in TaskIds
  BY Numbers DEF TypeOK
<1>2. \A t \in TaskIds : tasks'[t].key = (IF t = count + 1 THEN k ELSE tasks[t].key)
  BY <1>1 DEF TypeOK, NewTask
<1>3. k # None => \A t \in TaskIds : tasks[t].key # k
  BY DEF KeyUsed
<1> QED BY <1>2, <1>3 DEF OneTaskPerKey

LEMMA NextKeys == TypeOK /\ OneTaskPerKey /\ [Next]_vars => OneTaskPerKey'
<1> SUFFICES ASSUME TypeOK, OneTaskPerKey, [Next]_vars PROVE OneTaskPerKey'
  OBVIOUS
<1>1. CASE InstallToken
  BY <1>1, NewTaskKey DEF InstallToken
<1>2. ASSUME NEW h \in Handlers, CreateTask(h)
      PROVE  OneTaskPerKey'
  <2>1. CASE UNCHANGED tasks
    BY <2>1 DEF OneTaskPerKey
  <2> QED BY <1>2, <2>1, NewTaskKey DEF CreateTask, Duplicate
<1>3. ASSUME NEW h \in Handlers, Cascade(h)
      PROVE  OneTaskPerKey'
  BY <1>3 DEF Cascade, OneTaskPerKey, NoTask
<1>4. ASSUME \A t \in TaskIds : tasks'[t].key = tasks[t].key
      PROVE  OneTaskPerKey'
  BY <1>4 DEF OneTaskPerKey
<1>5. ASSUME NEW h \in Handlers, Spend(h)
      PROVE  \A t \in TaskIds : tasks'[t].key = tasks[t].key
  BY <1>5 DEF Spend, TypeOK
<1>6. CASE UpdateTask
  BY <1>4, <1>6 DEF UpdateTask, TypeOK
<1>7. CASE UNCHANGED tasks
  BY <1>4, <1>7
<1>8. ASSUME NEW h \in Handlers, Arrive(h) \/ Handle(h) \/ BreakDeadlock(h) \/ RequestDies(h)
      PROVE  CreateTask(h) \/ Cascade(h) \/ Spend(h) \/ UNCHANGED tasks
  BY <1>8 DEF Arrive, Handle, AutoProvision, Register, Delete, Ask, LockTask, Refuse, CallAgent,
     WriteState, LockNode, BreakDeadlock, RequestDies
<1>9. CreateNode \/ WorkerStep \/ WorkerDies \/ AgentFails \/ AgentAnswers \/ UNCHANGED vars
        => UpdateTask \/ UNCHANGED tasks
  BY DEF CreateNode, WorkerStep, Load, Collect, Sync, Requery, UpdateNode, WorkerDies, AgentFails,
     AgentAnswers, vars
<1> QED BY <1>1, <1>2, <1>3, <1>4, <1>5, <1>6, <1>7, <1>8, <1>9 DEF Next

(* One Idempotency-Key, one task: the constraint on the column closes the  *)
(* gap between the look-up and the insertion (OneTaskPerKey).              *)
THEOREM KeyIdempotent == Spec => []OneTaskPerKey
<1>1. Init => OneTaskPerKey
  BY DEF Init, OneTaskPerKey, NoTask
<1> QED BY <1>1, InitType, NextType, NextKeys, PTL DEF Spec
=============================================================================
