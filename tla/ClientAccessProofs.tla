------------------------- MODULE ClientAccessProofs -------------------------
(***************************************************************************)
(* Proofs about ClientAccess, for any number of clients, keys, requests    *)
(* and faults.                                                             *)
(***************************************************************************)
EXTENDS ClientAccess, TLAPS

(* The program counter fits the operation, and a busy request has a client.*)
Shaped(q) ==
  /\ q.pc \in Calling \cup {"lock", "render"} => q.op = "issue"
  /\ q.op = "issue" => q.pc \in TxnSteps \cup {"lock"}
  /\ q.op # "idle" => q.client \in Clients
  /\ q.pc = "idle" <=> q.op = "idle"
  /\ q.keyed = "new" => q.op = "issue" /\ q.pc \in TxnSteps /\ q.key \in Keys

ShapeInv == \A r \in Requests : Shaped(req[r])

(* The inbound row is locked by exactly the request whose transaction is   *)
(* open, so at most one issue request is past its lock.                    *)
LockInv == \A r \in Requests : InTxn(r) <=> lock = r

(* While a request carries a new key pair its client still holds none, the *)
(* key is nobody's, and once flushed the client row stays.                 *)
FreshInv ==
  \A r \in Requests : InTxn(r) /\ req[r].keyed = "new" =>
    /\ req[r].key \in spent
    /\ live[req[r].client] = {}
    /\ \A c \in Clients : req[r].key \notin live[c]
    /\ Flushed(r) => Exists(req[r].client)

SpentInv == \A c \in Clients : live[c] \subseteq spent

Core == ShapeInv /\ LockInv /\ FreshInv /\ SpentInv
          /\ OneLiveCredential /\ NoOrphanCredential

IInv == TypeOK /\ Core

-----------------------------------------------------------------------------
(* The initial state satisfies the invariant.                              *)
LEMMA InitInv == Init => IInv
<1> SUFFICES ASSUME Init PROVE IInv
  OBVIOUS
<1> USE DEF Init, Idle
<1>1. TypeOK
  BY BoundAssumption DEF TypeOK, RequestType, WorkerType, CallType, Rest, NoMarks, Marks, NoCall,
     Statuses, Procs, TxnSteps, Calling
<1>2. ShapeInv
  BY DEF ShapeInv, Shaped, TxnSteps, Calling
<1>3. LockInv /\ FreshInv
  BY ProcessAssumption DEF LockInv, FreshInv, InTxn
<1>4. SpentInv /\ OneLiveCredential /\ NoOrphanCredential
  BY DEF SpentInv, OneLiveCredential, NoOrphanCredential
<1> QED
  BY <1>1, <1>2, <1>3, <1>4 DEF IInv, Core

-----------------------------------------------------------------------------
(* Every step keeps the variables in their sets.                           *)

LEMMA CallTypes ==
  ASSUME TypeOK, NEW p \in Procs, NEW op \in {"apply", "check", "remove", "revoke", "health"},
         NEW arg \in SUBSET Keys, NEW st \in {"sent", "ok", "error"}
  PROVE  /\ Send(p, op, arg) => call' \in [Procs -> CallType]
         /\ Hangup(p) => call' \in [Procs -> CallType]
         /\ Answer(p, st) => call' \in [Procs -> CallType]
BY DEF TypeOK, CallType, Send, Hangup, Answer, NoCall

LEMMA RequestTypes ==
  ASSUME TypeOK, NEW r \in Requests
  PROVE  /\ Finish(r) => req' \in [Requests -> RequestType]
         /\ \A pc \in {"idle", "lock", "revoke"} \cup TxnSteps :
              Advance(r, pc) => req' \in [Requests -> RequestType]
BY DEF TypeOK, RequestType, Finish, Advance, Idle, Statuses

LEMMA AgentTypes ==
  ASSUME TypeOK, ShapeInv,
         NEW p \in Procs, AgentHandle(p) \/ CallFails(p) \/ CallTimesOut(p)
  PROVE  TypeOK'
<1> USE DEF TypeOK
<1>1. CASE AgentHandle(p)
  <2>1. iface' \in [link : {"up", "down"}, peers : SUBSET Keys]
    BY <1>1 DEF AgentHandle, Effect, CallType
  <2>2. call' \in [Procs -> CallType]
    BY <1>1, CallTypes DEF AgentHandle, CallType, Answer
  <2> QED BY <1>1, <2>1, <2>2 DEF AgentHandle, db
<1>2. CASE CallFails(p)
  <2>1. call' \in [Procs -> CallType]
    BY <1>2 DEF CallFails, CallType, Answer
  <2>2. faults' \in 0 .. MaxFaults
    BY <1>2, BoundAssumption DEF CallFails, Fault
  <2>3. iface' \in [link : {"up", "down"}, peers : SUBSET Keys]
    BY <1>2 DEF CallFails
  <2> QED BY <1>2, <2>1, <2>2, <2>3 DEF CallFails, db
<1>3. CASE CallTimesOut(p)
  <2>1. call' \in [Procs -> CallType]
    BY <1>3 DEF CallTimesOut, CallType, Answer
  <2>2. faults' \in 0 .. MaxFaults
    BY <1>3, BoundAssumption DEF CallTimesOut, Fault
  <2>3. late' \subseteq [op : {"apply", "remove", "revoke"}, arg : SUBSET Keys, id : 0 .. MaxFaults]
    BY <1>3 DEF CallTimesOut, Abandoned, CallType
  <2> QED BY <1>3, <2>1, <2>2, <2>3 DEF CallTimesOut, db
<1> QED BY <1>1, <1>2, <1>3

LEMMA IssueTypes ==
  ASSUME TypeOK, ShapeInv, NEW r \in Requests, IssueStep(r) \/ RefuseIssue(r)
  PROVE  TypeOK'
<1> USE DEF TypeOK
<1>0. r \in Procs /\ req[r] \in RequestType /\ Shaped(req[r])
  BY DEF Procs, ShapeInv
<1>1. CASE LockInbound(r)
  <2>1. lock' \in Requests \cup {None} /\ spent' \subseteq Keys
    BY <1>1 DEF LockInbound
  <2>2. req' \in [Requests -> RequestType]
    <3>1. CASE \E k \in Existing(req[r].client) : req' = [req EXCEPT ![r].pc = "render", ![r].key = k]
      <4>1. req[r].client \in Clients
        BY <1>0, <1>1 DEF LockInbound, Shaped, Calling, TxnSteps
      <4>2. PICK k \in Keys : req' = [req EXCEPT ![r].pc = "render", ![r].key = k]
        BY <3>1, <4>1 DEF Existing
      <4> QED BY <1>0, <4>2 DEF RequestType, TxnSteps
    <3>2. CASE \E k \in Keys \ spent :
                 req' = [req EXCEPT ![r].pc = "render", ![r].key = k, ![r].keyed = "new"]
      <4>1. PICK k \in Keys : req' = [req EXCEPT ![r].pc = "render", ![r].key = k, ![r].keyed = "new"]
        BY <3>2
      <4> QED BY <1>0, <4>1 DEF RequestType, TxnSteps
    <3> QED BY <1>1, <3>1, <3>2 DEF LockInbound
  <2> QED BY <1>1, <2>1, <2>2 DEF LockInbound
<1>2. CASE RenderIssue(r)
  <2>1. Rendered(r) \in SUBSET Keys
    <3>1. Own(r) \subseteq Keys
      BY <1>0 DEF Own, Shaped
    <3>2. UNION {live[c] : c \in Served} \subseteq Keys
      BY DEF Served
    <3> QED BY <3>1, <3>2 DEF Rendered
  <2>2. req' \in [Requests -> RequestType]
    BY <1>0, <1>2, <2>1 DEF RenderIssue, RequestType, TxnSteps, Calling
  <2>3. call' \in [Procs -> CallType]
    BY <1>0, <1>2, <2>1, CallTypes DEF RenderIssue
  <2> QED BY <1>2, <2>2, <2>3 DEF RenderIssue, db
<1>3. CASE ApplyProceeds(r)
  <2>1. req[r].plan \in SUBSET Keys
    BY <1>0 DEF RequestType
  <2>2. PICK pc \in {"check", "clean", "reapply", "recheck", "commit"} : Advance(r, pc)
    BY <1>3 DEF ApplyProceeds
  <2>3. req' \in [Requests -> RequestType]
    BY <2>2, RequestTypes DEF TxnSteps, Calling
  <2>4. call' \in [Procs -> CallType]
    BY <1>0, <1>3, <2>1, CallTypes DEF ApplyProceeds
  <2> QED BY <1>3, <2>3, <2>4 DEF ApplyProceeds, db
<1>4. CASE FailIssue(r)
  <2>1. req' \in [Requests -> RequestType] /\ call' \in [Procs -> CallType]
    BY <1>0, <1>4, CallTypes, RequestTypes DEF FailIssue
  <2> QED BY <1>4, <2>1 DEF FailIssue, EndTxn
<1>5. CASE CommitIssue(r)
  <2>1. req' \in [Requests -> RequestType]
    BY <1>5, RequestTypes DEF CommitIssue
  <2>2. live' \in [Clients -> SUBSET Keys]
    BY <1>0, <1>5 DEF CommitIssue, Shaped
  <2> QED BY <1>5, <2>1, <2>2 DEF CommitIssue, EndTxn
<1>6. CASE RefuseIssue(r)
  BY <1>6, RequestTypes DEF RefuseIssue, db
<1> QED BY <1>1, <1>2, <1>3, <1>4, <1>5, <1>6 DEF IssueStep

LEMMA RemovalTypes ==
  ASSUME TypeOK, ShapeInv, NEW r \in Requests, RemovalStep(r)
  PROVE  TypeOK'
<1> USE DEF TypeOK
<1>0. r \in Procs /\ req[r] \in RequestType
  BY DEF Procs
<1>1. CASE RevokePeer(r)
  <2>1. PICK k \in req[r].todo : req' = [req EXCEPT ![r].todo = @ \ {k}] /\ Send(r, "revoke", {k})
    BY <1>1 DEF RevokePeer
  <2>2. {k} \in SUBSET Keys
    BY <1>0, <2>1 DEF RequestType
  <2>3. req' \in [Requests -> RequestType]
    BY <1>0, <2>1 DEF RequestType
  <2>4. call' \in [Procs -> CallType]
    BY <1>0, <2>1, <2>2, CallTypes
  <2> QED BY <1>1, <2>3, <2>4 DEF RevokePeer, db
<1>2. CASE RevokePeerReply(r)
  <2>1. req' \in [Requests -> RequestType] /\ call' \in [Procs -> CallType]
    BY <1>0, <1>2, CallTypes, RequestTypes DEF RevokePeerReply, TxnSteps
  <2> QED BY <1>2, <2>1 DEF RevokePeerReply, db
<1>3. CASE CommitRevoke(r)
  <2>1. req' \in [Requests -> RequestType]
    BY <1>3, RequestTypes DEF CommitRevoke
  <2>2. status' \in [Clients -> Statuses] /\ live' \in [Clients -> SUBSET Keys]
    BY <1>3 DEF CommitRevoke, Revoked, Statuses
  <2> QED BY <1>3, <2>1, <2>2 DEF CommitRevoke
<1>4. CASE CommitDelete(r)
  <2>1. req' \in [Requests -> RequestType]
    BY <1>4, RequestTypes DEF CommitDelete
  <2>2. status' \in [Clients -> Statuses] /\ live' \in [Clients -> SUBSET Keys]
    BY <1>4 DEF CommitDelete, Statuses
  <2> QED BY <1>4, <2>1, <2>2 DEF CommitDelete
<1> QED BY <1>1, <1>2, <1>3, <1>4 DEF RemovalStep

LEMMA StartTypes ==
  ASSUME TypeOK, NEW r \in Requests, NEW c \in Clients, NEW op \in {"revoke", "delete"},
         StartIssue(r, c) \/ StartRemoval(r, c, op)
  PROVE  TypeOK'
<1> USE DEF TypeOK
<1>1. started' \in 0 .. MaxRequests
  BY BoundAssumption DEF StartIssue, StartRemoval, Begin
<1>2. CASE StartIssue(r, c)
  <2>1. req' \in [Requests -> RequestType]
    BY <1>2 DEF StartIssue, RequestType, Idle, Statuses
  <2> QED BY <1>1, <1>2, <2>1 DEF StartIssue
<1>3. CASE StartRemoval(r, c, op)
  <2>1. req' \in [Requests -> RequestType]
    BY <1>3 DEF StartRemoval, RequestType, Idle, TxnSteps
  <2> QED BY <1>1, <1>3, <2>1 DEF StartRemoval
<1> QED BY <1>2, <1>3

LEMMA WorkerTypes ==
  ASSUME TypeOK, WorkerStep \/ CrashWorker
  PROVE  TypeOK'
<1> USE DEF TypeOK
<1>0. Worker \in Procs /\ Rest \in WorkerType
  BY DEF Procs, Rest, WorkerType, NoMarks, Marks
<1>1. CASE Collect
  <2>1. faults' \in 0 .. MaxFaults /\ node' \in {"ready", "degraded"}
    BY <1>1, BoundAssumption DEF Collect, Fault
  <2>2. wk' \in WorkerType
    BY <1>1 DEF Collect, WorkerType
  <2> QED BY <1>1, <2>1, <2>2 DEF Collect, db
<1>2. CASE ReadQuotas
  <2>1. wk' \in WorkerType
    BY <1>2 DEF ReadQuotas, WorkerType
  <2> QED BY <1>2, <2>1 DEF ReadQuotas, db
<1>3. CASE CommitQuotas
  <2>1. status' \in [Clients -> Statuses]
    BY <1>3 DEF CommitQuotas, Written, WorkerType, Marks, Statuses
  <2>2. wk' \in WorkerType
    BY <1>3 DEF CommitQuotas, WorkerType, NoMarks, Marks
  <2>3. call' \in [Procs -> CallType]
    BY <1>0, <1>3, CallTypes DEF CommitQuotas
  <2> QED BY <1>3, <2>1, <2>2, <2>3 DEF CommitQuotas
<1>4. CASE AbortCycle
  BY <1>0, <1>4 DEF AbortCycle, db
<1>5. CASE Reconcile
  <2>1. Desired \in SUBSET Keys
    BY DEF Desired
  <2>2. call' \in [Procs -> CallType]
    BY <1>0, <1>5, <2>1, CallTypes DEF Reconcile
  <2>3. wk' \in WorkerType
    BY <1>5 DEF Reconcile, WorkerType
  <2> QED BY <1>5, <2>2, <2>3 DEF Reconcile, db
<1>6. CASE Reconciled
  <2>1. call' \in [Procs -> CallType] /\ node' \in {"ready", "degraded"}
    BY <1>0, <1>6, CallTypes DEF Reconciled
  <2> QED BY <1>0, <1>6, <2>1 DEF Reconciled, db
<1>7. CASE CrashWorker
  <2>1. call' \in [Procs -> CallType] /\ faults' \in 0 .. MaxFaults
    BY <1>0, <1>7, CallTypes, BoundAssumption DEF CrashWorker, Fault
  <2>2. late' \subseteq [op : {"apply", "remove", "revoke"}, arg : SUBSET Keys, id : 0 .. MaxFaults]
    BY <1>0, <1>7 DEF CrashWorker, Abandoned, CallType
  <2> QED BY <1>0, <1>7, <2>1, <2>2 DEF CrashWorker, db
<1> QED BY <1>1, <1>2, <1>3, <1>4, <1>5, <1>6, <1>7 DEF WorkerStep

LEMMA TypeStep == TypeOK /\ ShapeInv /\ [Next]_vars => TypeOK'
<1> SUFFICES ASSUME TypeOK, ShapeInv, [Next]_vars PROVE TypeOK'
  OBVIOUS
<1>1. CASE UNCHANGED vars
  BY <1>1 DEF TypeOK, vars
<1>2. CASE \E r \in Requests : IssueStep(r) \/ RefuseIssue(r) \/ RemovalStep(r)
  BY <1>2, IssueTypes, RemovalTypes
<1>3. CASE \E r \in Requests : CrashRequest(r)
  <2>1. PICK r \in Requests : CrashRequest(r)
    BY <1>3
  <2>2. faults' \in 0 .. MaxFaults
    BY <2>1, BoundAssumption DEF CrashRequest, Fault, TypeOK
  <2>5. call' \in [Procs -> CallType]
    BY <2>1, CallTypes DEF CrashRequest, Procs
  <2>3. late' \subseteq [op : {"apply", "remove", "revoke"}, arg : SUBSET Keys, id : 0 .. MaxFaults]
    BY <2>1 DEF CrashRequest, Abandoned, CallType, Procs, TypeOK
  <2>4. req' \in [Requests -> RequestType] /\ lock' \in Requests \cup {None}
    BY <2>1, RequestTypes DEF CrashRequest, TypeOK
  <2> QED BY <2>1, <2>2, <2>3, <2>4, <2>5 DEF CrashRequest, TypeOK
<1>4. CASE \E r \in Requests, c \in Clients :
             StartIssue(r, c) \/ \E op \in {"revoke", "delete"} : StartRemoval(r, c, op)
  BY <1>4, StartTypes
<1>5. CASE \E c \in Clients : Renew(c) \/ Lapse(c)
  BY <1>5, BoundAssumption, QuotaAssumption DEF Renew, Lapse, Begin, Fault, TypeOK
<1>6. CASE WorkerStep \/ CrashWorker
  BY <1>6, WorkerTypes
<1>7. CASE \E p \in Procs : AgentHandle(p) \/ CallFails(p) \/ CallTimesOut(p)
  BY <1>7, AgentTypes
<1>8. CASE \E m \in late : AgentHandleLate(m)
  <2>1. PICK m \in late : AgentHandleLate(m)
    BY <1>8
  <2>2. iface' \in [link : {"up", "down"}, peers : SUBSET Keys]
    BY <2>1 DEF AgentHandleLate, Effect, TypeOK
  <2> QED BY <2>1, <2>2 DEF AgentHandleLate, TypeOK, db
<1> QED BY <1>1, <1>2, <1>3, <1>4, <1>5, <1>6, <1>7, <1>8 DEF Next

-----------------------------------------------------------------------------
(* Steps that leave the requests and the credentials alone.                *)

LEMMA FrameStep ==
  ASSUME Core, UNCHANGED <<req, lock, live, spent>>,
         \A c \in Clients : Exists(c)' <=> Exists(c)
  PROVE  Core'
<1>1. ShapeInv' /\ SpentInv' /\ OneLiveCredential'
  BY DEF Core, ShapeInv, Shaped, SpentInv, OneLiveCredential
<1>2. \A r \in Requests : (InTxn(r)' <=> InTxn(r)) /\ (Flushed(r)' <=> Flushed(r))
  BY DEF InTxn, Flushed
<1>3. LockInv'
  BY <1>2 DEF Core, LockInv
<1>4. FreshInv'
  <2> SUFFICES ASSUME NEW r \in Requests, InTxn(r)', (req[r].keyed = "new")'
               PROVE  /\ (req[r].key \in spent)'
                      /\ (live[req[r].client] = {})'
                      /\ \A c \in Clients : (req[r].key \notin live[c])'
                      /\ Flushed(r)' => Exists(req[r].client)'
    BY DEF FreshInv
  <2>1. req[r].client \in Clients
    BY <1>2 DEF Core, ShapeInv, Shaped, InTxn
  <2> QED BY <1>2, <2>1 DEF Core, FreshInv
<1>5. NoOrphanCredential'
  BY DEF Core, NoOrphanCredential
<1> QED BY <1>1, <1>3, <1>4, <1>5 DEF Core

(* Steps of one request that change neither the credentials nor the lock,  *)
(* and leave its transaction as it is.                                     *)
LEMMA MoveStep ==
  ASSUME TypeOK, Core, NEW r \in Requests, UNCHANGED <<lock, live, spent, status>>,
         NEW q, Shaped(q), req' = [req EXCEPT ![r] = q],
         InTxn(r) <=> (q.op = "issue" /\ q.pc \in TxnSteps),
         InTxn(r) /\ q.keyed = "new" =>
           /\ req[r].keyed = "new" /\ q.key = req[r].key /\ q.client = req[r].client
           /\ q.pc # "render" => Exists(q.client)
  PROVE  Core'
<1>0. /\ req'[r] = q
      /\ \A o \in Requests \ {r} : req'[o] = req[o]
  BY DEF TypeOK
<1>1. ShapeInv'
  BY <1>0 DEF Core, ShapeInv, Shaped
<1>2. SpentInv' /\ OneLiveCredential' /\ NoOrphanCredential'
  BY DEF Core, SpentInv, OneLiveCredential, NoOrphanCredential, Exists
<1>3. \A o \in Requests : InTxn(o)' <=> InTxn(o)
  BY <1>0 DEF InTxn
<1>4. LockInv'
  BY <1>3 DEF Core, LockInv
<1>5. FreshInv'
  <2> SUFFICES ASSUME NEW o \in Requests, InTxn(o)', (req[o].keyed = "new")'
               PROVE  /\ (req[o].key \in spent)'
                      /\ (live[req[o].client] = {})'
                      /\ \A c \in Clients : (req[o].key \notin live[c])'
                      /\ Flushed(o)' => Exists(req[o].client)'
    BY DEF FreshInv
  <2>1. CASE o = r
    BY <1>0, <1>3, <2>1 DEF Core, FreshInv, Flushed, InTxn, Exists
  <2>2. CASE o # r
    BY <1>0, <1>3, <2>2 DEF Core, FreshInv, Flushed, InTxn, Exists
  <2> QED BY <2>1, <2>2
<1> QED BY <1>1, <1>2, <1>4, <1>5 DEF Core

LEMMA MovingSteps ==
  ASSUME TypeOK, Core, NEW r \in Requests,
         \/ RefuseIssue(r) \/ RenderIssue(r) \/ ApplyProceeds(r)
         \/ RevokePeer(r) \/ RevokePeerReply(r)
         \/ \E c \in Clients : StartIssue(r, c) \/ \E op \in {"revoke", "delete"} : StartRemoval(r, c, op)
  PROVE  Core'
<1>0. Shaped(req[r]) /\ req[r] \in RequestType
  BY DEF Core, ShapeInv, TypeOK
<1> Shaped(Idle)
  BY DEF Shaped, Idle, Calling, TxnSteps
<1>1. CASE RefuseIssue(r) \/ (RevokePeerReply(r) /\ Finish(r))
  <2>1. req' = [req EXCEPT ![r] = Idle] /\ UNCHANGED <<lock, live, spent, status>>
    BY <1>1 DEF RefuseIssue, RevokePeerReply, Finish, db
  <2>2. ~InTxn(r)
    BY <1>0, <1>1 DEF RefuseIssue, RevokePeerReply, InTxn, TxnSteps, Calling
  <2> QED BY <2>1, <2>2, MoveStep DEF Idle
<1>2. CASE RenderIssue(r)
  <2> DEFINE q == [req[r] EXCEPT !.pc = "apply", !.plan = Rendered(r)]
  <2>1. req' = [req EXCEPT ![r] = q] /\ UNCHANGED <<lock, live, spent, status>>
    BY <1>2 DEF RenderIssue, db, TypeOK
  <2>2. /\ q.op = req[r].op /\ q.pc = "apply" /\ q.client = req[r].client
        /\ q.key = req[r].key /\ q.keyed = req[r].keyed
    BY <1>0 DEF RequestType
  <2>3. req[r].pc = "render" /\ Exists(req[r].client) /\ req[r].op = "issue"
    BY <1>0, <1>2 DEF RenderIssue, Shaped
  <2>4. Shaped(q) /\ InTxn(r) /\ q.pc \in TxnSteps
    BY <1>0, <2>2, <2>3 DEF Shaped, InTxn, TxnSteps, Calling
  <2> QED BY <2>1, <2>2, <2>3, <2>4, MoveStep
<1>3. CASE ApplyProceeds(r)
  <2>1. PICK pc \in {"check", "clean", "reapply", "recheck", "commit"} : Advance(r, pc)
    BY <1>3 DEF ApplyProceeds
  <2> DEFINE q == [req[r] EXCEPT !.pc = pc]
  <2>2. req' = [req EXCEPT ![r] = q] /\ UNCHANGED <<lock, live, spent, status>>
    BY <1>3, <2>1 DEF ApplyProceeds, Advance, db, TypeOK
  <2>3. /\ q.op = req[r].op /\ q.pc = pc /\ q.client = req[r].client
        /\ q.key = req[r].key /\ q.keyed = req[r].keyed
    BY <1>0 DEF RequestType
  <2>4. req[r].pc \in Calling /\ req[r].op = "issue" /\ InTxn(r)
    BY <1>0, <1>3 DEF ApplyProceeds, Shaped, InTxn, TxnSteps
  <2>5. Shaped(q) /\ q.pc \in TxnSteps
    BY <1>0, <2>1, <2>3, <2>4 DEF Shaped, TxnSteps, Calling
  <2>6. req[r].keyed = "new" => Exists(req[r].client)
    BY <2>4 DEF Core, FreshInv, Flushed, Calling
  <2> QED BY <2>2, <2>3, <2>4, <2>5, <2>6, MoveStep
<1>4. CASE RevokePeer(r)
  <2>1. PICK k : req' = [req EXCEPT ![r].todo = @ \ {k}]
    BY <1>4 DEF RevokePeer
  <2> DEFINE q == [req[r] EXCEPT !.todo = @ \ {k}]
  <2>2. req' = [req EXCEPT ![r] = q] /\ UNCHANGED <<lock, live, spent, status>>
    BY <1>4, <2>1 DEF RevokePeer, db, TypeOK
  <2>3. /\ q.op = req[r].op /\ q.pc = req[r].pc /\ q.client = req[r].client
        /\ q.key = req[r].key /\ q.keyed = req[r].keyed
    BY <1>0 DEF RequestType
  <2>4. req[r].pc = "revoke"
    BY <1>4 DEF RevokePeer
  <2>5. Shaped(q) /\ ~InTxn(r) /\ q.pc \notin TxnSteps
    BY <1>0, <2>3, <2>4 DEF Shaped, TxnSteps, Calling, InTxn
  <2> QED BY <2>2, <2>3, <2>5, MoveStep
<1>5. CASE RevokePeerReply(r) /\ ~Finish(r)
  <2>1. PICK pc \in {"commit", "revoke"} : Advance(r, pc)
    BY <1>5 DEF RevokePeerReply
  <2> DEFINE q == [req[r] EXCEPT !.pc = pc]
  <2>2. req' = [req EXCEPT ![r] = q] /\ UNCHANGED <<lock, live, spent, status>>
    BY <1>5, <2>1 DEF RevokePeerReply, Advance, db, TypeOK
  <2>3. /\ q.op = req[r].op /\ q.pc = pc /\ q.client = req[r].client
        /\ q.key = req[r].key /\ q.keyed = req[r].keyed
    BY <1>0 DEF RequestType
  <2>4. req[r].pc = "revoke"
    BY <1>5 DEF RevokePeerReply
  <2>5. q.op # "issue" /\ ~InTxn(r) /\ q.op # "idle"
    BY <1>0, <2>3, <2>4 DEF Shaped, TxnSteps, Calling, InTxn
  <2>6. Shaped(q)
    BY <1>0, <2>1, <2>3, <2>5 DEF Shaped, TxnSteps, Calling
  <2> QED BY <2>2, <2>3, <2>5, <2>6, MoveStep
<1>6. ASSUME NEW c \in Clients, StartIssue(r, c) PROVE Core'
  <2> DEFINE q == [Idle EXCEPT !.op = "issue", !.pc = "lock", !.client = c]
  <2>1. req' = [req EXCEPT ![r] = q] /\ UNCHANGED <<lock, live, spent, status>>
    BY <1>6 DEF StartIssue
  <2>2. Shaped(q) /\ q.pc \notin TxnSteps
    BY DEF Idle, Shaped, TxnSteps, Calling
  <2>3. req[r] = Idle
    BY <1>6 DEF StartIssue
  <2>4. ~InTxn(r)
    BY <2>3 DEF InTxn, Idle
  <2> QED BY <2>1, <2>2, <2>4, MoveStep DEF Idle
<1>7. ASSUME NEW c \in Clients, NEW op \in {"revoke", "delete"}, StartRemoval(r, c, op) PROVE Core'
  <2> DEFINE q == [Idle EXCEPT !.op = op, !.client = c, !.plan = live[c], !.todo = live[c],
                     !.seen = status[c], !.pc = IF live[c] = {} THEN "commit" ELSE "revoke"]
  <2>1. req' = [req EXCEPT ![r] = q] /\ UNCHANGED <<lock, live, spent, status>>
    BY <1>7 DEF StartRemoval
  <2>2. /\ q.op = op /\ q.client = c /\ q.pc \in {"commit", "revoke"}
        /\ q.keyed = "reused"
    BY DEF Idle
  <2>3. Shaped(q) /\ q.op # "issue"
    BY <2>2 DEF Shaped, TxnSteps, Calling
  <2>4. req[r] = Idle
    BY <1>7 DEF StartRemoval
  <2>5. ~InTxn(r)
    BY <2>4 DEF InTxn, Idle
  <2> QED BY <2>1, <2>3, <2>5, MoveStep
<1> QED BY <1>1, <1>2, <1>3, <1>4, <1>5, <1>6, <1>7

(* The lock is taken: the new key, if any, is nobody's.                    *)
LEMMA LockStep ==
  ASSUME TypeOK, Core, NEW r \in Requests, LockInbound(r)
  PROVE  Core'
<1>0. /\ Shaped(req[r]) /\ req[r].pc = "lock" /\ lock = None /\ lock' = r
      /\ UNCHANGED <<status, live>>
  BY DEF Core, ShapeInv, LockInbound, InboundFree
<1>1. /\ req[r].op = "issue" /\ req[r].client \in Clients /\ req[r].keyed # "new"
  BY <1>0 DEF Shaped, Calling, TxnSteps
<1>2. \A o \in Requests : ~InTxn(o)
  BY <1>0, ProcessAssumption DEF Core, LockInv
<1>3. /\ \A o \in Requests \ {r} : req'[o] = req[o]
      /\ req'[r].op = "issue" /\ req'[r].pc = "render" /\ req'[r].client = req[r].client
      /\ \/ req'[r].keyed = req[r].keyed /\ UNCHANGED spent
         \/ /\ live[req[r].client] = {} /\ req'[r].key \in Keys \ spent
            /\ spent' = spent \cup {req'[r].key}
  <2>1. CASE \E k \in live[req[r].client] :
               req' = [req EXCEPT ![r].pc = "render", ![r].key = k] /\ UNCHANGED spent
    <3>1. PICK k : req' = [req EXCEPT ![r].pc = "render", ![r].key = k] /\ UNCHANGED spent
      BY <2>1
    <3> QED BY <1>1, <3>1 DEF TypeOK, RequestType
  <2>2. CASE /\ live[req[r].client] = {}
             /\ \E k \in Keys \ spent :
                  /\ req' = [req EXCEPT ![r].pc = "render", ![r].key = k, ![r].keyed = "new"]
                  /\ spent' = spent \cup {k}
    <3>1. PICK k \in Keys \ spent :
            /\ req' = [req EXCEPT ![r].pc = "render", ![r].key = k, ![r].keyed = "new"]
            /\ spent' = spent \cup {k}
      BY <2>2
    <3> QED BY <1>1, <2>2, <3>1 DEF TypeOK, RequestType
  <2> QED BY <2>1, <2>2 DEF LockInbound, Existing
<1>4. \A o \in Requests : InTxn(o)' <=> o = r
  BY <1>2, <1>3 DEF InTxn, TxnSteps
<1>5. req'[r].keyed = "new" => req'[r].key \in Keys
  BY <1>1, <1>3
<1>6. ShapeInv'
  BY <1>1, <1>3, <1>5 DEF Core, ShapeInv, Shaped, TxnSteps, Calling
<1>7. LockInv'
  BY <1>0, <1>4 DEF LockInv
<1>8. FreshInv'
  BY <1>0, <1>1, <1>3, <1>4 DEF Core, FreshInv, SpentInv, Flushed
<1>9. SpentInv' /\ OneLiveCredential' /\ NoOrphanCredential'
  BY <1>0, <1>3 DEF Core, SpentInv, OneLiveCredential, NoOrphanCredential, Exists
<1> QED BY <1>6, <1>7, <1>8, <1>9 DEF Core

(* A transaction ends, and commits at most the key pair it carried.        *)
LEMMA EndStep ==
  ASSUME TypeOK, Core, NEW r \in Requests, FailIssue(r) \/ CommitIssue(r) \/ CrashRequest(r)
  PROVE  Core'
<1>0. /\ Shaped(req[r]) /\ UNCHANGED <<status, spent>>
      /\ req'[r] = Idle /\ \A o \in Requests \ {r} : req'[o] = req[o]
  BY DEF Core, ShapeInv, FailIssue, CommitIssue, CrashRequest, Finish, TypeOK
<1>1. lock' = IF InTxn(r) THEN None ELSE lock
  BY <1>0 DEF FailIssue, CommitIssue, CrashRequest, EndTxn, InTxn, Shaped, TxnSteps, Calling
<1>2. \A o \in Requests : InTxn(o)' <=> (InTxn(o) /\ o # r)
  BY <1>0 DEF InTxn, Idle, TxnSteps
<1>3. Shaped(Idle)
  BY DEF Shaped, Idle, TxnSteps, Calling
<1>4. ShapeInv'
  BY <1>0, <1>3 DEF Core, ShapeInv, Shaped
<1>5. LockInv'
  BY <1>1, <1>2, ProcessAssumption DEF Core, LockInv
<1>6. CASE UNCHANGED live
  <2>1. FreshInv'
    BY <1>0, <1>2, <1>6 DEF Core, FreshInv, Flushed, Exists
  <2>2. SpentInv' /\ OneLiveCredential' /\ NoOrphanCredential'
    BY <1>0, <1>6 DEF Core, SpentInv, OneLiveCredential, NoOrphanCredential, Exists
  <2> QED BY <1>4, <1>5, <2>1, <2>2 DEF Core
<1>7. CASE CommitIssue(r) /\ req[r].keyed = "new"
  <2> DEFINE c == req[r].client
             k == req[r].key
  <2>1. c \in Clients /\ InTxn(r) /\ Flushed(r)
    BY <1>0, <1>7 DEF CommitIssue, Shaped, Flushed, InTxn, TxnSteps
  <2>2. k \in spent /\ live[c] = {} /\ Exists(c) /\ \A d \in Clients : k \notin live[d]
    BY <1>7, <2>1 DEF Core, FreshInv
  <2>3. live' = [live EXCEPT ![c] = {k}]
    BY <1>7, <2>2 DEF CommitIssue
  <2>4. \A d \in Clients : live'[d] = IF d = c THEN {k} ELSE live[d]
    BY <2>1, <2>3 DEF TypeOK
  <2>5. \A o \in Requests : ~InTxn(o)'
    BY <1>2, <2>1 DEF Core, LockInv
  <2>6. FreshInv'
    BY <2>5 DEF FreshInv
  <2>7. SpentInv' /\ NoOrphanCredential'
    BY <1>0, <2>2, <2>4 DEF Core, SpentInv, NoOrphanCredential, Exists
  <2>8. OneLiveCredential'
    BY <2>2, <2>4 DEF Core, OneLiveCredential
  <2> QED BY <1>4, <1>5, <2>6, <2>7, <2>8 DEF Core
<1> QED BY <1>6, <1>7 DEF FailIssue, CommitIssue, CrashRequest

(* Revocation and deletion only take credentials away, and a deletion      *)
(* waits while an issue of the same client has flushed its rows.           *)
LEMMA RemoveStep ==
  ASSUME TypeOK, Core, NEW r \in Requests, CommitRevoke(r) \/ CommitDelete(r)
  PROVE  Core'
<1>0. /\ Shaped(req[r]) /\ UNCHANGED <<lock, spent>> /\ ~InTxn(r)
      /\ req'[r] = Idle /\ \A o \in Requests \ {r} : req'[o] = req[o]
  BY DEF Core, ShapeInv, CommitRevoke, CommitDelete, Finish, InTxn, TypeOK
<1>1. \A o \in Requests : InTxn(o)' <=> InTxn(o)
  BY <1>0 DEF InTxn, Idle, TxnSteps
<1>2. \A c \in Clients : live'[c] \subseteq live[c]
  BY DEF CommitRevoke, CommitDelete, TypeOK
<1>3. \A c \in Clients : Exists(c)' \/ live'[c] = {}
  <2>1. CASE CommitRevoke(r)
    BY <1>2, <2>1 DEF Core, NoOrphanCredential, CommitRevoke, Revoked, Exists, TypeOK
  <2>2. CASE CommitDelete(r)
    BY <1>2, <2>2 DEF Core, NoOrphanCredential, CommitDelete, Exists, TypeOK
  <2> QED BY <2>1, <2>2
<1>4. \A o \in Requests : Flushed(o) /\ Exists(req[o].client) => Exists(req[o].client)'
  <2> SUFFICES ASSUME NEW o \in Requests, Flushed(o), Exists(req[o].client)
               PROVE  (status')[req'[o].client] # "DELETED"
    BY DEF Exists
  <2>0. req'[o] = req[o] /\ req[o].client \in Clients
    BY <1>0 DEF Core, ShapeInv, Shaped, Flushed, InTxn
  <2>1. CASE CommitRevoke(r)
    BY <2>0, <2>1 DEF CommitRevoke, Revoked, Exists, TypeOK
  <2>2. CASE CommitDelete(r)
    BY <2>0, <2>2 DEF CommitDelete, Referenced, Exists, TypeOK
  <2> QED BY <2>1, <2>2
<1>5. Shaped(Idle)
  BY DEF Shaped, Idle, TxnSteps, Calling
<1>6. ShapeInv' /\ LockInv'
  BY <1>0, <1>1, <1>5 DEF Core, ShapeInv, LockInv, Shaped
<1>7. FreshInv'
  <2> SUFFICES ASSUME NEW o \in Requests, InTxn(o)', (req[o].keyed = "new")'
               PROVE  /\ (req[o].key \in spent)'
                      /\ (live[req[o].client] = {})'
                      /\ \A c \in Clients : (req[o].key \notin live[c])'
                      /\ Flushed(o)' => Exists(req[o].client)'
    BY DEF FreshInv
  <2>1. InTxn(o) /\ o # r /\ req'[o] = req[o]
    BY <1>0, <1>1
  <2>2. Flushed(o)' => Flushed(o)
    BY <2>1 DEF Flushed, InTxn
  <2>3. req[o].client \in Clients
    BY <2>1 DEF Core, ShapeInv, Shaped, InTxn
  <2> QED BY <1>0, <1>2, <1>4, <2>1, <2>2, <2>3 DEF Core, FreshInv
<1>8. SpentInv' /\ OneLiveCredential' /\ NoOrphanCredential'
  BY <1>0, <1>2, <1>3 DEF Core, SpentInv, OneLiveCredential, NoOrphanCredential
<1> QED BY <1>6, <1>7, <1>8 DEF Core

-----------------------------------------------------------------------------
LEMMA CoreStep == TypeOK /\ Core /\ [Next]_vars => Core'
<1> SUFFICES ASSUME TypeOK, Core, [Next]_vars PROVE Core'
  OBVIOUS
<1>1. CASE UNCHANGED vars
  BY <1>1, FrameStep DEF vars, Exists
<1>2. CASE \E r \in Requests : IssueStep(r) \/ RefuseIssue(r) \/ RemovalStep(r) \/ CrashRequest(r)
  BY <1>2, MovingSteps, LockStep, EndStep, RemoveStep DEF IssueStep, RemovalStep
<1>3. CASE \E r \in Requests, c \in Clients :
             StartIssue(r, c) \/ \E op \in {"revoke", "delete"} : StartRemoval(r, c, op)
  BY <1>3, MovingSteps
<1>4. CASE \E c \in Clients : Renew(c) \/ Lapse(c)
  BY <1>4, FrameStep DEF Renew, Lapse, Exists
<1>5. CASE CommitQuotas
  <2>1. \A c \in Clients : Exists(c)' <=> Exists(c)
    BY <1>5 DEF CommitQuotas, Written, Exists, TypeOK, WorkerType, Marks
  <2> QED BY <1>5, <2>1, FrameStep DEF CommitQuotas
<1>6. CASE (WorkerStep /\ ~CommitQuotas) \/ CrashWorker
  BY <1>6, FrameStep DEF WorkerStep, Collect, ReadQuotas, AbortCycle, Reconcile, Reconciled,
       CrashWorker, Exists, db
<1>7. CASE \E p \in Procs : AgentHandle(p) \/ CallFails(p) \/ CallTimesOut(p)
  BY <1>7, FrameStep DEF AgentHandle, CallFails, CallTimesOut, Exists, db
<1>8. CASE \E m \in late : AgentHandleLate(m)
  BY <1>8, FrameStep DEF AgentHandleLate, Exists, db
<1> QED BY <1>1, <1>2, <1>3, <1>4, <1>5, <1>6, <1>7, <1>8 DEF Next, WorkerStep

(* IInv is an inductive invariant.                                         *)
LEMMA Invariance == Spec => []IInv
<1>1. IInv /\ [Next]_vars => IInv'
  BY TypeStep, CoreStep DEF IInv, Core
<1> QED BY InitInv, <1>1, PTL DEF Spec

(* Every variable stays in its set (models.py:11, 47, 60, 62).             *)
THEOREM TypeCorrect == Spec => []TypeOK
BY Invariance, PTL DEF IInv

(* Whatever issue requests overlap, fail, time out or crash, no client has *)
(* two credentials in force (credentials.py:44, 61-65).                    *)
THEOREM AtMostOneCredential == Spec => []OneLiveCredential
BY Invariance, PTL DEF IInv, Core

(* Deleting a client leaves none of its credentials (clients.py:122-143),  *)
(* even when it races with an issue.                                       *)
THEOREM DeletedClientHoldsNothing == Spec => []NoOrphanCredential
BY Invariance, PTL DEF IInv, Core

-----------------------------------------------------------------------------
(* ClientAccess implements CredentialLedger: every step moves the life of  *)
(* at most one key pair, and only the way the ledger allows.               *)

Unheld(k) == \A c \in Clients : k \notin live[c]

(* The mapping read off the state: a held key has one holder.              *)
LEMMA OwnerOf ==
  ASSUME OneLiveCredential, NEW k \in Keys
  PROVE  /\ \A c \in Clients : k \in live[c] => HeldBy(k) = {c} /\ KeyOwner(k) = c
         /\ Unheld(k) => HeldBy(k) = {} /\ KeyOwner(k) = None
<1>1. Unheld(k) => HeldBy(k) = {} /\ KeyOwner(k) = None
  BY DEF Unheld, HeldBy, KeyOwner
<1>2. ASSUME NEW c \in Clients, k \in live[c] PROVE HeldBy(k) = {c} /\ KeyOwner(k) = c
  <2>1. HeldBy(k) = {c}
    BY <1>2 DEF OneLiveCredential, HeldBy
  <2> QED BY <2>1 DEF KeyOwner
<1> QED BY <1>1, <1>2

LEMMA OwnerOfNext ==
  ASSUME OneLiveCredential', NEW k \in Keys
  PROVE  /\ \A c \in Clients : k \in live'[c] => HeldBy(k)' = {c} /\ KeyOwner(k)' = c
         /\ Unheld(k)' => HeldBy(k)' = {} /\ KeyOwner(k)' = None
<1>1. Unheld(k)' => HeldBy(k)' = {} /\ KeyOwner(k)' = None
  BY DEF Unheld, HeldBy, KeyOwner
<1>2. ASSUME NEW c \in Clients, k \in live'[c] PROVE HeldBy(k)' = {c} /\ KeyOwner(k)' = c
  <2>1. HeldBy(k)' = {c}
    BY <1>2 DEF OneLiveCredential, HeldBy
  <2> QED BY <2>1 DEF KeyOwner
<1> QED BY <1>1, <1>2

(* A key whose rows and whose transaction a step leaves alone.             *)
Untouched(k) ==
  /\ k \in spent' <=> k \in spent
  /\ \A c \in Clients : k \in live'[c] <=> k \in live[c]
  /\ Pending(k)' <=> Pending(k)

LEMMA Unmoved ==
  ASSUME OneLiveCredential, OneLiveCredential', NEW k \in Keys, Untouched(k)
  PROVE  KeyPhase(k)' = KeyPhase(k) /\ KeyOwner(k)' = KeyOwner(k)
<1>1. CASE Unheld(k)
  <2>1. Unheld(k)'
    BY <1>1 DEF Unheld, Untouched
  <2> QED BY <1>1, <2>1, OwnerOf, OwnerOfNext DEF KeyPhase, Untouched
<1>2. CASE \E c \in Clients : k \in live[c]
  <2>1. PICK c \in Clients : k \in live[c] /\ k \in live'[c]
    BY <1>2 DEF Untouched
  <2> QED BY <2>1, OwnerOf, OwnerOfNext DEF KeyPhase, Untouched
<1> QED BY <1>1, <1>2 DEF Unheld

LEMMA QuietStep ==
  ASSUME OneLiveCredential, OneLiveCredential', \A k \in Keys : Untouched(k)
  PROVE  UNCHANGED Ledger!vars
BY Unmoved DEF Ledger!vars

(* One key moves, the others stay: a step of the ledger.                   *)
LEMMA DrawStep ==
  ASSUME OneLiveCredential, OneLiveCredential', NEW k \in Keys,
         \A j \in Keys \ {k} : Untouched(j),
         k \notin spent, Unheld(k), k \in spent', Unheld(k)', Pending(k)'
  PROVE  Ledger!Next
<1>1. KeyPhase(k) = "new" /\ KeyPhase(k)' = "drawn" /\ KeyOwner(k)' = KeyOwner(k)
  BY OwnerOf, OwnerOfNext DEF KeyPhase
<1>2. Ledger!Draw(k)
  BY <1>1, Unmoved DEF Ledger!Draw
<1> QED BY <1>2 DEF Ledger!Next

LEMMA EndsStep ==
  ASSUME OneLiveCredential, OneLiveCredential', NEW k \in Keys,
         \A j \in Keys \ {k} : Untouched(j),
         k \in spent, Unheld(k) => Pending(k), k \in spent', Unheld(k)', ~Pending(k)'
  PROVE  Ledger!Next
<1>1. KeyPhase(k) \in {"drawn", "held"}
  BY OwnerOf DEF KeyPhase, Unheld
<1>2. KeyPhase(k)' = "dead" /\ KeyOwner(k)' = None
  BY OwnerOfNext DEF KeyPhase
<1>3. Ledger!End(k)
  BY <1>1, <1>2, Unmoved DEF Ledger!End
<1> QED BY <1>3 DEF Ledger!Next

LEMMA GrantStep ==
  ASSUME OneLiveCredential, OneLiveCredential', NEW k \in Keys, NEW c \in Clients,
         \A j \in Keys \ {k} : Untouched(j),
         k \in spent, Unheld(k), Pending(k), live[c] = {},
         k \in spent', k \in live'[c]
  PROVE  Ledger!Next
<1>1. KeyPhase(k) = "drawn" /\ KeyPhase(k)' = "held" /\ KeyOwner(k)' = c
  BY OwnerOf, OwnerOfNext DEF KeyPhase
<1>2. \A j \in Keys : KeyOwner(j) # c
  <2> SUFFICES ASSUME NEW j \in Keys PROVE KeyOwner(j) # c
    OBVIOUS
  <2>1. CASE Unheld(j)
    BY <2>1, OwnerOf, DataAssumption
  <2>2. CASE \E d \in Clients : j \in live[d]
    BY <2>2, OwnerOf
  <2> QED BY <2>1, <2>2 DEF Unheld
<1>3. Ledger!Holds(c) = {}
  BY <1>2 DEF Ledger!Holds
<1>4. Ledger!Grant(k, c)
  BY <1>1, <1>3, Unmoved DEF Ledger!Grant
<1> QED BY <1>4 DEF Ledger!Next

-----------------------------------------------------------------------------
(* Which step moves which key.                                             *)

Carries(r, k) == InTxn(r) /\ req[r].keyed = "new" /\ req[r].key = k

LEMMA StillCarried ==
  ASSUME UNCHANGED <<live, spent>>,
         \A r \in Requests, k \in Keys : Carries(r, k)' <=> Carries(r, k)
  PROVE  \A k \in Keys : Untouched(k)
BY DEF Untouched, Pending, Carries

(* Starting, rendering, talking to the agent and giving up before the lock.*)
LEMMA QuietMove ==
  ASSUME IInv, IInv', NEW r \in Requests,
         \/ RefuseIssue(r) \/ RenderIssue(r) \/ ApplyProceeds(r)
         \/ RevokePeer(r) \/ RevokePeerReply(r)
         \/ \E c \in Clients : StartIssue(r, c) \/ \E op \in {"revoke", "delete"} : StartRemoval(r, c, op)
  PROVE  UNCHANGED Ledger!vars
<1>0. /\ TypeOK /\ OneLiveCredential /\ OneLiveCredential'
      /\ Shaped(req[r]) /\ req[r] \in RequestType
  BY DEF IInv, Core, ShapeInv, TypeOK
<1>1. \A o \in Requests \ {r} : req'[o] = req[o]
  BY <1>0 DEF TypeOK, RefuseIssue, RenderIssue, ApplyProceeds, RevokePeer, RevokePeerReply,
              StartIssue, StartRemoval, Finish, Advance
<1>2. UNCHANGED <<live, spent, lock>>
  BY DEF RefuseIssue, RenderIssue, ApplyProceeds, RevokePeer, RevokePeerReply,
         StartIssue, StartRemoval, db
<1>3. \A o \in Requests : InTxn(o)' <=> InTxn(o)
  BY <1>2 DEF IInv, Core, LockInv
<1>4. InTxn(r) => req'[r].keyed = req[r].keyed /\ req'[r].key = req[r].key
  <2>1. CASE RenderIssue(r)
    BY <1>0, <2>1 DEF RenderIssue, TypeOK, RequestType
  <2>2. CASE ApplyProceeds(r)
    <3>1. PICK pc : Advance(r, pc)
      BY <2>2 DEF ApplyProceeds
    <3> QED BY <1>0, <3>1 DEF Advance, TypeOK, RequestType
  <2>3. CASE RefuseIssue(r) \/ RevokePeer(r) \/ RevokePeerReply(r)
    BY <1>0, <2>3 DEF RefuseIssue, RevokePeer, RevokePeerReply, InTxn, TxnSteps, Calling
  <2>4. CASE \E c \in Clients : StartIssue(r, c) \/ \E op \in {"revoke", "delete"} : StartRemoval(r, c, op)
    <3>1. req[r] = Idle
      BY <2>4 DEF StartIssue, StartRemoval
    <3> QED BY <3>1 DEF InTxn, Idle
  <2> QED BY <2>1, <2>2, <2>3, <2>4
<1>5. \A o \in Requests, k \in Keys : Carries(o, k)' <=> Carries(o, k)
  BY <1>1, <1>3, <1>4 DEF Carries
<1> QED BY <1>0, <1>2, <1>5, StillCarried, QuietStep

(* Under the lock a key pair is drawn, or the client's own is reused.      *)
LEMMA LockMove ==
  ASSUME IInv, IInv', NEW r \in Requests, LockInbound(r)
  PROVE  Ledger!Next \/ UNCHANGED Ledger!vars
<1>0. /\ TypeOK /\ OneLiveCredential /\ OneLiveCredential' /\ SpentInv
      /\ Shaped(req[r]) /\ req[r] \in RequestType /\ UNCHANGED live
      /\ req[r].pc = "lock" /\ lock = None /\ lock' = r
  BY DEF IInv, Core, ShapeInv, TypeOK, LockInbound, InboundFree
<1>1. \A o \in Requests : ~InTxn(o) /\ (InTxn(o)' <=> o = r)
  BY <1>0, ProcessAssumption DEF IInv, Core, LockInv
<1>2. \A k \in Keys : ~Pending(k)
  BY <1>1 DEF Pending
<1>3. CASE \E k \in live[req[r].client] :
             req' = [req EXCEPT ![r].pc = "render", ![r].key = k] /\ UNCHANGED spent
  <2>1. PICK k : req' = [req EXCEPT ![r].pc = "render", ![r].key = k] /\ UNCHANGED spent
    BY <1>3
  <2>2. req'[r].keyed # "new"
    BY <1>0, <2>1 DEF TypeOK, RequestType, Shaped, TxnSteps, Calling
  <2>3. \A k2 \in Keys : Untouched(k2)
    BY <1>0, <1>1, <1>2, <2>1, <2>2 DEF Untouched, Pending
  <2> QED BY <1>0, <2>3, QuietStep
<1>4. CASE \E k \in Keys \ spent :
             /\ req' = [req EXCEPT ![r].pc = "render", ![r].key = k, ![r].keyed = "new"]
             /\ spent' = spent \cup {k}
  <2>1. PICK k \in Keys \ spent :
          /\ req' = [req EXCEPT ![r].pc = "render", ![r].key = k, ![r].keyed = "new"]
          /\ spent' = spent \cup {k}
    BY <1>4
  <2>2. req'[r].keyed = "new" /\ req'[r].key = k
    BY <1>0, <2>1 DEF TypeOK, RequestType
  <2>3. Pending(k)' /\ \A j \in Keys \ {k} : ~Pending(j)'
    BY <1>1, <2>2 DEF Pending
  <2>4. Unheld(k) /\ Unheld(k)'
    BY <1>0, <2>1 DEF Unheld, SpentInv
  <2>5. \A j \in Keys \ {k} : Untouched(j)
    BY <1>0, <1>2, <2>1, <2>3 DEF Untouched
  <2> QED BY <1>0, <2>1, <2>3, <2>4, <2>5, DrawStep
<1> QED BY <1>3, <1>4 DEF LockInbound, Existing

(* A transaction that drew a key pair grants or discards it.               *)
LEMMA EndMove ==
  ASSUME IInv, IInv', NEW r \in Requests, FailIssue(r) \/ CommitIssue(r) \/ CrashRequest(r)
  PROVE  Ledger!Next \/ UNCHANGED Ledger!vars
<1>0. /\ TypeOK /\ OneLiveCredential /\ OneLiveCredential' /\ Shaped(req[r])
      /\ UNCHANGED spent /\ req'[r] = Idle /\ \A o \in Requests \ {r} : req'[o] = req[o]
  BY DEF IInv, Core, ShapeInv, FailIssue, CommitIssue, CrashRequest, Finish, TypeOK
<1>1. \A o \in Requests : InTxn(o)' <=> (InTxn(o) /\ o # r)
  BY <1>0 DEF InTxn, Idle, TxnSteps
<1>2. CASE ~(InTxn(r) /\ req[r].keyed = "new")
  <2>1. UNCHANGED live
    BY <1>2 DEF FailIssue, CommitIssue, CrashRequest
  <2>2. \A o \in Requests, j \in Keys : Carries(o, j)' <=> Carries(o, j)
    BY <1>0, <1>1, <1>2 DEF Carries
  <2> QED BY <1>0, <2>1, <2>2, StillCarried, QuietStep
<1>3. CASE InTxn(r) /\ req[r].keyed = "new"
  <2>0. PICK k \in Keys, c \in Clients : k = req[r].key /\ c = req[r].client
    BY <1>0, <1>3 DEF Shaped, InTxn
  <2>1. /\ k \in Keys /\ k \in spent /\ c \in Clients /\ live[c] = {} /\ Unheld(k)
        /\ \A o \in Requests : ~InTxn(o)' /\ (InTxn(o) => o = r)
    BY <1>0, <1>1, <1>3, <2>0 DEF IInv, Core, FreshInv, LockInv, Shaped, Unheld, InTxn
  <2>2. Pending(k) /\ \A j \in Keys : ~Pending(j)' /\ (Pending(j) => j = k)
    BY <1>3, <2>0, <2>1 DEF Pending
  <2>3. CASE UNCHANGED live
    <3>1. Unheld(k)' /\ \A j \in Keys \ {k} : Untouched(j)
      BY <1>0, <2>1, <2>2, <2>3 DEF Unheld, Untouched
    <3> QED BY <1>0, <2>1, <2>2, <3>1, EndsStep
  <2>4. CASE live' = [live EXCEPT ![c] = @ \cup {k}]
    <3>1. \A d \in Clients : live'[d] = IF d = c THEN {k} ELSE live[d]
      BY <1>0, <2>1, <2>4 DEF TypeOK
    <3>2. k \in live'[c] /\ \A j \in Keys \ {k} : Untouched(j)
      BY <1>0, <2>1, <2>2, <3>1 DEF Untouched
    <3> QED BY <1>0, <2>1, <2>2, <3>2, GrantStep
  <2> QED BY <1>3, <2>0, <2>3, <2>4 DEF FailIssue, CommitIssue, CrashRequest
<1> QED BY <1>2, <1>3

(* A removal ends at most the one key its client holds.                    *)
LEMMA RemoveMove ==
  ASSUME IInv, IInv', NEW r \in Requests, CommitRevoke(r) \/ CommitDelete(r)
  PROVE  Ledger!Next \/ UNCHANGED Ledger!vars
<1>0. /\ TypeOK /\ OneLiveCredential /\ OneLiveCredential' /\ Shaped(req[r]) /\ SpentInv
      /\ UNCHANGED <<lock, spent>> /\ ~InTxn(r)
      /\ req'[r] = Idle /\ \A o \in Requests \ {r} : req'[o] = req[o]
  BY DEF IInv, Core, ShapeInv, CommitRevoke, CommitDelete, Finish, InTxn, TypeOK
<1>1. \A o \in Requests : InTxn(o)' <=> InTxn(o)
  BY <1>0 DEF InTxn, Idle, TxnSteps
<1>2. \A j \in Keys : Pending(j)' <=> Pending(j)
  BY <1>0, <1>1 DEF Pending
<1>3. PICK c \in Clients : c = req[r].client
  BY <1>0 DEF Shaped, CommitRevoke, CommitDelete
<1>4. /\ \A d \in Clients \ {c} : live'[d] = live[d]
      /\ live'[c] \subseteq live[c]
  BY <1>0, <1>3 DEF CommitRevoke, CommitDelete, TypeOK
<1>5. CASE live'[c] = live[c]
  <2>1. \A j \in Keys : Untouched(j)
    BY <1>0, <1>2, <1>4, <1>5 DEF Untouched
  <2> QED BY <1>0, <2>1, QuietStep
<1>6. CASE live'[c] # live[c]
  <2>1. PICK k \in live[c] : k \notin live'[c]
    BY <1>4, <1>6
  <2>2. live[c] = {k} /\ k \in Keys /\ k \in spent
    BY <1>0, <1>3, <2>1 DEF OneLiveCredential, SpentInv, TypeOK
  <2>3. \A d \in Clients \ {c} : k \notin live[d]
    BY <1>0, <1>3, <2>1, <2>2 DEF OneLiveCredential
  <2>4. Unheld(k)' /\ ~Unheld(k)
    BY <1>3, <1>4, <2>1, <2>3 DEF Unheld
  <2>5. ~Pending(k)'
    BY <1>2, <1>3, <2>1, <2>2 DEF Pending, IInv, Core, FreshInv
  <2>6. \A j \in Keys \ {k} : Untouched(j)
    BY <1>0, <1>2, <1>3, <1>4, <2>1, <2>2 DEF Untouched
  <2> QED BY <1>0, <2>2, <2>4, <2>5, <2>6, EndsStep
<1> QED BY <1>5, <1>6

-----------------------------------------------------------------------------
LEMMA LedgerInit == Init => Ledger!Init
<1> SUFFICES ASSUME Init PROVE Ledger!Init
  OBVIOUS
<1>1. \A k \in Keys : KeyPhase(k) = "new" /\ KeyOwner(k) = None
  BY DEF Init, KeyPhase, KeyOwner, HeldBy
<1> QED BY <1>1 DEF Ledger!Init

LEMMA LedgerStep == IInv /\ IInv' /\ [Next]_vars => Ledger!Next \/ UNCHANGED Ledger!vars
<1> SUFFICES ASSUME IInv, IInv', [Next]_vars PROVE Ledger!Next \/ UNCHANGED Ledger!vars
  OBVIOUS
<1>1. OneLiveCredential /\ OneLiveCredential'
  BY DEF IInv, Core
<1>2. CASE \E r \in Requests : IssueStep(r) \/ RefuseIssue(r) \/ RemovalStep(r) \/ CrashRequest(r)
  BY <1>2, QuietMove, LockMove, EndMove, RemoveMove DEF IssueStep, RemovalStep
<1>3. CASE \E r \in Requests, c \in Clients :
             StartIssue(r, c) \/ \E op \in {"revoke", "delete"} : StartRemoval(r, c, op)
  BY <1>3, QuietMove
<1>4. CASE UNCHANGED <<req, live, spent>>
  <2>1. \A r \in Requests, k \in Keys : Carries(r, k)' <=> Carries(r, k)
    BY <1>4 DEF Carries, InTxn
  <2> QED BY <1>1, <1>4, <2>1, StillCarried, QuietStep
<1>5. UNCHANGED vars \/ (\E c \in Clients : Renew(c) \/ Lapse(c)) \/ WorkerStep \/ CrashWorker
        \/ (\E p \in Procs : AgentHandle(p) \/ CallFails(p) \/ CallTimesOut(p))
        \/ (\E m \in late : AgentHandleLate(m)) => UNCHANGED <<req, live, spent>>
  BY DEF vars, db, Renew, Lapse, WorkerStep, Collect, ReadQuotas, CommitQuotas, AbortCycle,
         Reconcile, Reconciled, CrashWorker, AgentHandle, CallFails, CallTimesOut, AgentHandleLate
<1> QED BY <1>2, <1>3, <1>4, <1>5 DEF Next

(* The whole machinery of locks, agent calls, rollbacks and crashes keeps  *)
(* the ledger: a key is granted once, to a client that holds none, and a   *)
(* dead key never returns (credentials.py:59-143, clients.py:122-197).     *)
THEOREM Implementation == Spec => ImplementsLedger
<1>1. IInv /\ IInv' /\ [Next]_vars => [Ledger!Next]_(Ledger!vars)
  BY LedgerStep
<1> QED BY LedgerInit, Invariance, <1>1, PTL DEF Spec, ImplementsLedger, Ledger!Spec

=============================================================================
