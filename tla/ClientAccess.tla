---------------------------- MODULE ClientAccess ----------------------------
(***************************************************************************)
(* Who may use one WireGuard inbound, and which peers its node really      *)
(* serves.  The database (clients, credentials, the inbound row's lock),   *)
(* the API requests that issue, revoke and delete (each split where it     *)
(* reads, calls the node agent and commits), the worker's cycle and the    *)
(* node's interface.  A call to the agent can fail, or time out and be     *)
(* executed later; a process can die between two steps.                    *)
(***************************************************************************)
EXTENDS Integers, FiniteSets

CONSTANTS
  Clients,      \* clients of the inbound, already created
  Keys,         \* key pairs the control plane may generate
  Requests,     \* API threads
  Worker,       \* the worker process
  None,         \* no lock holder, no client, no key
  Metered,      \* clients with a Quota row
  Expiring,     \* clients with an expiry date
  MaxRequests,  \* bound: API requests started
  MaxFaults     \* bound: failed, lost or late calls, crashes and expiries

ASSUME ProcessAssumption == Worker \notin Requests /\ None \notin Requests
ASSUME DataAssumption == None \notin Clients /\ None \notin Keys
\* Setting an expiry date creates the Quota row as well.
ASSUME QuotaAssumption == Expiring \subseteq Metered /\ Metered \subseteq Clients
ASSUME BoundAssumption == MaxRequests \in Nat /\ MaxFaults \in Nat

Procs == Requests \cup {Worker}
Statuses == {"ACTIVE", "SUSPENDED", "EXPIRED", "REVOKED", "DELETED"}

VARIABLES
  status,   \* clients.status; DELETED: the row is gone
  lapsed,   \* clients whose expires_at has passed
  live,     \* live[c]: committed credentials of c with revoked_at NULL
  spent,    \* key pairs generated so far
  lock,     \* the request that holds the inbound row FOR UPDATE
  req,      \* the API requests
  started,  \* requests started so far
  wk,       \* the worker's cycle
  node,     \* nodes.state
  call,     \* call[p]: the agent call p waits for
  late,     \* calls whose caller gave up and the agent may still execute
  iface,    \* the node's interface: is it up, and its peers
  faults    \* faults so far

db == <<status, lapsed, live, spent, lock, started>>
vars == <<status, lapsed, live, spent, lock, started,
          req, wk, node, call, late, iface, faults>>

-----------------------------------------------------------------------------
(* Requests and the worker.                                                *)

Idle == [op |-> "idle", pc |-> "idle", client |-> None, key |-> None,
         keyed |-> "reused", plan |-> {}, todo |-> {}, seen |-> "ACTIVE"]

Calling == {"apply", "check", "clean", "reapply", "recheck"}
TxnSteps == {"render", "commit"} \cup Calling

RequestType ==
  [op : {"idle", "issue", "revoke", "delete"},
   pc : {"idle", "lock", "revoke"} \cup TxnSteps,
   client : Clients \cup {None},  key : Keys \cup {None},
   keyed : {"reused", "new"},  \* issue: the client's key pair, or a new one
   plan : SUBSET Keys,    \* issue: the rendered peers; else the credentials read
   todo : SUBSET Keys,    \* revoke, delete: peers the agent is still to remove
   seen : Statuses]       \* the status the request read

Exists(c) == status[c] # "DELETED"
Fault == faults < MaxFaults /\ faults' = faults + 1

(* A request holds the inbound row from its FOR UPDATE to commit/rollback. *)
InTxn(r) == req[r].op = "issue" /\ req[r].pc \in TxnSteps

InboundUnlocked == TRUE  \* a query without with_for_update
InboundFree == lock = None

NoRollback == UNCHANGED lock  \* an error path that leaves the session open
EndTxn == lock' = None

(* The Device row is flushed: the client row is locked FOR KEY SHARE, and  *)
(* a DELETE of the client waits.                                           *)
Flushed(r) == InTxn(r) /\ req[r].keyed = "new" /\ req[r].pc # "render"
NeverReferenced(c) == FALSE  \* no foreign key
Referenced(c) == \E o \in Requests : Flushed(o) /\ req[o].client = c

-----------------------------------------------------------------------------
(* Calls to the agent.  "health" and "check" only read.                    *)

NoCall == [op |-> "none", arg |-> {}, st |-> "idle"]
Send(p, op, arg) == call' = [call EXCEPT ![p] = [op |-> op, arg |-> arg, st |-> "sent"]]
Hangup(p) == call' = [call EXCEPT ![p] = NoCall]
Waiting(p) == call[p].st = "sent"
Ok(p) == call[p].st = "ok"
Failed(p) == call[p].st = "error"

(* An agent that leaves an interface alone that is up.                     *)
EffectWhenDown(m) ==
  CASE m.op = "apply" /\ iface.link = "down" -> [link |-> "up", peers |-> m.arg]
    [] m.op = "remove" -> [link |-> "down", peers |-> {}]
    [] m.op = "revoke" -> [iface EXCEPT !.peers = @ \ m.arg]
    [] OTHER           -> iface

(* The interface after the agent executed the call m.                      *)
Effect(m) ==
  CASE m.op = "apply"  -> [link |-> "up", peers |-> m.arg]
    [] m.op = "remove" -> [link |-> "down", peers |-> {}]
    [] m.op = "revoke" -> [iface EXCEPT !.peers = @ \ m.arg]
    [] OTHER           -> iface

(* Does it answer 200?  A check demands the expected peers, and tolerates  *)
(* others.                                                                 *)
Accepts(m) ==
  CASE m.op = "check"  -> iface.link = "up" /\ m.arg \subseteq iface.peers
    [] m.op = "revoke" -> iface.link = "up"
    [] OTHER           -> TRUE

Answer(p, st) == call' = [call EXCEPT ![p].st = st]

AgentHandle(p) ==
  /\ Waiting(p)
  /\ iface' = Effect(call[p])
  /\ Answer(p, IF Accepts(call[p]) THEN "ok" ELSE "error")
  /\ UNCHANGED <<db, req, wk, node, late, faults>>

(* The connection fails, or the agent's apply does: a failed wg-quick may  *)
(* leave the interface down.                                               *)
CallFails(p) ==
  /\ Waiting(p) /\ Fault
  /\ Answer(p, "error")
  /\ \/ UNCHANGED iface
     \/ call[p].op = "apply" /\ iface' = [link |-> "down", peers |-> {}]
  /\ UNCHANGED <<db, req, wk, node, late>>

Abandoned(p) == IF Waiting(p) /\ call[p].op \in {"apply", "remove", "revoke"}
                THEN {[op |-> call[p].op, arg |-> call[p].arg, id |-> faults]} ELSE {}

(* The caller's HTTP timeout expires before the agent is done.             *)
CallTimesOut(p) ==
  /\ Waiting(p) /\ Fault
  /\ late' = late \cup Abandoned(p)
  /\ Answer(p, "error")
  /\ UNCHANGED <<db, req, wk, node, iface>>

AgentHandleLate(m) ==
  /\ iface' = Effect(m)
  /\ late' = late \ {m}
  /\ UNCHANGED <<db, req, wk, node, call, faults>>

-----------------------------------------------------------------------------
(* issue: POST /clients/{id}/credentials                                   *)

Advance(r, pc) == req' = [req EXCEPT ![r].pc = pc]
Finish(r) == req' = [req EXCEPT ![r] = Idle]
Begin == started < MaxRequests /\ started' = started + 1

StartIssue(r, c) ==
  /\ req[r] = Idle /\ Begin
  /\ status[c] = "ACTIVE" /\ c \notin lapsed
  /\ req' = [req EXCEPT ![r] = [Idle EXCEPT !.op = "issue", !.pc = "lock", !.client = c]]
  /\ UNCHANGED <<status, lapsed, live, spent, lock, wk, node, call, late, iface, faults>>

NoneExisting(c) == {}  \* every request draws a key pair
Existing(c) == live[c]

(* Under the lock: reuse the live credential, or draw a key pair.          *)
LockInbound(r) ==
  LET c == req[r].client IN
  /\ req[r].pc = "lock" /\ InboundFree
  /\ lock' = r
  /\ \/ \E k \in Existing(c) :
          /\ req' = [req EXCEPT ![r].pc = "render", ![r].key = k]
          /\ UNCHANGED spent
     \/ /\ Existing(c) = {}
        /\ \E k \in Keys \ spent :
             /\ req' = [req EXCEPT ![r].pc = "render", ![r].key = k, ![r].keyed = "new"]
             /\ spent' = spent \cup {k}
  /\ UNCHANGED <<status, lapsed, live, started, wk, node, call, late, iface, faults>>

(* Inbound disabled, maximum device limit, no free address: rolled back.   *)
RefuseIssue(r) ==
  /\ req[r].pc = "lock" /\ InboundFree
  /\ Finish(r)
  /\ UNCHANGED <<db, wk, node, call, late, iface, faults>>

(* render_inbound sees committed rows and the request's own new credential,*)
(* of clients that are ACTIVE and not expired.                             *)
Served == {c \in Clients : status[c] = "ACTIVE" /\ c \notin lapsed}
Own(r) == IF req[r].keyed = "new" /\ req[r].client \in Served THEN {req[r].key} ELSE {}
Rendered(r) == Own(r) \cup UNION {live[c] : c \in Served}

RenderIssue(r) ==
  /\ req[r].pc = "render" /\ Exists(req[r].client)
  /\ req' = [req EXCEPT ![r].pc = "apply", ![r].plan = Rendered(r)]
  /\ Send(r, "apply", Rendered(r))
  /\ UNCHANGED <<db, wk, node, late, iface, faults>>

(* agent_client.apply: apply and validate; a failed validation removes the *)
(* interface, then applies and validates once more.                        *)
ApplyProceeds(r) ==
  LET to(pc, op, arg) == Advance(r, pc) /\ Send(r, op, arg) IN
  /\ req[r].pc \in Calling
  /\ \/ req[r].pc = "apply"   /\ Ok(r) /\ to("check", "check", req[r].plan)
     \/ req[r].pc = "check"   /\ Failed(r) /\ to("clean", "remove", {})
     \/ req[r].pc = "clean"   /\ Ok(r) /\ to("reapply", "apply", req[r].plan)
     \/ req[r].pc = "reapply" /\ Ok(r) /\ to("recheck", "check", req[r].plan)
     \/ req[r].pc \in {"check", "recheck"} /\ Ok(r) /\ Advance(r, "commit") /\ Hangup(r)
  /\ UNCHANGED <<db, wk, node, late, iface, faults>>

(* 502 or 500: the transaction is rolled back, which releases the lock; a  *)
(* new key pair is lost.  The client may have been deleted meanwhile: the  *)
(* device's or the artifact's foreign key then fails.                      *)
FailIssue(r) ==
  /\ \/ req[r].pc \in Calling \ {"check"} /\ Failed(r)
     \/ req[r].pc = "render" /\ ~Exists(req[r].client)
     \/ req[r].pc = "commit" /\ InTxn(r) /\ req[r].keyed = "reused" /\ ~Exists(req[r].client)
  /\ EndTxn
  /\ Finish(r) /\ Hangup(r)
  /\ UNCHANGED <<status, lapsed, live, spent, started, wk, node, late, iface, faults>>

CommitIssue(r) ==
  LET c == req[r].client IN
  /\ req[r].pc = "commit" /\ InTxn(r) /\ (req[r].keyed = "new" \/ Exists(c))
  /\ live' = IF req[r].keyed = "new" THEN [live EXCEPT ![c] = @ \cup {req[r].key}] ELSE live
  /\ EndTxn
  /\ Finish(r)
  /\ UNCHANGED <<status, lapsed, spent, started, wk, node, call, late, iface, faults>>

-----------------------------------------------------------------------------
(* revoke: POST /clients/{id}/revoke.  delete_client: DELETE /clients/{id} *)

StartRemoval(r, c, op) ==
  /\ req[r] = Idle /\ Begin
  /\ Exists(c)
  /\ req' = [req EXCEPT ![r] =
       [Idle EXCEPT !.op = op, !.client = c, !.plan = live[c], !.todo = live[c],
                    !.seen = status[c], !.pc = IF live[c] = {} THEN "commit" ELSE "revoke"]]
  /\ UNCHANGED <<status, lapsed, live, spent, lock, wk, node, call, late, iface, faults>>

(* One agent call per credential; the first failure answers 502 and leaves *)
(* the database alone.                                                     *)
RevokePeer(r) ==
  /\ req[r].pc = "revoke" /\ call[r] = NoCall
  /\ \E k \in req[r].todo :
       /\ req' = [req EXCEPT ![r].todo = @ \ {k}]
       /\ Send(r, "revoke", {k})
  /\ UNCHANGED <<db, wk, node, late, iface, faults>>

RevokePeerReply(r) ==
  /\ req[r].pc = "revoke"
  /\ \/ Ok(r) /\ Advance(r, IF req[r].todo = {} THEN "commit" ELSE "revoke")
     \/ Failed(r) /\ Finish(r)
  /\ Hangup(r)
  /\ UNCHANGED <<db, wk, node, late, iface, faults>>

RevokedByName(c) == [status EXCEPT ![c] = "revoked"]  \* not the enumeration's value
Revoked(c) == [status EXCEPT ![c] = "REVOKED"]

(* UPDATE clients is skipped when the status read was REVOKED already; a   *)
(* client row deleted meanwhile fails the flush and rolls back.            *)
CommitRevoke(r) ==
  LET c == req[r].client IN
  /\ req[r].pc = "commit" /\ req[r].op = "revoke"
  /\ IF Exists(c)
     THEN /\ status' = IF req[r].seen = "REVOKED" THEN status ELSE Revoked(c)
          /\ live' = [live EXCEPT ![c] = @ \ req[r].plan]
     ELSE UNCHANGED <<status, live>>
  /\ Finish(r)
  /\ UNCHANGED <<lapsed, spent, lock, started, wk, node, call, late, iface, faults>>

(* The DELETE cascades to the client's credentials.                        *)
CommitDelete(r) ==
  LET c == req[r].client IN
  /\ req[r].pc = "commit" /\ req[r].op = "delete"
  /\ ~Referenced(c)
  /\ status' = [status EXCEPT ![c] = "DELETED"]
  /\ live' = [live EXCEPT ![c] = {}]
  /\ Finish(r)
  /\ UNCHANGED <<lapsed, spent, lock, started, wk, node, call, late, iface, faults>>

(* update_client with a later expires_at.  The status is not restored.     *)
Renew(c) ==
  /\ Begin
  /\ c \in lapsed /\ status[c] \notin {"REVOKED", "DELETED"}
  /\ lapsed' = lapsed \ {c}
  /\ UNCHANGED <<status, live, spent, lock, req, wk, node, call, late, iface, faults>>

Lapse(c) ==
  /\ c \in Expiring \ lapsed /\ Fault
  /\ lapsed' = lapsed \cup {c}
  /\ UNCHANGED <<status, live, spent, lock, started, req, wk, node, call, late, iface>>

-----------------------------------------------------------------------------
(* The worker: collect_traffic, enforce_quotas, then reconcile the node.   *)

(* marks[c]: the status to write, "keep" the one read, or no Quota row read.*)
Marks == {"ACTIVE", "SUSPENDED", "EXPIRED", "keep", "skip"}
NoMarks == [c \in Clients |-> "skip"]
Rest == [pc |-> "collect", marks |-> NoMarks]
WorkerType == [pc : {"collect", "quota", "enforce", "health", "sync"},
               marks : [Clients -> Marks]]

OnlyReady == node = "ready"  \* a filter that leaves degraded nodes out as well
Selected == node \notin {"quarantined", "provision_failed"}

(* Reading the counters of an interface that is down fails the node.       *)
Collect ==
  /\ wk.pc = "collect" /\ Selected
  /\ wk' = [wk EXCEPT !.pc = "quota"]
  /\ \/ iface.link = "up" /\ UNCHANGED <<node, faults>>
     \/ iface.link = "down" /\ node' = "degraded" /\ UNCHANGED faults
     \/ Fault /\ node' = "degraded"
  /\ UNCHANGED <<db, req, call, late, iface>>

(* What enforce_quotas may decide for a client with a Quota row: expired,  *)
(* over a limit, in the warning band, or normal, which restores a suspended*)
(* client.  Usage, windows and device counts are left open.                *)
Verdicts(c) ==
  IF c \in lapsed THEN {"EXPIRED"}
  ELSE {"SUSPENDED", status[c]} \cup (IF status[c] = "SUSPENDED" THEN {"ACTIVE"} ELSE {})

(* A status is written only when it differs from the one read.             *)
MarksFor(c) ==
  IF c \in Metered /\ Exists(c)
  THEN {IF v = status[c] THEN "keep" ELSE v : v \in Verdicts(c)}
  ELSE {"skip"}

ReadQuotas ==
  /\ wk.pc = "quota"
  /\ \E m \in [Clients -> Marks] :
       /\ \A c \in Clients : m[c] \in MarksFor(c)
       /\ wk' = [pc |-> "enforce", marks |-> m]
  /\ UNCHANGED <<db, req, node, call, late, iface, faults>>

Written(c) == wk.marks[c] \notin {"keep", "skip"}
Loaded(c) == wk.marks[c] # "skip"

CommitQuotas ==
  /\ wk.pc = "enforce"
  /\ \A c \in Clients : Written(c) => Exists(c)
  /\ status' = [c \in Clients |-> IF Written(c) THEN wk.marks[c] ELSE status[c]]
  /\ wk' = [pc |-> "health", marks |-> NoMarks]
  /\ Send(Worker, "health", {})
  /\ UNCHANGED <<lapsed, live, spent, lock, started, req, node, late, iface, faults>>

(* A row updated by the cycle is gone: the flush fails and the whole cycle *)
(* is abandoned.  The Quota row of a kept status may have changed too.     *)
AbortCycle ==
  /\ wk.pc = "enforce"
  /\ \E c \in Clients : Loaded(c) /\ ~Exists(c)
  /\ wk' = Rest
  /\ UNCHANGED <<db, req, node, call, late, iface, faults>>

(* A variant that drops revoked clients only.                              *)
DesiredNotRevoked == UNION {live[c] : c \in {d \in Clients : status[d] # "REVOKED"}}

(* _wg_config: every live credential of an ACTIVE client.                  *)
Desired == UNION {live[c] : c \in {d \in Clients : status[d] = "ACTIVE"}}

Reconcile ==
  /\ wk.pc = "health" /\ Ok(Worker)
  /\ wk' = [wk EXCEPT !.pc = "sync"]
  /\ Send(Worker, "apply", Desired)
  /\ UNCHANGED <<db, req, node, late, iface, faults>>

Reconciled ==
  /\ wk.pc \in {"health", "sync"}
  /\ \/ wk.pc = "sync" /\ Ok(Worker) /\ node' = "ready"
     \/ Failed(Worker) /\ node' = "degraded"
  /\ wk' = Rest
  /\ Hangup(Worker)
  /\ UNCHANGED <<db, req, late, iface, faults>>

-----------------------------------------------------------------------------
(* A process dies; the database rolls back and releases its locks.         *)

CrashRequest(r) ==
  /\ req[r] # Idle /\ Fault
  /\ late' = late \cup Abandoned(r)
  /\ lock' = IF InTxn(r) THEN None ELSE lock
  /\ Finish(r) /\ Hangup(r)
  /\ UNCHANGED <<status, lapsed, live, spent, started, wk, node, iface>>

CrashWorker ==
  /\ wk # Rest /\ Fault
  /\ late' = late \cup Abandoned(Worker)
  /\ wk' = Rest /\ Hangup(Worker)
  /\ UNCHANGED <<db, req, node, iface>>

-----------------------------------------------------------------------------
Init ==
  /\ status = [c \in Clients |-> "ACTIVE"]
  /\ lapsed = {}
  /\ live = [c \in Clients |-> {}]
  /\ spent = {}
  /\ lock = None
  /\ req = [r \in Requests |-> Idle]
  /\ started = 0
  /\ wk = Rest
  /\ node = "ready"
  /\ call = [p \in Procs |-> NoCall]
  /\ late = {}
  /\ iface = [link |-> "up", peers |-> {}]
  /\ faults = 0

IssueStep(r) == LockInbound(r) \/ RenderIssue(r) \/ ApplyProceeds(r) \/ FailIssue(r) \/ CommitIssue(r)
RemovalStep(r) == RevokePeer(r) \/ RevokePeerReply(r) \/ CommitRevoke(r) \/ CommitDelete(r)
WorkerStep == Collect \/ ReadQuotas \/ CommitQuotas \/ AbortCycle \/ Reconcile \/ Reconciled

Next ==
  \/ \E r \in Requests : IssueStep(r) \/ RefuseIssue(r) \/ RemovalStep(r) \/ CrashRequest(r)
  \/ \E r \in Requests, c \in Clients :
       StartIssue(r, c) \/ \E op \in {"revoke", "delete"} : StartRemoval(r, c, op)
  \/ \E c \in Clients : Renew(c) \/ Lapse(c)
  \/ WorkerStep \/ CrashWorker
  \/ \E p \in Procs : AgentHandle(p) \/ CallFails(p) \/ CallTimesOut(p)
  \/ \E m \in late : AgentHandleLate(m)

Spec == Init /\ [][Next]_vars

(* The worker is restarted and loops, requests run on, the agent answers   *)
(* and late calls are executed in the end; nobody is obliged to start a    *)
(* request, and nothing that fails has to.                                 *)
Fairness ==
  /\ WF_vars(WorkerStep)
  /\ \A r \in Requests : WF_vars(IssueStep(r) \/ RefuseIssue(r)) /\ WF_vars(RemovalStep(r))
  /\ \A p \in Procs : WF_vars(AgentHandle(p))
  /\ WF_vars(\E m \in late : AgentHandleLate(m))

FairSpec == Spec /\ Fairness

-----------------------------------------------------------------------------
CallType == [op : {"none", "apply", "check", "remove", "revoke", "health"},
             arg : SUBSET Keys, st : {"idle", "sent", "ok", "error"}]

TypeOK ==
  /\ status \in [Clients -> Statuses]
  /\ lapsed \subseteq Clients
  /\ live \in [Clients -> SUBSET Keys]
  /\ spent \subseteq Keys
  /\ lock \in Requests \cup {None}
  /\ req \in [Requests -> RequestType]
  /\ started \in 0 .. MaxRequests
  /\ wk \in WorkerType
  /\ node \in {"ready", "degraded"}
  /\ call \in [Procs -> CallType]
  /\ late \subseteq [op : {"apply", "remove", "revoke"}, arg : SUBSET Keys, id : 0 .. MaxFaults]
  /\ iface \in [link : {"up", "down"}, peers : SUBSET Keys]
  /\ faults \in 0 .. MaxFaults

(* A client never has two credentials in force, and no key serves two      *)
(* clients, however its issue requests interleave: credentials.py:59-61    *)
(* "Download is idempotent: do not create another device/peer".            *)
OneLiveCredential ==
  \A c, d \in Clients : \A j \in live[c], k \in live[d] : c = d <=> j = k

(* A deleted client leaves no credential behind, although delete_client    *)
(* takes no lock and an issue for it may be under way.                     *)
NoOrphanCredential == \A c \in Clients : ~Exists(c) => live[c] = {}

-----------------------------------------------------------------------------
(* The database as a ledger of key pairs.                                  *)

Pending(k) == \E r \in Requests : InTxn(r) /\ req[r].keyed = "new" /\ req[r].key = k
HeldBy(k) == {c \in Clients : k \in live[c]}

KeyPhase(k) ==
  IF k \notin spent THEN "new"
  ELSE IF HeldBy(k) # {} THEN "held"
  ELSE IF Pending(k) THEN "drawn" ELSE "dead"

KeyOwner(k) == IF HeldBy(k) = {} THEN None ELSE CHOOSE c \in Clients : c \in HeldBy(k)

Ledger == INSTANCE CredentialLedger WITH
  NoClient <- None,
  phase <- [k \in Keys |-> KeyPhase(k)],
  owner <- [k \in Keys |-> KeyOwner(k)]

(* Issue, revoke, delete, rollback and crash implement the ledger: a key   *)
(* that was revoked, or whose request failed, never returns, and a client  *)
(* is granted a key only while it holds none (credentials.py:59-65).       *)
ImplementsLedger == Ledger!Spec

-----------------------------------------------------------------------------
(* Every issue, revoke and delete ends: the inbound's lock is always       *)
(* released, and waiting for it or for a client row is never for ever.     *)
RequestsAnswered == \A r \in Requests : req[r] # Idle ~> req[r] = Idle

Authorised(k) == \E c \in Clients : k \in live[c] /\ status[c] = "ACTIVE"

(* A key that stays unauthorised stays off the node: late calls and a      *)
(* reconciliation that read the database before a revocation are repaired, *)
(* as is a peer whose issue was rolled back (worker.py:115-116 counts on   *)
(* the next reconciliation).                                               *)
KeysCutOff == \A k \in Keys : <>[]~Authorised(k) => <>[](k \notin iface.peers)

(* A key that stays authorised is served in the end, even if the worker's  *)
(* reconciliation raced with the issue and wiped it.                       *)
KeysServed == \A k \in Keys : <>[]Authorised(k) => <>[](k \in iface.peers)

(* A node degraded by a failed call is reconciled and ready again.         *)
NodeRecovers == <>[](node = "ready")

=============================================================================
