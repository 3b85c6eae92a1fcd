---------------------------- MODULE Representatives ----------------------------
(***************************************************************************)
(* Representatives, the inbounds they are allowed, the limits of their     *)
(* access, and the clients they and the managers create, each with an      *)
(* address of its inbound.  The requests read in one transaction and write *)
(* later in it, under PostgreSQL's default isolation: a statement sees the *)
(* rows committed when it starts, waits for rows that another transaction  *)
(* has deleted, and unique keys are settled when rows are inserted.        *)
(***************************************************************************)
EXTENDS Integers, FiniteSets, FiniteSetsExt

CONSTANTS
  Reps,         \* representatives
  Inbounds,     \* inbounds of the tenant
  Ids,          \* clients
  Handlers,     \* requests in progress at once
  Hosts,        \* the host addresses of every inbound's network, in order
  Server,       \* the inbound's own
  Prefixes,     \* prefix lengths a request may write after an address
  None,         \* no row, no creator: a manager's client, or one left behind
  MaxRequests   \* bound: requests

ASSUME HostAssumption == Hosts \subseteq Nat /\ IsFiniteSet(Hosts) /\ Server \in Hosts
ASSUME NoneAssumption == None \notin Reps \cup Ids \cup Handlers
ASSUME BoundAssumption == MaxRequests \in Nat

VARIABLES
  admin,    \* the row of each representative: its limits, or why there is none
  scope,    \* the inbounds each is allowed, committed
  clients,  \* the clients' rows
  lock,     \* who has deleted a row of the scope and not committed yet
  req,      \* the requests
  asked,    \* the scope that the last committed request asked for
  beside,   \* the inbounds of the updates that it overlapped
  lifted,   \* the last update of the limits overlapped another, and one lifted them
  quota,    \* what admin_quota_state says of each
  arrived

vars == <<admin, scope, clients, lock, req, asked, beside, lifted, quota, arrived>>
table == <<admin, scope, clients, quota>>
history == <<asked, beside, lifted>>

Address == [host : Hosts, prefix : Prefixes]
Client == [by : Reps \cup {None}, inbound : Inbounds, address : Address]
Row == [state : {"none", "present", "deleted"}, enabled : BOOLEAN,
        limit : BOOLEAN, days : BOOLEAN, started : BOOLEAN]
(* quota_gb, as a request gives it, and whether whole bytes of it remain   *)
(* for the row: less than half a byte is a limit asked for and none stored. *)
Quotas == {"zero", "tiny", "bytes"}
Bytes(q) == q = "bytes"
Goal == [quota : Quotas, days : BOOLEAN]

LimitsType == [limit : BOOLEAN, days : BOOLEAN, started : BOOLEAN]
Limits(row) == [limit |-> row.limit, days |-> row.days, started |-> row.started]

Absent(state) == [state |-> state, enabled |-> FALSE, limit |-> FALSE, days |-> FALSE, started |-> FALSE]
Present == {r \in Reps : admin[r].state = "present"}
Owned(r) == {c \in Ids : clients[c] # None /\ clients[c].by = r}
On(i) == {c \in Ids : clients[c] # None /\ clients[c].inbound = i}

Idle == [op |-> "none"]
Updates(r) == {h \in Handlers : req[h].op = "update" /\ req[h].rep = r}

Arrives == arrived < MaxRequests /\ arrived' = arrived + 1
Ready(h) == req[h] = Idle /\ arrived < MaxRequests
Accept(h, r) == Ready(h) /\ arrived' = arrived + 1 /\ req' = [req EXCEPT ![h] = r]

-----------------------------------------------------------------------------
(* What a representative may do (admin_quota_state, current_admin).        *)

(* The period has a start and may be over; the traffic of its clients may  *)
(* have reached the limit.                                                 *)
MayExpire(row) == row.days /\ row.started
MayReach(r, row) == row.limit /\ Owned(r) # {}

Expire(r) ==
  /\ MayExpire(admin[r]) /\ quota[r] # "EXPIRED"
  /\ quota' = [quota EXCEPT ![r] = "EXPIRED"]
  /\ UNCHANGED <<admin, scope, clients, lock, req, history, arrived>>

ReachLimit(r) ==
  /\ MayReach(r, admin[r]) /\ quota[r] = "NORMAL"
  /\ quota' = [quota EXCEPT ![r] = "LIMIT_REACHED"]
  /\ UNCHANGED <<admin, scope, clients, lock, req, history, arrived>>

(* With other limits, the old verdict may stand or not.                    *)
Verdicts(r, row) ==
  {"NORMAL"} \cup (IF MayExpire(row) THEN {quota[r]} \cap {"EXPIRED"} ELSE {})
             \cup (IF MayReach(r, row) THEN {"LIMIT_REACHED"} ELSE {})

(* disable_admin, and update_admin when it sets the flag.                  *)
SetEnabled(r) ==
  /\ r \in Present /\ Arrives
  /\ admin' = [admin EXCEPT ![r].enabled = ~@]
  /\ UNCHANGED <<scope, clients, quota, lock, req, history>>

-----------------------------------------------------------------------------
(* create_client                                                           *)

(* A representative creates clients while its account is enabled, its      *)
(* period not over and its traffic not used up, on the inbounds it is      *)
(* allowed.                                                                *)
MayUse(by, i) == by # None => (by \in Present /\ i \in scope[by])
MayCreate(by) == by # None => (admin[by].enabled /\ quota[by] = "NORMAL")

Valid(a) == a.host # Server

Taken(i, a) == \E c \in On(i) : clients[c].address = a

(* The addresses in use, whatever prefix they are written with.            *)
Used(i) == {clients[c].address.host : c \in On(i)} \cup {Server}
FreeHosts(i) == Hosts \ Used(i)

(* An address in use is replaced by the first free one.                    *)
Assigned(i, a) == IF Taken(i, a) THEN [a EXCEPT !.host = Min(FreeHosts(i))] ELSE a

Create(h, by, i, a) ==
  /\ Ready(h) /\ MayUse(by, i) /\ MayCreate(by) /\ Valid(a)
  /\ Taken(i, a) => FreeHosts(i) # {}
  /\ Accept(h, [op |-> "create", by |-> by, inbound |-> i, address |-> Assigned(i, a)])
  /\ UNCHANGED <<table, lock, history>>

NotSettled(i, a) == FALSE
Settled(i, a) == Taken(i, a)

(* The creator's row must still be there, and the address be the only one  *)
(* of the inbound, as text; otherwise the request fails.                   *)
Insert(h) ==
  /\ req[h].op = "create"
  /\ LET r == req[h] IN
       IF Settled(r.inbound, r.address) \/ r.by \notin Present \cup {None}
       THEN UNCHANGED clients
       ELSE \E c \in Ids :
              /\ clients[c] = None
              /\ clients' = [clients EXCEPT ![c] = [by |-> r.by, inbound |-> r.inbound,
                                                    address |-> r.address]]
  /\ req' = [req EXCEPT ![h] = Idle]
  /\ UNCHANGED <<admin, scope, quota, lock, history, arrived>>

(* The traffic of a client that is gone no longer counts.                  *)
DeleteClient(c) ==
  /\ clients[c] # None /\ Arrives
  /\ clients' = [clients EXCEPT ![c] = None]
  /\ IF clients[c].by # None /\ quota[clients[c].by] = "LIMIT_REACHED"
       THEN quota' \in {[quota EXCEPT ![clients[c].by] = "NORMAL"]}
                       \cup (IF Owned(clients[c].by) # {c} THEN {quota} ELSE {})
       ELSE UNCHANGED quota
  /\ UNCHANGED <<admin, scope, lock, req, history>>

-----------------------------------------------------------------------------
(* create_admin, update_admin, delete_admin_permanently                    *)

(* No limits in the row, and none in the request.                          *)
Unlimited(row) == ~row.limit /\ ~row.days
AskedNone(goal) == goal.quota = "zero" /\ ~goal.days

(* The day the access counts from, as an UPDATE leaves it: none when no     *)
(* limits are asked for, a new one when the row that was read had no limits *)
(* or no day; otherwise the column is not written.                          *)
StartKept(row, seen, goal) ==
  IF AskedNone(goal) THEN ~seen.started /\ row.started ELSE row.started
Start(row, seen, goal) ==
  IF AskedNone(goal) THEN ~seen.started /\ row.started
  ELSE Unlimited(seen) \/ ~seen.started \/ row.started

NewAdmin(goal, enabled) ==
  [state |-> "present", enabled |-> enabled, limit |-> Bytes(goal.quota), days |-> goal.days,
   started |-> ~AskedNone(goal)]

CreateAdmin(r) ==
  /\ admin[r].state = "none" /\ Arrives
  /\ \E goal \in Goal, enabled \in BOOLEAN, s \in (SUBSET Inbounds) \ {{}} :
       /\ admin' = [admin EXCEPT ![r] = NewAdmin(goal, enabled)]
       /\ scope' = [scope EXCEPT ![r] = s] /\ asked' = [asked EXCEPT ![r] = s]
  /\ UNCHANGED <<clients, quota, lock, req, beside, lifted>>

(* The fields a request sets; seen is the row it has read.                 *)
Update(h, r, fields) ==
  /\ Ready(h) /\ r \in Present
  /\ \E s \in (SUBSET Inbounds) \ {{}}, goal \in Goal :
       /\ "scope" \notin fields => s = Inbounds
       /\ "limits" \notin fields => goal = [quota |-> "zero", days |-> FALSE]
       /\ Accept(h, [op |-> "update", pc |-> IF "scope" \in fields THEN "scan" ELSE "commit",
                     rep |-> r, fields |-> fields, scope |-> s, old |-> {}, seen |-> Limits(admin[r]),
                     goal |-> goal, missed |-> {}, stale |-> {}])
  /\ UNCHANGED <<table, lock, history>>

Free(h, r, rows) == \A i \in rows : lock[r][i] \in {None, h}

(* DELETE sees the rows committed when it starts,                          *)
Scan(h) ==
  /\ req[h].op = "update" /\ req[h].pc = "scan"
  /\ req' = [req EXCEPT ![h].pc = "delete", ![h].old = scope[req[h].rep]]
  /\ UNCHANGED <<table, lock, history, arrived>>

(* and waits for each of them.                                             *)
DeleteScope(h) ==
  /\ req[h].op = "update" /\ req[h].pc = "delete"
  /\ LET r == req[h].rep IN
       /\ Free(h, r, req[h].old)
       /\ lock' = [lock EXCEPT ![r] = [i \in Inbounds |-> IF i \in req[h].old THEN h ELSE @[i]]]
  /\ req' = [req EXCEPT ![h].pc = "commit"]
  /\ UNCHANGED <<table, history, arrived>>

NothingDeleted(h) == scope[req[h].rep]
Remaining(h) == scope[req[h].rep] \ req[h].old

(* An UPDATE names the columns whose value differs from the one read; a    *)
(* limit that is set over another one may be a different one.              *)
Written(current, seen, goal) ==
  {IF goal = seen THEN current ELSE goal} \cup (IF goal THEN {TRUE} ELSE {})

WriteLimits(row, seen, goal) ==
  {[state |-> row.state, enabled |-> row.enabled,
    limit |-> l, days |-> d, started |-> Start(row, seen, goal)] :
     l \in Written(row.limit, seen.limit, Bytes(goal.quota)),
     d \in Written(row.days, seen.days, goal.days)}

Unlocked(h) == [r \in Reps |-> [i \in Inbounds |-> IF lock[r][i] = h THEN None ELSE lock[r][i]]]

Did(goal) == IF AskedNone(goal) THEN "lifted" ELSE "set"

(* A commit goes past the other updates of r under way: a DELETE that      *)
(* waited skips the rows that are gone and misses those inserted since,    *)
(* and the limits that they have read are no longer the row's.             *)
Passed(u, v) ==
  [u EXCEPT !.old = @ \ v.old,
            !.missed = @ \cup (IF "scope" \in u.fields \cap v.fields /\ u.pc # "scan" THEN v.scope ELSE {}),
            !.stale = @ \cup (IF "limits" \in u.fields \cap v.fields THEN {Did(v.goal)} ELSE {})]
Overtaken(h) ==
  [g \in Handlers |->
     IF g = h THEN Idle
     ELSE IF g \in Updates(req[h].rep) THEN Passed(req[g], req[h])
     ELSE req[g]]

(* A representative deleted meanwhile, or a scope row that another update  *)
(* inserted, fails the request.                                            *)
CommitUpdate(h) ==
  /\ req[h].op = "update" /\ req[h].pc = "commit"
  /\ LET u == req[h]
         r == u.rep IN
       /\ "scope" \in u.fields => Free(h, r, u.scope)
       /\ IF r \notin Present \/ ("scope" \in u.fields /\ u.scope \cap Remaining(h) # {})
          THEN req' = [req EXCEPT ![h] = Idle] /\ UNCHANGED <<admin, scope, quota, history>>
          ELSE /\ IF "limits" \in u.fields
                    THEN \E row \in WriteLimits(admin[r], u.seen, u.goal) :
                           /\ admin' = [admin EXCEPT ![r] = row]
                           /\ \E v \in Verdicts(r, row) : quota' = [quota EXCEPT ![r] = v]
                           /\ lifted' = [lifted EXCEPT ![r] = u.stale # {} /\ "lifted" \in u.stale \cup {Did(u.goal)}]
                    ELSE UNCHANGED <<admin, quota, lifted>>
               /\ IF "scope" \in u.fields
                    THEN /\ scope' = [scope EXCEPT ![r] = Remaining(h) \cup u.scope]
                         /\ asked' = [asked EXCEPT ![r] = u.scope]
                         /\ beside' = [beside EXCEPT ![r] = u.missed]
                    ELSE UNCHANGED <<scope, asked, beside>>
               /\ req' = Overtaken(h)
  /\ lock' = Unlocked(h)
  /\ UNCHANGED <<clients, arrived>>

StillOwned(r) == clients
Disowned(r) ==
  [c \in Ids |-> IF clients[c] # None /\ clients[c].by = r THEN [clients[c] EXCEPT !.by = None]
                                                          ELSE clients[c]]

(* The scope goes, the clients stay without a creator.                     *)
DeleteAdmin(r) ==
  /\ r \in Present /\ Arrives
  /\ Free(None, r, scope[r])
  /\ admin' = [admin EXCEPT ![r] = Absent("deleted")]
  /\ scope' = [scope EXCEPT ![r] = {}]
  /\ clients' = Disowned(r)
  /\ quota' = [quota EXCEPT ![r] = "NORMAL"]
  /\ UNCHANGED <<lock, req, history>>

-----------------------------------------------------------------------------

(* A request that dies is rolled back.                                     *)
RequestDies(h) ==
  /\ req[h] # Idle
  /\ req' = [req EXCEPT ![h] = Idle] /\ lock' = Unlocked(h)
  /\ UNCHANGED <<table, history, arrived>>

(* No further request comes.                                               *)
Quiet == arrived = MaxRequests /\ (\A h \in Handlers : req[h] = Idle) /\ UNCHANGED vars

Init ==
  /\ admin = [r \in Reps |-> Absent("none")] /\ scope = [r \in Reps |-> {}]
  /\ clients = [c \in Ids |-> None]
  /\ lock = [r \in Reps |-> [i \in Inbounds |-> None]]
  /\ req = [h \in Handlers |-> Idle]
  /\ quota = [r \in Reps |-> "NORMAL"]
  /\ asked = [r \in Reps |-> {}] /\ beside = [r \in Reps |-> {}]
  /\ lifted = [r \in Reps |-> FALSE]
  /\ arrived = 0

Fields == (SUBSET {"scope", "limits"}) \ {{}}

Next ==
  \/ \E r \in Reps : CreateAdmin(r) \/ DeleteAdmin(r) \/ SetEnabled(r) \/ Expire(r) \/ ReachLimit(r)
  \/ \E c \in Ids : DeleteClient(c)
  \/ \E h \in Handlers :
       \/ \E by \in Reps \cup {None}, i \in Inbounds, a \in Address : Create(h, by, i, a)
       \/ \E r \in Reps, f \in Fields : Update(h, r, f)
       \/ Insert(h) \/ Scan(h) \/ DeleteScope(h) \/ CommitUpdate(h) \/ RequestDies(h)
  \/ Quiet

Spec == Init /\ [][Next]_vars

-----------------------------------------------------------------------------
(* Properties.                                                             *)

(* The rows have their types; scopes and clients name representatives that *)
(* exist, and a lock belongs to an update in progress.                     *)
TypeOK ==
  /\ admin \in [Reps -> Row]
  /\ quota \in [Reps -> {"NORMAL", "LIMIT_REACHED", "EXPIRED"}]
  /\ scope \in [Reps -> SUBSET Inbounds] /\ \A r \in Reps : scope[r] # {} => r \in Present
  /\ clients \in [Ids -> Client \cup {None}]
  /\ \A c \in Ids : clients[c] # None => clients[c].by \in Present \cup {None}
  /\ \A r \in Reps, i \in Inbounds : lock[r][i] # None => lock[r][i] \in Updates(r)
  /\ arrived \in 0..MaxRequests

(* Two clients of an inbound are never given one address, nor a client its *)
(* server's, whether asked for or allocated, and whatever is created or    *)
(* deleted between the look-up and the insertion.  This holds of addresses *)
(* as they are written: two prefixes make two texts of one host.           *)
AddressesDistinct ==
  \A i \in Inbounds : \A c, d \in On(i) :
    /\ clients[c].address.host # Server
    /\ clients[c].address = clients[d].address => c = d

(* A representative is allowed what the last update of its scope asked     *)
(* for, all of it, and nothing else but what updates that overlapped it    *)
(* asked for, whose rows its DELETE could not see: two updates at once may *)
(* leave the inbounds of both, but never bring back an inbound that an     *)
(* earlier one took away, and the next update alone puts it right.         *)
ScopeAsAsked ==
  \A r \in Present : asked[r] \subseteq scope[r] /\ scope[r] \subseteq asked[r] \cup beside[r]

(* A representative with a limit or a duration has the day they count      *)
(* from: without it a duration never ends (deps.py:74).  This holds        *)
(* through any updates that set, keep and lift them, rounding included,    *)
(* also when they overlap; unless one of two that overlapped lifted the    *)
(* limits, so that the day is cleared beside a limit that another set.     *)
LimitsHaveStart ==
  \A r \in Present : ~Unlimited(admin[r]) /\ ~lifted[r] => admin[r].started
=============================================================================
