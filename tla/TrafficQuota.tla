---------------------------- MODULE TrafficQuota ----------------------------
(***************************************************************************)
(* Metering and quotas.  The worker reads the transfer counters of a       *)
(* node's peers, turns them into traffic_usage rows, compares each         *)
(* client's usage with its limits, writes the client's status and syncs    *)
(* the node.  Counters restart when a peer is removed and added again, or  *)
(* when its interface is; the API revokes, issues and changes limits       *)
(* between the worker's reads and its commits.                             *)
(***************************************************************************)
EXTENDS Integers, FiniteSets, FiniteSetsExt

CONSTANTS
  Clients,     \* clients of one WireGuard inbound
  Keys,        \* key pairs the control plane may generate
  Holder,      \* Holder[k]: the client k is generated for
  Windows,     \* usage windows that start anew: day, month
  Limits,      \* the limits an administrator may set
  NoLimit,     \* a limit that is NULL
  WarningRatio,
  Expiring,    \* clients with an expiry date
  MaxBytes,    \* bound: traffic units per key
  MaxRolls,    \* bound: windows begun
  MaxChanges,  \* bound: limits set and expiries renewed
  MaxFaults    \* bound: failed reads, interrupted commits, crashes, restarts

Scopes == Windows \cup {"total"}

ASSUME HolderAssumption == Holder \in [Keys -> Clients]
ASSUME LimitAssumption ==
  /\ "total" \notin Windows /\ "devices" \notin Scopes /\ NoLimit \notin Nat
  /\ Limits \subseteq [Scopes \cup {"devices"} -> Nat \cup {NoLimit}]
ASSUME NumberAssumption ==
  /\ WarningRatio \in 1 .. 100
  /\ MaxBytes \in Nat /\ MaxRolls \in Nat /\ MaxChanges \in Nat /\ MaxFaults \in Nat

Statuses == {"ACTIVE", "SUSPENDED", "EXPIRED", "REVOKED"}

VARIABLES
  status,     \* clients.status
  lapsed,     \* clients whose expires_at has passed
  limit,      \* the Quota row
  drawn,      \* key pairs ever issued
  live,       \* those not revoked
  used,       \* used[w][k]: bytes of the rows added for peer k within w
  counter,    \* node_peer_counters: the value last taken into account
  served,     \* the interface's peers
  peer,       \* peer[k]: the node's transfer counter
  carried,    \* carried[k]: bytes k has really transferred
  disturbed,  \* keys whose counter has restarted
  wk,         \* the worker's cycle
  rolls, changes, faults

quota == <<status, lapsed, limit, drawn, live>>
meter == <<used, counter>>
iface == <<served, peer, carried, disturbed>>
bounds == <<rolls, changes, faults>>
vars == <<quota, meter, iface, wk, bounds>>

Fault == faults < MaxFaults /\ faults' = faults + 1

Zero == [k \in Keys |-> 0]
Rest == [pc |-> "read", got |-> {}, snap |-> Zero, marks |-> [c \in Clients |-> "keep"]]

WorkerType == [pc : {"read", "count", "quota", "enforce", "sync"},
               got : SUBSET Keys, snap : [Keys -> Nat],
               marks : [Clients -> Statuses \cup {"keep"}]]

-----------------------------------------------------------------------------
(* The data plane.                                                         *)

Transfer(k) ==
  /\ k \in served /\ carried[k] < MaxBytes
  /\ peer' = [peer EXCEPT ![k] = @ + 1]
  /\ carried' = [carried EXCEPT ![k] = @ + 1]
  /\ UNCHANGED <<quota, meter, served, disturbed, wk, bounds>>

(* The interface now has the peers in target, and those in kept keep their *)
(* counters.                                                               *)
Install(target, kept) ==
  /\ served' = target
  /\ peer' = [k \in Keys |-> IF k \in kept THEN peer[k] ELSE 0]
  /\ disturbed' = disturbed \cup (served \ kept)
  /\ UNCHANGED carried

(* The node reboots; the unit of the interface brings its peers back.      *)
Reboot ==
  /\ Fault
  /\ Install(served, {})
  /\ UNCHANGED <<quota, meter, wk, rolls, changes>>

-----------------------------------------------------------------------------
(* collect_traffic                                                         *)

(* GET counters; an error degrades the node and the cycle goes on.         *)
ReadCounters ==
  /\ wk.pc = "read"
  /\ \/ wk' = [wk EXCEPT !.pc = "count", !.got = served, !.snap = peer] /\ UNCHANGED faults
     \/ Fault /\ wk' = [wk EXCEPT !.pc = "quota"]
  /\ UNCHANGED <<quota, meter, iface, rolls, changes>>

Growth(k) == wk.snap[k] - counter[k]  \* not clamped at 0
Delta(k) == IF wk.snap[k] > counter[k] THEN wk.snap[k] - counter[k] ELSE 0

NotAdvanced(S) == counter  \* usage recorded, counter row left as it was
AdvancedAll(S) ==  \* the peers skipped by an exception as well
  [k \in Keys |-> IF k \in wk.got THEN wk.snap[k] ELSE counter[k]]
Advanced(S) == [k \in Keys |-> IF k \in S THEN wk.snap[k] ELSE counter[k]]

(* A peer of a live credential gets a usage row for its growth and its     *)
(* counter row advances, in one transaction.  An exception leaves out the  *)
(* peers not yet processed; what was added before it is committed.         *)
Count(S) ==
  /\ used' = [w \in Scopes |->
       [k \in Keys |-> IF k \in S THEN used[w][k] + Delta(k) ELSE used[w][k]]]
  /\ counter' = Advanced(S)

FirstSeen == {k \in wk.got \cap live : counter[k] = 0}  \* no row yet
Known == wk.got \cap live

CommitCounters ==
  /\ wk.pc = "count"
  /\ \/ Count(Known) /\ UNCHANGED faults
     \/ Fault /\ \E S \in SUBSET Known : Count(S)
  /\ wk' = [Rest EXCEPT !.pc = "quota"]
  /\ UNCHANGED <<quota, iface, rolls, changes>>

-----------------------------------------------------------------------------
(* enforce_quotas                                                          *)

KeysOf(c) == {k \in Keys : Holder[k] = c}
Used(c, w) == MapThenSumSet(LAMBDA k : used[w][k], KeysOf(c))
Devices(c) == Cardinality(KeysOf(c) \cap live)

Reached(c, w) == limit[c][w] # NoLimit /\ Used(c, w) >= limit[c][w]
TooManyDevices(c) == limit[c]["devices"] # NoLimit /\ Devices(c) > limit[c]["devices"]

Over(c) == TooManyDevices(c) \/ \E w \in Scopes : Reached(c, w)

(* The warning band below the total limit.                                 *)
Warned(c) ==
  /\ limit[c]["total"] \notin {NoLimit, 0}
  /\ Used(c, "total") * 100 >= limit[c]["total"] * WarningRatio

(* Only the branch without warning restores a suspended client.            *)
NeverRestored(c) ==
  IF c \in lapsed THEN "EXPIRED" ELSE IF Over(c) THEN "SUSPENDED" ELSE status[c]
Verdict(c) ==
  IF c \in lapsed THEN "EXPIRED"
  ELSE IF Over(c) THEN "SUSPENDED"
  ELSE IF status[c] = "SUSPENDED" /\ ~Warned(c) THEN "ACTIVE"
  ELSE status[c]

ReadQuotas ==
  /\ wk.pc = "quota"
  /\ wk' = [wk EXCEPT !.pc = "enforce",
       !.marks = [c \in Clients |-> IF Verdict(c) = status[c] THEN "keep" ELSE Verdict(c)]]
  /\ UNCHANGED <<quota, meter, iface, bounds>>

(* The UPDATE sets the status whatever it has become since it was read.    *)
CommitQuotas ==
  /\ wk.pc = "enforce"
  /\ status' = [c \in Clients |-> IF wk.marks[c] = "keep" THEN status[c] ELSE wk.marks[c]]
  /\ wk' = [Rest EXCEPT !.pc = "sync"]
  /\ UNCHANGED <<lapsed, limit, drawn, live, meter, iface, bounds>>

-----------------------------------------------------------------------------
(* sync_node: the live credentials of ACTIVE clients, by wg syncconf, which*)
(* keeps the counters of the peers that stay, or by a restart of the       *)
(* interface when syncconf fails or its address is wrong.                  *)

DesiredAll == live  \* suspended clients are not left out
Desired == {k \in live : status[Holder[k]] = "ACTIVE"}

SyncNode ==
  /\ wk.pc = "sync"
  /\ \/ Install(Desired, served \cap Desired) /\ UNCHANGED faults
     \/ Fault /\ Install(Desired, {})
     \/ Fault /\ UNCHANGED iface
  /\ wk' = Rest
  /\ UNCHANGED <<quota, meter, rolls, changes>>

CrashWorker ==
  /\ wk # Rest /\ Fault
  /\ wk' = Rest
  /\ UNCHANGED <<quota, meter, iface, rolls, changes>>

WorkerStep == ReadCounters \/ CommitCounters \/ ReadQuotas \/ CommitQuotas \/ SyncNode

-----------------------------------------------------------------------------
(* The API and the clock.                                                  *)

Full(c) == limit[c]["devices"] # NoLimit /\ Devices(c) >= limit[c]["devices"]

(* issue, in one step: the node is given the new peer with the others.     *)
Issue(k) ==
  LET c == Holder[k]
      target == {j \in live : status[Holder[j]] = "ACTIVE" /\ Holder[j] \notin lapsed} \cup {k}
  IN
  /\ k \notin drawn /\ KeysOf(c) \cap live = {}
  /\ status[c] = "ACTIVE" /\ c \notin lapsed /\ ~Reached(c, "total")
  /\ ~Full(c)
  /\ drawn' = drawn \cup {k}
  /\ live' = live \cup {k}
  /\ Install(target, served \cap target)
  /\ UNCHANGED <<status, lapsed, limit, meter, wk, bounds>>

Revoke(c) ==
  /\ status' = [status EXCEPT ![c] = "REVOKED"]
  /\ live' = live \ KeysOf(c)
  /\ Install(served \ KeysOf(c), served \ KeysOf(c))
  /\ UNCHANGED <<lapsed, limit, drawn, meter, wk, bounds>>

Change == changes < MaxChanges /\ changes' = changes + 1

(* POST /quotas                                                            *)
SetQuota(c) ==
  /\ Change
  /\ \E l \in Limits : limit' = [limit EXCEPT ![c] = l]
  /\ UNCHANGED <<status, lapsed, drawn, live, meter, iface, wk, rolls, faults>>

Lapse(c) ==
  /\ c \in Expiring \ lapsed
  /\ lapsed' = lapsed \cup {c}
  /\ UNCHANGED <<status, limit, drawn, live, meter, iface, wk, bounds>>

(* update_client with a later expires_at.                                  *)
Renew(c) ==
  /\ Change
  /\ c \in lapsed /\ status[c] # "REVOKED"
  /\ lapsed' = lapsed \ {c}
  /\ UNCHANGED <<status, limit, drawn, live, meter, iface, wk, rolls, faults>>

(* Midnight, or the first of the month: earlier rows no longer count.      *)
Roll(w) ==
  /\ rolls < MaxRolls /\ rolls' = rolls + 1
  /\ used' = [used EXCEPT ![w] = Zero]
  /\ UNCHANGED <<quota, counter, iface, wk, changes, faults>>

-----------------------------------------------------------------------------
Init ==
  /\ status = [c \in Clients |-> "ACTIVE"]
  /\ lapsed = {}
  /\ limit \in [Clients -> Limits]
  /\ drawn = {} /\ live = {}
  /\ used = [w \in Scopes |-> Zero]
  /\ counter = Zero
  /\ served = {} /\ peer = Zero /\ carried = Zero /\ disturbed = {}
  /\ wk = Rest
  /\ rolls = 0 /\ changes = 0 /\ faults = 0

Next ==
  \/ WorkerStep \/ CrashWorker \/ Reboot
  \/ \E k \in Keys : Transfer(k) \/ Issue(k)
  \/ \E c \in Clients : Revoke(c) \/ SetQuota(c) \/ Lapse(c) \/ Renew(c)
  \/ \E w \in Windows : Roll(w)

Spec == Init /\ [][Next]_vars

(* The worker loops for ever and is restarted when it dies.                *)
FairSpec == Spec /\ WF_vars(WorkerStep)

-----------------------------------------------------------------------------
TypeOK ==
  /\ status \in [Clients -> Statuses]
  /\ lapsed \subseteq Clients
  /\ limit \in [Clients -> [Scopes \cup {"devices"} -> Nat \cup {NoLimit}]]
  /\ drawn \subseteq Keys /\ live \subseteq drawn
  /\ used \in [Scopes -> [Keys -> Nat]]
  /\ counter \in [Keys -> Nat]
  /\ served \subseteq Keys
  /\ peer \in [Keys -> Nat]
  /\ carried \in [Keys -> Nat]
  /\ disturbed \subseteq Keys
  /\ wk \in WorkerType
  /\ rolls \in 0 .. MaxRolls /\ changes \in 0 .. MaxChanges /\ faults \in 0 .. MaxFaults

(* Nobody is charged for traffic that was not carried, whatever restarts,  *)
(* crashes, failed reads and half-processed answers come between two       *)
(* collections (worker.py:28-39: the clamped difference and the counter    *)
(* row, committed together).                                               *)
NeverOvercounted == \A w \in Scopes, k \in Keys : used[w][k] <= carried[k]

(* As long as a peer's counter does not restart nothing is lost either:    *)
(* the rows add up to the counter last seen, and the node's counter to     *)
(* what was carried.  A failed or interrupted collection only defers.      *)
ExactUntilRestart ==
  \A k \in Keys \ disturbed :
    used["total"][k] = counter[k] /\ counter[k] <= peer[k] /\ peer[k] = carried[k]

(* The traffic of a key that stays on the node is recorded in the end.     *)
TrafficCounted ==
  \A k \in Keys : <>[](k \in live \cap served /\ k \notin disturbed)
                    => <>[](used["total"][k] = carried[k])

(* A client that stays over a limit, or expired, is cut off in the end     *)
(* (worker.py:115-116: suspension is enforced by the next reconciliation). *)
LimitEnforced ==
  \A c \in Clients : <>[](Over(c) \/ c \in lapsed) => <>[](served \cap KeysOf(c) = {})

Within(c) == c \notin lapsed /\ ~Over(c)

(* A suspended client that stays within its limits, and out of the warning *)
(* band, is restored.                                                      *)
Restored == \A c \in Clients : <>[](Within(c) /\ ~Warned(c)) => <>[](status[c] # "SUSPENDED")

(* worker.py:110-111: "never overwrite explicit REVOKED/EXPIRED states".   *)
RevokedKept == [][\A c \in Clients : status[c] = "REVOKED" => status'[c] = "REVOKED"]_vars
=============================================================================
