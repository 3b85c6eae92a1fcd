# PRIMEVPN in TLA+

PRIMEVPN sells access to VPN servers. A control plane (FastAPI, PostgreSQL) keeps tenants,
clients and credentials; one worker process meters traffic, enforces quotas and reconciles the
nodes; on every node an agent turns the configurations it is sent into running interfaces.
What must be right is spread over the three of them: **who may connect** is decided by rows of
the database, **who does connect** by the peers of a kernel interface, and between the two lie
HTTP calls that time out, files that are rewritten, and processes that die.

This directory models that: TLA+ modules translated from the code, TLC configurations that
check them, and TLAPS proofs. Paths below are relative to `src/`; `B/` is `src/backend/app/`.

## 1. Inventory

| Component | Code | State | Operations |
|---|---|---|---|
| Credential issue | `B/routers/credentials.py`, `B/services/inbound_config.py` | devices, credentials, artifacts | issue (reuse or create, render, apply, commit) |
| Client lifecycle | `B/routers/clients.py` | client status, expiry, address | create, update, revoke, delete |
| Worker: metering | `B/worker.py:14-62` | usage rows, last counters, sessions | collect_traffic |
| Worker: quotas | `B/worker.py:81-118`, `B/routers/quotas.py` | client status, quota rows | enforce_quotas, set_quota |
| Worker: reconciliation | `B/worker.py:148-168`, `B/services/reconcile.py` | node state | sync_node |
| Worker: jobs | `B/worker.py:120-146` | job rows | process_jobs |
| Agent client | `B/services/agent_client.py` | none | call, apply and validate, revoke, remove |
| Node agent | `node-agent/app.py` | files, interface, boot unit | apply, peers/revoke, remove, counters, CRL, diagnostics |
| Inbounds | `B/routers/inbounds.py` | inbound rows, keys | create, update, sync, delete |
| Nodes, provisioning | `B/routers/nodes.py`, `provisioning.py`, `B/services/ssh_provisioner.py` | node state, bootstrap tasks | create, install token, bootstrap, exchange, register, delete |
| Installer, updater | the scripts in `B/routers/provisioning.py:21-312` | ports, unit, nat rules, node state; installed and loaded files | ten steps of a run; the timer's script |
| Port migration | `backend/scripts/migrate_wireguard_443.py` | inbound rows, the node's interface | move one inbound to another port |
| Addresses | `clients.py:95-115`, `credentials.py:15-26` | addresses of clients and devices | allocation |
| Commerce | `B/routers/commerce.py` | orders, payments, subscriptions | order, pay, confirm, subscribe |
| Administrators | `B/routers/admins.py`, `B/deps.py` | roles, scopes, quotas of representatives | create, update, disable, delete; checks per request |
| Authentication | `B/routers/auth.py`, `B/security.py`, `node-agent/agent_security.py` | tokens, secrets | login, refresh, verification |
| OpenVPN material | `B/services/credentials.py`, `openvpn_revoke.py` | CA, certificates, CRL | issue, revoke |
| Tenants, settings, audit, downloads, reports, schema, frontend, packaging | the rest | rows, files | reads and single-row writes |

How they interact. Requests run concurrently, each in one database transaction at READ
COMMITTED, and call the agent **inside** that transaction. `issue` and the routes of inbounds
take the inbound's row lock; `revoke` and `delete` take none. The worker is one process that
loops every 10 s; it reads and writes the same rows with no lock and calls the same agent. The
agent handles requests in a thread pool with no lock per interface. Calls are synchronous with
a timeout, after which the agent may still carry them out.

What is hard, and what would make each component right:

- **Issue, revoke, delete** interleave with each other and with the worker. Right: at most one
  live credential per client, none of a deleted client; a key that was withdrawn stays
  withdrawn; the node ends up serving exactly the authorised keys.
- **Metering** reads cumulative counters that restart, of nodes that fail, and may die before
  its commit. Right: never charge more than was carried, lose nothing but what a restart erased.
- **Quotas** decide from rows that change under them, and write a status that others write.
  Right: whoever is over a limit is cut off, whoever is back within limits is restored, and
  REVOKED is final.
- **Reconciliation** applies what it rendered earlier. Right: it converges.
- **The agent** changes a file, an interface and a unit one after the other; every command may
  fail, time out or be cut short. Right: what was answered 200 is in force and survives a
  reboot; what was revoked does not come back; a failed change is undone.
- **Inbounds** are applied to the node inside a transaction that may still be rolled back, and by
  a worker that read the rows before. Right: no two inbounds of a node share a port, and the node
  comes back to what the rows say.
- **Nodes** have rows that requests and the worker lock in opposite orders. Right: a token is given
  once, a retried request makes one task, nobody waits for ever, a registered node settles.
- **The installer** is run again after any failure, beside the updater. Right: its redirects lead
  to the agent, also after a reboot; later runs succeed and later versions are loaded.
- **Revocation lists** are read, extended, deployed and written back without a lock. Right: what
  was revoked stays on the list, and the node's list becomes the row's.
- **Addresses, scopes, limits, orders, jobs** are look-ups followed by writes, without locks.

`PROJECT.json` lists the hazards line by line, with the properties that cover them.

## 2. Plan

Done, in this order: `ClientAccess` over the abstract `CredentialLedger`; `TrafficQuota`;
`NodeAgent`; `Installer`, `AgentRefresh` and their composition `NodeSetup`; `Provisioning`;
`Inbounds`; `RevocationList`; `Representatives`; proofs of the safety properties of all of them.

Next:

1. An abstract `NodePeers` (a node serves a set of peers; apply replaces it, revoke takes one out)
   that `NodeAgent` implements for one call at a time, proved from the invariant of section 6.
2. Sessions and OpenVPN in `TrafficQuota`; `allocate_device_address` beside `ClientAccess`; orders
   and payments (`Commerce`).

Each module declares its parameters as CONSTANTS with named assumptions, has one action per
operation or step and no RECURSIVE operator, so that it can be proved about; the theorems about a
module `M` are in `MProofs`.

## 3. Modules

### CredentialLedger and ClientAccess

`CredentialLedger` is what the requests promise about key pairs: a key is drawn, pending while
its request runs, live for one client, and spent for ever once its request failed or it was
revoked.

`ClientAccess` models one inbound. `status`, `lapsed` (expiry passed) and `live` (credentials
with `revoked_at` null) are the committed rows, `spent` the keys ever drawn, `lock` the inbound's
row lock, `req` the handlers, `call` the HTTP calls under way and `late` those given up by their
caller, `iface` the node's interface, `wk` the worker, `node` the node's state.

| Actions | Code |
|---|---|
| `StartIssue`, `LockInbound`, `RefuseIssue`, `RenderIssue`, `ApplyProceeds`, `FailIssue`, `CommitIssue` | `credentials.py:28-153`: checks before the lock, the lock, reuse or refusal, flush and render, `agent_client.apply` with its validation and clean re-apply (`agent_client.py:70-91`), rollback, commit |
| `StartRemoval`, `RevokePeer`, `RevokePeerReply`, `CommitRevoke`, `CommitDelete` | `clients.py:122-143, 174-197` |
| `Renew`, `Lapse` | `clients.py:145-166`, the passing of an expiry date |
| `Collect`, `ReadQuotas`, `CommitQuotas`, `AbortCycle`, `Reconcile`, `Reconciled` | one cycle of `worker.py:148-168`; the reads and the commit of `enforce_quotas` are two steps, and so are the rendering and the answer of an apply |
| `AgentHandle`, `CallFails`, `CallTimesOut`, `AgentHandleLate` | a call handled, refused or failed, abandoned, handled after it was abandoned |
| `CrashRequest`, `CrashWorker` | a process dies; its transaction is rolled back |

### TrafficQuota

Keys of clients carry traffic (`Transfer`, up to `MaxBytes`); `carried` is a history of what
really flowed. `ReadCounters` and `CommitCounters` are the two halves of `collect_traffic`
(read, then rows and last counters in one commit, for the peers before a failure);
`ReadQuotas` and `CommitQuotas` those of `enforce_quotas`; `SyncNode` is the reconciliation.
`Issue`, `Revoke`, `SetQuota`, `Lapse`, `Renew` are requests and the clock, `Roll` the change of
day or month, `Reboot` and `CrashWorker` faults. Abstractions: bytes in one direction; windows
are a set of names beside the total; issue, revoke and the synchronisation are one step each
(`ClientAccess` has them in parts); usage rows are summed per peer; sessions and deletion are
left out.

### NodeAgent

One WireGuard interface. Names and file objects are separate (`conf` and `tmp` point into
`text`), because `open(.., "w")` truncates the file a name refers to while another handler holds
it and `os.replace` moves it. `bak` is the backup, `link` the kernel's interface, `unit` the boot
unit, `slot` the handlers, each at the file operation or command it is about to do. `desired` is
what the worker asks for, `said` the last answer, `revoked` a history of the revocations that
were answered 200.

| Actions | Code |
|---|---|
| `Backup`, `OpenTmp`, `WriteTmp`, `Replace` | `app.py:147, 154-155`; the last three also for `peers/revoke` (`502-505`) |
| `Look`, `SyncConf`, `TakeLinkDown`, `BringUp` | `app.py:156-195`; an address or MTU that differs, or AmneziaWG, take the restart branch |
| `Persist` | firewall and unit, `app.py:196-236, 37-47` |
| `Restore`, `Rewrite`, `UnlinkTmp` | the exception handler, `app.py:252-265`; `copy2` onto the live file is two steps |
| `SetPeer`, `ReadConf` | `app.py:493-503` |
| `DisableUnit`, `TakeDown`, `RemoveConf`, `RemoveBackup` | `app.py:530-548` |
| `ApiCall`, `WorkerCall`, `Change` | the callers: routes, and the worker that asks for `desired` again and again, once more after a timeout |
| `Crash`, `Reboot` | the agent restarts (systemd `Restart=always`), the node reboots |

A command that fails or times out may have had its effect. External behaviour, modelled from
how the agent relies on it: `wg-quick` needs the file, for `down` as well as for `up`; a
truncated file is refused or read as empty. Left out: the OpenVPN branch, the text of
configurations other than their peers, the keys and addresses.

### Installer, AgentRefresh and NodeSetup

`Installer` is the script that `provisioning.py` serves to a new node (lines 21-312), one action per
numbered step: the free port, the downloads, the exchange of the token, the service, the local
check, the redirects of 443 (`Redirect`, with the `-C`, `-D`, `-I` of iptables on both chains, first
match first), the saved rules, the public check, the registration. `Fail` is `set -e` at any step,
`Start` the operator who tries again, `Take` another program that takes a port. `AgentRefresh` is
the updater's script (268-289) that a timer runs: fetch and compare file by file, copy, install
the dependencies, restart. `NodeSetup` composes them: both write the same files and restart the
same service without a lock, the installer's end sets the timer up, a reboot ends both
(`Reboot /\ LoadAtBoot`). The exchange and registration are seen from the server here and from the
rows in `Provisioning`.

### Provisioning

One node's row and its tasks. `owner` holds the row locks, `req` the requests, each with what its
session read (`seen`) and will write (`goal`; an UPDATE names a column only if the value differs from
the one read, `After`), `worker` the cycle, `issued` how often a task's token was exchanged.

| Actions | Code |
|---|---|
| `CreateNode`, `InstallToken`, `AutoProvision` | `nodes.py:21-75` |
| `Ask`, `CreateTask` | `nodes.py:89-97` with its idempotency key, `provisioning.py:381-387` without |
| `LockTask`, `Refuse`, `Spend` | `exchange`, `provisioning.py:390-404`: the locked look, refusal, commit |
| `Register`, `CallAgent`, `WriteState` | `register_agent`, `provisioning.py:407-435` |
| `Delete`, `LockNode`, `Cascade` | `nodes.py:78-86` and the foreign key's cascade |
| `Load`, `Collect`, `Sync`, `Requery`, `UpdateNode`, `UpdateTask` | `worker.py:148-168`, `reconcile.py:99-125`, for the states it keeps and writes |
| `BreakDeadlock`, `RequestDies`, `WorkerDies`, `AgentFails`, `AgentAnswers` | PostgreSQL's deadlock detection, and faults |

Wrong and expired tokens are one outcome; the agent's URL is a Boolean.

### Inbounds

The inbounds of one node (interface and port) and the interfaces it runs (`link`). A request is cut
at its flush, its call to the agent and its commit or rollback (`inbounds.py:43-117`); `PortSettled`
is the unique index, which makes an INSERT wait for another transaction. `Migrate` and
`FlushMigration` are `migrate_wireguard_443.py`: it reads without a lock, its UPDATE waits, and it
rolls back after it has applied when it finds no peer. `StartCycle` and `ApplyNext` are the worker: it
renders every row first and stops at the first that cannot be applied. Networks, keys and what
an update changes besides the port are not told apart.

### RevocationList

The list of one OpenVPN inbound as a set of certificates: in the row (`crl`), in the requests and
calls that carry one, in the agent's file and temporary. `Begin`, `Send`, `Commit` are `revoke`
(`clients.py:186-197`); `Render` the worker or `sync_inbound`; `WriteTmp`, `Replace`, `Run`, `Restore` the
agent's two handlers (`app.py:148-153, 237-265, 505-524`), which share a temporary, and of which only
apply remembers what it overwrites. `GiveUp` and `AgentCrash` are lost callers and agents.

### Representatives

Representatives with the inbounds they may use and their limits, and the clients created on
those inbounds with an address each (`admins.py:60-154`, `clients.py:90-143`, `deps.py:30-83, 118-124`).
`quota` is the verdict of `admin_quota_state`: the period runs out (`Expire`), the usage reaches the
limit (`ReachLimit`; which bytes is left open), other limits or a deleted client give another verdict;
it and the enabled flag (`SetEnabled`) decide who may create. An
update is cut at its DELETE, where READ COMMITTED fixes which rows it sees (`Scan`), may wait
(`DeleteScope`), and at its commit; `WriteLimits` writes the columns whose value differs from the one
read. A quota is asked for in gigabytes and stored in whole bytes (`Bytes`): one below half a byte
stores no limit, yet counts as a quota when the start is decided (`AskedNone`, `admins.py:81-82,
135-137`), while `was_unlimited` looks at what is stored (`Unlimited`). A creation is cut between the
look-up and the INSERT, where the unique key decides. `asked`, `beside` and `lifted` are histories: the
scope last asked for, the inbounds of the updates that one overlapped, and whether the last update of
the limits overlapped another and one of the two lifted them. `Passed` is what a commit leaves to an
update under way: rows its DELETE skips or misses, and limits it read that are no longer the row's.

The `MC` modules hold the sets and the symmetries for TLC.

## 4. Runs

| Run | Properties | Instance |
|---|---|---|
| `access` | `TypeOK`, `OneLiveCredential`, `NoOrphanCredential`, `ImplementsLedger` (refinement), `RequestsAnswered`, `KeysCutOff`, `KeysServed`, `NodeRecovers` | 1 client, 2 keys, 2 requests, 1 fault or expiry |
| `quota` | `TypeOK`, `NeverOvercounted`, `ExactUntilRestart`, `TrafficCounted`, `LimitEnforced`, `Restored` | 1 client with 2 keys, 1 window that rolls once, every limit, 2 units of traffic per key, 1 change of limits, 1 fault |
| `quota_revoked` | `RevokedKept` is **violated** | finding 1 |
| `agent_serial` | `TypeOK`, `Durable`, `RevokedStaysOut` | 2 peers, 1 handler, 4 calls, 3 faults |
| `agent_live` | `Converges` | 1 peer, 2 handlers, 1 call, the worker's calls without bound, 1 fault |
| `agent_restored` | `RestoredOnFailure` is **violated** | finding 2 |
| `node_setup` | `TypeOK`, `LocalRedirectIsCurrent`, `RebootKeepsPath`, `Recovers`, `LaterVersionsLoaded` | 2 candidate ports, 2 files, 2 versions after the first, 1 fault of the installer and 1 of the updater, 1 port taken, runs without bound |
| `install_reachable` | `CheckedIsReachable` is **violated** | finding 3: 3 candidate ports, no fault at all |
| `provisioning` | `TypeOK`, `LocksInUse`, `TokenOnce`, `OneTaskPerKey`, `Answered`, `Settles` | 2 requests at once of 3, 2 tasks, 1 key, 1 fault |
| `inbounds` | `TypeOK`, `PortsDistinct`, `RequestsAnswered`, `NodeFollowsRows` | 2 inbounds, 2 interfaces, 2 ports, 2 requests at once of 4, 1 fault |
| `revocation_list` | `TypeOK`, `RevokedStaysListed`, `NodeListFollows` | 2 certificates, 2 requests, the worker, 1 abandoned call, 1 fault |
| `representatives` | `TypeOK`, `AddressesDistinct`, `ScopeAsAsked`, `LimitsHaveStart` | 1 representative, 2 inbounds, 2 clients, 3 hosts of which 1 the server's, 2 prefixes, 2 requests at once of 4 |

Why the bounds are enough. Races here are between two requests on one row, or one request and the
worker, so two requests and the worker (which is not bounded) give all pairs. Two keys let a
client be given a new key after a revoked one; that keys and locks are not confused between
clients is what the proofs show for every set of them. Three or four requests let a third read
what two that overlapped have left; `access` has two, so that faults, late calls and the worker
can be exhausted with its liveness. A key issued, and issued again while it is being revoked, takes
three: that the ledger is kept there is shown only by the refinement theorem, and that the key then
leaves the node is not checked. Three hosts are the server's, the one in use, and the one that both
allocations would take. One fault at a time is what retries face; `agent_serial` allows
three, because what a backup restores depends on a failure following an earlier one, and was also
run with six calls and five faults. Two candidate ports make a run move to the other one while an
earlier agent still listens and move back, since runs are not bounded. The agent's concurrency is a
matter of two handlers sharing a temporary. The bounds (`MaxRequests`, `MaxFaults`, `MaxCalls`,
`MaxChanges`, `MaxRolls`, `MaxBytes`, `MaxTasks`, `MaxTakes`, `MaxVersion`, `MaxFailures`) stand in guards
and are listed in each module's header.

What the conditions in the properties leave out, and why. `agent_serial` speaks of one call at a
time: handlers of one interface can overlap, by a timeout or because the worker takes no lock; then
neither property holds at every moment, and `Converges` says what is left: the worker's next quiet
cycle repairs it. `NodeFollowsRows` does not speak of a node on which an interface holds another row's
port: the first row that cannot be applied ends every cycle, so such a node is never repaired.
`ScopeAsAsked` speaks of overlapping updates too: the scopes of both may stay, which is what the code
does, but nothing asked for is missing and nothing from before comes back. `LimitsHaveStart` covers
overlapping updates that set limits, and excuses the last update of the limits if it overlapped
another and one of the two lifted them: then the code does leave a duration without its start (section
5). Its converse is not claimed: a quota below half a byte, without a duration, leaves a start and no
limits. `RevokedStaysListed` excuses a revocation that another had already read past: two that overlap
lose an entry (section 5), and the property does not cover that.
`NodeListFollows` and `LaterVersionsLoaded` see an older list put back, or a version copied and not
loaded, only if it stays so. `Recovers` excuses other programs that take the installer's ports.

**Fairness.** Processes do not stop for ever: handlers and the agent are weakly fair (each runs
in a thread, and each HTTP call has a timeout), the row lock is granted, and the worker's loop
(`worker.py:170-174`) catches every exception and goes on, hence weak fairness of its steps. In
`Provisioning` a request may wait for a row that the worker takes and frees in every cycle; PostgreSQL
queues the waiting transactions, hence strong fairness of the requests' steps there, and its
deadlock detection is weakly fair. The installer's and the updater's steps are weakly fair once a
script runs, and so is the timer; nobody has to start the installer. No fairness is assumed of
requests, traffic, faults, crashes, the clock or administrators. `LimitEnforced`, `Restored`,
`KeysCutOff`, `KeysServed`, `Converges`, `Settles`, `NodeFollowsRows`, `NodeListFollows` and
`LaterVersionsLoaded` speak of conditions that hold from some moment on. Deadlock is checked except
in `provisioning` and `inbounds`, where requests are bounded and a node that has no worker to call
(deleted, or without inbounds) has nothing left to do.

Every property of a passing run is broken by a mutant of the code listed in `PROJECT.json` (a
missing row lock, a dropped unique key, a counter row not advanced, a backup never refreshed, a
comparison that forgets the earlier files).

## 5. Findings

1. **REVOKED is overwritten** (`quota_revoked`). `worker.py:97-104` assigns SUSPENDED whatever
   the status, so a revoked client over its limit becomes SUSPENDED and, once its usage clears,
   ACTIVE, against the comment at `worker.py:110-111`. Its credentials stay revoked, so no key
   comes back by that alone, but a new one can be issued.
2. **A failed apply is not undone** (`agent_restored`). `app.py:252-265` restores files and says
   so; the interface stays down or keeps the new peers.
3. **Stale redirects are not removed** (`install_reachable`). `provisioning.py:199-200` look for
   PREROUTING rules without a destination, 208-209 insert them with one. A run that returns to an
   earlier port finds its old rule below a newer one, inserts nothing, and connections from
   outside land on a port nobody listens on, while the "public" check, made from the server, passes.

Met on the way, with no run of their own:

- A client whose expiry has passed stays EXPIRED when it is renewed (`clients.py:145-166`).
- The warning band of the total limit (`worker.py:105-106`) does not restore a client suspended for
  a day, a month or its devices; `Restored` excludes the band.
- The agent's restoration (`app.py:253`) truncates the live file, against `SECURITY.md:7`; a removal
  ignores a `wg-quick down` that failed (`app.py:538`); one that dies between its two unlinks leaves a
  backup that a later failed apply puts back (`app.py:541`), which is why `RevokedStaysOut` does not
  count a revocation that meets such a backup.
- A worker cycle that rendered an inbound before its deletion applies it again after the agent
  removed it, and no later cycle takes it down (`reconcile.py:107-116`, `inbounds.py:105-117`).
- Nothing but a query keeps two inbounds off one interface (`inbounds.py:49`).
- Two revocations at the same time lose one certificate from the list (`clients.py:186-196`).
- Of two updates that overlap, one that lifts the limits and one that sets a duration, the row may keep
  the duration and lose its start, in either order of the commits, because the start is decided from
  the limits read and the UPDATE writes only what differs from them (`admins.py:137-140`); `deps.py:74`
  then never expires it, against the form's "0 GB + 30 days = 30 days" (`App.vue:330`).
- The DELETE of `admins.py:119` does not see rows that an overlapping update inserts, so the
  representative is allowed the inbounds of both, against "can only create clients on these inbounds"
  (`App.vue:331`).
- A quota below half a byte is stored as no limit but gives a start (`admins.py:81-82, 135-137`).
- Addresses are unique as text: `10.0.0.2/24` and `10.0.0.2/32` are two.
- `ssh_provisioner.py:105` has `${PORT}` inside an f-string, so automatic provisioning always ends in
  `PROVISION_FAILED`; the model has that outcome only.
- An updater whose `pip install` fails (`provisioning.py:286`) has already copied the files, and
  restarts the agent only with the next version.

## 6. Proofs

For every set of clients, keys, handlers, requests, tasks, inbounds, hosts, certificates, threads
and files, and every bound, from the ASSUMEs of the modules. Every safety invariant of a passing run
is a theorem:

| Theorem | Statement | Argument |
|---|---|---|
| `ClientAccessProofs!TypeCorrect` | `Spec => []TypeOK` | with `ShapeInv`, one step per action |
| `ClientAccessProofs!AtMostOneCredential` | `Spec => []OneLiveCredential` | below |
| `ClientAccessProofs!DeletedClientHoldsNothing` | `Spec => []NoOrphanCredential` | below |
| `ClientAccessProofs!Implementation` | `Spec => ImplementsLedger` | initial state, then each step is a ledger step or a stutter |
| `TrafficQuotaProofs!TypeCorrect` | `Spec => []TypeOK` | inductive by itself |
| `TrafficQuotaProofs!ChargedOnlyCarried` | `Spec => []NeverOvercounted` | below |
| `TrafficQuotaProofs!NothingLostUntilRestart` | `Spec => []ExactUntilRestart` | below |
| `NodeAgentProofs!TypeCorrect` | `Spec => []TypeOK` | with the path of every handler |
| `NodeAgentProofs!AppliesAreDurable` | one slot: `Spec => []Durable` | below |
| `NodeAgentProofs!RevokedPeersStayOut` | one slot: `Spec => []RevokedStaysOut` | below |
| `NodeSetupProofs!TypeCorrect` | `Spec => []TypeOK` | with what the loops over the rules leave |
| `NodeSetupProofs!LocalRedirectFollows` | `Spec => []LocalRedirectIsCurrent` | below |
| `NodeSetupProofs!FinishedRunSurvives` | `Spec => []RebootKeepsPath` | below |
| `ProvisioningProofs!TypeCorrect` | `Spec => []TypeOK` | inductive by itself, group of variables by group |
| `ProvisioningProofs!LocksReleased` | `Spec => []LocksInUse` | inductive with the types |
| `ProvisioningProofs!TokenGivenOnce` | `Spec => []TokenOnce` | below |
| `ProvisioningProofs!KeyIdempotent` | `Spec => []OneTaskPerKey` | inductive with the types; rests on the unique key |
| `InboundsProofs!TypeCorrect` | `Spec => []TypeOK` | with the shape of every request |
| `InboundsProofs!PortsStayDistinct` | `Spec => []PortsDistinct` | below |
| `InboundsProofs!RowsExclusive` | `Spec => [](OneWriterPerRow /\ WorksOnCommitted)` | below |
| `RevocationListProofs!TypeCorrect` | `Spec => []TypeOK` | with the shape of callers and handlers |
| `RevocationListProofs!RevokedListed` | `Spec => []RevokedStaysListed` | below |
| `RepresentativesProofs!TypeCorrect` | `Spec => []TypeOK` | with `Links` and `Held`, below |
| `RepresentativesProofs!AddressesStayDistinct` | `Spec => []AddressesDistinct` | below |
| `RepresentativesProofs!ScopeIsAsAsked` | `Spec => []ScopeAsAsked` | below |
| `RepresentativesProofs!LimitsAlwaysHaveStart` | `Spec => []LimitsHaveStart` | below |

**ClientAccess.** `OneLiveCredential` and `NoOrphanCredential` are not inductive. `IInv` adds
`LockInv` (a request is inside its transaction exactly when it holds the inbound's row lock, so at
most one is), `FreshInv` (while a request carries a new key its client holds no other, nobody
holds the key, and once the device is flushed the client row cannot be deleted), `SpentInv` (live
keys were drawn) and `ShapeInv` (which fields a handler has at which step). Without the lock
`FreshInv` fails; without the flushed foreign key its last part does. The refinement rests on the
same invariant, and maps a key to *pending*, *live* or *spent*.

**TrafficQuota.** `IInv` keeps per key `Covered`: what is recorded plus the
node's counter does not exceed what was carried plus the last counter taken into account, and the
same with the snapshot in the worker's hands in place of either counter, so that the clamped
difference can never charge twice however restarts fall between a read and its commit; and
`Exact`: recorded usage = last counter <= snapshot <= node's counter = carried while the counter
has not restarted.

**Provisioning.** `TokenOnce` needs `TasksInv` (a task whose token was exchanged has none left) and
`LockedInv` (a request about to spend a token holds the lock of its task, and the token it saw is
still there); the second is what the row lock gives, and the reason why the look and the write of
`exchange` are as good as one step.

**Inbounds.** `PortsDistinct` speaks of committed rows, and a commit makes a flushed row committed
without looking again. The invariant carries what the unique index checked at the flush to the
commit: `FlushedFree` (no other committed row has the port that an open transaction has flushed) and
`FlushedApart` (no two open transactions have flushed one port). `RowsExclusive` is the other half:
one request at a time is at work on a row (`OneWriterPerRow`), and a sync or a deletion calls the
agent with the row as it is committed (`WorksOnCommitted`), whatever the migration script does. Its
invariant `WorkInv` says who is at work by what right: a creation because no other request has its
identifier, every other request because it holds the row's lock.

**RevocationList.** `ListsInv`: the row's list has every certificate that is no longer live, but for those
that another revocation has missed, and so has the list in the hands of every revocation under way. A
commit replaces the first by the second; the agent's files play no part in it.

**Representatives.** `Links` (scopes and clients name representatives that are there, which is what
the foreign keys give), `Held` (a lock on a scope belongs to an update that has deleted it and not
committed), `Chosen` (no address about to be inserted is the server's) and `Reading`: the scope of a
representative is what an update of it is about to delete or what commits have inserted past it, and
the limits an update has read are the row's until another update of them commits; until one lifts
them, the row keeps the start that was read. `AddressesDistinct` needs `Chosen`, and the least free
host to be free, for any finite set of hosts. `ScopeAsAsked` and `LimitsHaveStart` need `Reading`: an
update leaves what it inserts and what it missed, and decides the start from limits that are still
there, or beside limits that were only set. Only one direction is proved of the start, because of the
rounding.

**NodeAgent.** The types hold for any number of threads; they need more file objects than threads, the
live file and the temporary together (`InodeAssumption`), so that a new file always finds one.
`Durable` and `RevokedStaysOut` are proved for one call at a time (`Slots = {s}`), as the run checks
them: with two, neither holds (section 4). `Serial` has three parts. `Temporary`: while a handler
writes or renames it, the temporary is the file it opened, with what it has written. `InForce`: from its rename on,
the file is what an apply was sent, and after its answer so are the interface and the unit, until the
next call. `KeptOut`: whatever can still reach the interface has no revoked peer: the file, the
interface, what a handler has read or was sent, and the backup once the apply that may restore it has
taken it. A backup older than that may have one, which is why an apply refreshes it first; the
exception, a backup left by a removal that died (`app.py:541`), is `Leftover`.

**NodeSetup.** `LocalRedirectIsCurrent` needs `HostRules`, on disk as well as in force, because a reboot
brings the saved rules back: every redirect has the destination and none leads to 443 itself, so
that the loop over OUTPUT matches all of them and leaves none. `RebootKeepsPath` needs `Path`: the unit
names the run's port from the moment it is written, an enabled agent listens there or not at
all, the rules a run saved are those in force until it ends, and the check that ends a run has seen
them lead to the agent. The loops over a chain are a recursive function (`Left`); that it is
defined for every chain, and that it keeps the rules that do not match, in a
chain without repetitions, is proved by the least prefix on which it would fail.

`Reading`, `Chosen`, `Serial`, `HostRules` and `Path` were checked by TLC on the runs' instances before
they were proved.

Only model-checked: all liveness (`RequestsAnswered`, `KeysCutOff`, `KeysServed`, `NodeRecovers`,
`TrafficCounted`, `LimitEnforced`, `Restored`, `Converges`, `Recovers`, `LaterVersionsLoaded`, `Answered`,
`Settles`, `NodeFollowsRows`, `NodeListFollows`), which rests on fairness and ENABLED and is out of
the prover's reach; and the three violations of section 5, which are counterexamples.

## 7. Not modelled

Simplifications inside the modelled parts. `Representatives`: the server's address of an inbound is a constant,
while `inbounds.py:71-81` can change it under a creation that has validated against the old one;
`AddressesDistinct` says nothing of that. `NodeAgent`: an interface name or a configuration that the
validation refuses (`app.py:156, 251`, which skips the restoration) is not reached, since the backend does not
render one. `Provisioning`: `Delete` is not refused for a node that has inbounds (`nodes.py:81`), so more
deletions happen than in the code. `RevocationList`: an apply reads the old list and writes the
temporary in one step, and puts an older list back in one step, so a torn list is not seen.
`Inbounds`: a creation that waits for another transaction's port is counted as a request from the moment
it has waited, so `RequestsAnswered` says nothing of that wait, which ends with the other transaction.

Sessions and the OpenVPN branch of metering and of issue; the text of configurations; addresses of
a client's further devices; the sums of an administrator's usage (a choice, reached or not) and roles: parts of components
that are modelled otherwise. Commerce: inserts behind unique keys, with the same race of a look-up
and an insert that `Provisioning` and `Representatives` model. Jobs: nothing in the repository creates
one. The SSH session of automatic provisioning: I/O, of which the outcome is modelled.
Authentication, encryption, row-level security, reports, audit, the frontend and packaging:
cryptography, declarations of the database, presentation or I/O, where a model would only repeat
the code. `backend/node-agent` and `backend/app/node-agent` hold copies of `node-agent`, which
the backend serves to its nodes.
