------------------------------ MODULE NodeAgent ------------------------------
(***************************************************************************)
(* The node agent and one WireGuard interface: the handlers of /apply,     *)
(* /peers/revoke and /remove, each cut at its file operations and at the   *)
(* commands it runs, over the configuration file, its temporary and its    *)
(* backup, the kernel's interface and the unit that brings it up at boot.  *)
(* Handlers run in a thread pool and share the temporary and the backup;   *)
(* a command or a write can fail, the agent can die, the node can reboot.  *)
(***************************************************************************)
EXTENDS Integers, FiniteSets

CONSTANTS
  Keys,      \* peers
  Slots,     \* threads of the pool
  Inodes,    \* file objects
  Torn,      \* the content of a file truncated and not written yet
  None,      \* no file, no interface
  MaxCalls,  \* bound: calls of the API, changes of the desired peers
  MaxFaults  \* bound: failures, crashes, reboots, calls abandoned

ASSUME ValueAssumption == Torn # None /\ \A peers \in SUBSET Keys : peers # Torn /\ peers # None
(* One more file object than the names and the handlers can refer to.      *)
ASSUME InodeAssumption ==
  /\ None \notin Inodes
  /\ IsFiniteSet(Slots) /\ IsFiniteSet(Inodes) /\ Cardinality(Inodes) > Cardinality(Slots) + 1
ASSUME BoundAssumption == MaxCalls \in Nat /\ MaxFaults \in Nat

VARIABLES
  conf, tmp,  \* /etc/primevpn/<name>.conf and .conf.new: file objects
  text,       \* text[i]: the peers written in file i
  bak,        \* the content of .conf.bak
  link,       \* the interface: its peers, or None
  unit,       \* the boot unit
  slot,       \* the handlers
  desired,    \* the peers the worker's reconciliation asks for
  said,       \* the last answer, until the next call comes in
  revoked,    \* peers whose revocation was answered 200, and still holds
  calls, faults

files == <<conf, tmp, text, bak>>
node == <<link, unit>>
history == <<said, revoked>>
vars == <<files, node, slot, desired, history, calls, faults>>

Content == (SUBSET Keys) \cup {Torn}
Idle == [op |-> "idle", pc |-> "idle", arg |-> {}, by |-> "api", ino |-> None, read |-> {}]
NoAnswer == [op |-> "idle", arg |-> {}, st |-> "none"]

(* The steps of each handler.                                              *)
Path == [idle |-> {"idle"},
         apply |-> {"backup", "open", "write", "replace", "look", "sync", "down", "up",
                    "persist", "restore", "rewrite", "unlink"},
         revoke |-> {"set", "read", "open", "write", "replace"},
         remove |-> {"disable", "takedown", "rmconf", "rmbak"}]

SlotType == [op : DOMAIN Path, pc : UNION {Path[o] : o \in DOMAIN Path},
             arg : SUBSET Keys, by : {"api", "worker"},
             ino : Inodes \cup {None}, read : Content]

Fault == faults < MaxFaults /\ faults' = faults + 1
At(s, pc) == slot[s].pc = pc
Goto(s, pc) == slot' = [slot EXCEPT ![s].pc = pc]

ConfText == IF conf = None THEN None ELSE text[conf]

(* A file object no name and no open handler refers to.                    *)
FreeInode == CHOOSE i \in Inodes : i \notin {conf, tmp} /\ \A s \in Slots : slot[s].ino # i

(* What a removal cut short between its two unlinks leaves behind.         *)
Leftover == conf = None /\ bak # None

Finish(s, st) ==
  /\ slot' = [slot EXCEPT ![s] = Idle]
  /\ said' = [op |-> slot[s].op, arg |-> slot[s].arg, st |-> st]
  /\ revoked' = IF slot[s].op = "revoke" /\ st = "ok" /\ ~Leftover
                THEN revoked \cup slot[s].arg ELSE revoked

-----------------------------------------------------------------------------
(* Calls.                                                                  *)

FirstStep == [apply |-> "backup", revoke |-> "set", remove |-> "disable"]

Accept(s, op, arg, by) ==
  /\ slot[s] = Idle
  /\ slot' = [slot EXCEPT ![s] = [op |-> op, pc |-> FirstStep[op], arg |-> arg, by |-> by,
                                  ino |-> None, read |-> {}]]
  /\ said' = NoAnswer
  /\ revoked' = CASE op = "apply" -> revoked \ arg
                  [] op = "revoke" -> revoked
                  [] op = "remove" -> {}
  /\ UNCHANGED <<files, node>>

Counted == calls < MaxCalls /\ calls' = calls + 1

ApiCall(s) ==
  /\ Counted
  /\ \/ \E peers \in SUBSET Keys : Accept(s, "apply", peers, "api")
     \/ \E k \in Keys : Accept(s, "revoke", {k}, "api")
     \/ Accept(s, "remove", {}, "api")
  /\ UNCHANGED <<desired, faults>>

(* The worker syncs one node after the other, again and again; it waits    *)
(* for the answer unless its HTTP timeout expires.                         *)
WorkerCall(s) ==
  /\ \/ (\A o \in Slots : slot[o].by = "api") /\ UNCHANGED faults
     \/ (\E o \in Slots : slot[o].by = "worker") /\ Fault
  /\ Accept(s, "apply", desired, "worker")
  /\ UNCHANGED <<desired, calls>>

Change ==
  /\ Counted
  /\ desired' \in (SUBSET Keys) \ {desired}
  /\ UNCHANGED <<files, node, slot, history, faults>>

-----------------------------------------------------------------------------
(* apply                                                                   *)

KeepFirst == IF bak = None THEN ConfText ELSE bak  \* never refresh a backup
Saved == IF conf = None THEN bak ELSE ConfText

(* shutil.copy2 truncates the backup: a copy that fails leaves it torn.    *)
Backup(s) ==
  /\ At(s, "backup")
  /\ \/ bak' = Saved /\ Goto(s, "open") /\ UNCHANGED faults
     \/ conf # None /\ Fault /\ bak' = Torn /\ Goto(s, "restore")
  /\ UNCHANGED <<conf, tmp, text, node, desired, history, calls>>

(* open(tmp, "w") truncates the file another handler may be writing.       *)
OpenTmp(s) ==
  /\ At(s, "open")
  /\ LET i == IF tmp = None THEN FreeInode ELSE tmp IN
       /\ tmp' = i
       /\ text' = [text EXCEPT ![i] = Torn]
       /\ slot' = [slot EXCEPT ![s].pc = "write", ![s].ino = i]
  /\ UNCHANGED <<conf, bak, node, desired, history, calls, faults>>

(* What the handler writes: the configuration received, or the one read    *)
(* without the revoked peer.                                               *)
NewText(s) ==
  IF slot[s].op = "apply" THEN slot[s].arg
  ELSE IF slot[s].read = Torn THEN Torn ELSE slot[s].read \ slot[s].arg

RaiseToRestore(s) == Goto(s, "restore") /\ UNCHANGED history  \* whatever the handler

(* An exception: apply restores, revoke answers 500.                       *)
Raise(s) ==
  IF slot[s].op = "apply" THEN Goto(s, "restore") /\ UNCHANGED history ELSE Finish(s, "error")

WriteTmp(s) ==
  /\ At(s, "write")
  /\ \/ /\ text' = [text EXCEPT ![slot[s].ino] = NewText(s)]
        /\ Goto(s, "replace")
        /\ UNCHANGED <<history, faults>>
     \/ Fault /\ Raise(s) /\ UNCHANGED text
  /\ UNCHANGED <<conf, tmp, bak, node, desired, calls>>

(* chmod and os.replace; the temporary may be gone, or another handler's.  *)
Replace(s) ==
  /\ At(s, "replace")
  /\ IF tmp = None THEN Raise(s) /\ UNCHANGED <<conf, tmp>>
     ELSE /\ conf' = tmp /\ tmp' = None
          /\ IF slot[s].op = "apply" THEN Goto(s, "look") /\ UNCHANGED history
             ELSE Finish(s, "ok")
  /\ UNCHANGED <<text, bak, node, desired, calls, faults>>

(* prepare_wireguard_interface may fail; the interface is updated in place *)
(* unless its address or MTU differ (AmneziaWG always restarts it).        *)
Look(s) ==
  /\ At(s, "look")
  /\ \/ link # None /\ (\E pc \in {"sync", "down"} : Goto(s, pc)) /\ UNCHANGED faults
     \/ link = None /\ Goto(s, "up") /\ UNCHANGED faults
     \/ Fault /\ Goto(s, "restore")
  /\ UNCHANGED <<files, node, desired, history, calls>>

(* A command that fails or times out may have had its effect.              *)
(* The peers a tool loads from the file: a torn one is refused or empty.   *)
Loadable == IF ConfText = None THEN {} ELSE IF ConfText = Torn THEN {{}} ELSE {ConfText}
Refusable == ConfText \in {None, Torn}

NoneSynced(peers) == link  \* an interface that is up is left alone
Synced(peers) == peers

(* wg-quick strip and wg syncconf read the file, not the request.          *)
SyncConf(s) ==
  /\ At(s, "sync")
  /\ \/ /\ link # None
        /\ \E peers \in Loadable : link' = Synced(peers)
        /\ Goto(s, "persist")
        /\ UNCHANGED faults
     \/ (link = None \/ Refusable) /\ Goto(s, "down") /\ UNCHANGED <<link, faults>>
     \/ Fault /\ (\E pc \in {"down", "restore"} : Goto(s, pc)) /\ link' \in {link} \cup Loadable
  /\ UNCHANGED <<files, unit, desired, history, calls>>

TakeLinkDown(s) ==
  /\ At(s, "down")
  /\ \/ link' = None /\ Goto(s, "up") /\ UNCHANGED faults
     \/ Fault /\ link' \in {link, None} /\ (\E pc \in {"up", "restore"} : Goto(s, pc))
  /\ UNCHANGED <<files, unit, desired, history, calls>>

BringUp(s) ==
  /\ At(s, "up")
  /\ \/ /\ link = None
        /\ link' \in Loadable
        /\ Goto(s, "persist")
        /\ UNCHANGED faults
     \/ (link # None \/ Refusable) /\ Goto(s, "restore") /\ UNCHANGED <<link, faults>>
     \/ Fault /\ Goto(s, "restore") /\ link' \in {link} \cup Loadable
  /\ UNCHANGED <<files, unit, desired, history, calls>>

(* Forwarding, firewall and the boot unit.                                 *)
NotEnabled == unit
Enabled == "enabled"

Persist(s) ==
  /\ At(s, "persist")
  /\ \/ unit' = Enabled /\ Finish(s, "ok") /\ UNCHANGED faults
     \/ Fault /\ Goto(s, "restore") /\ unit' \in {unit, "enabled"} /\ UNCHANGED history
  /\ UNCHANGED <<files, link, desired, calls>>

BackupExists == bak # None

(* shutil.copy2(backup, path) truncates the configuration and rewrites it; *)
(* without a backup the configuration is unlinked.                         *)
Restore(s) ==
  /\ At(s, "restore")
  /\ IF BackupExists
     THEN LET i == IF conf = None THEN FreeInode ELSE conf IN
            /\ conf' = i
            /\ text' = [text EXCEPT ![i] = Torn]
            /\ slot' = [slot EXCEPT ![s].pc = "rewrite", ![s].ino = i, ![s].read = bak]
     ELSE conf' = None /\ Goto(s, "unlink") /\ UNCHANGED text
  /\ UNCHANGED <<tmp, bak, node, desired, history, calls, faults>>

Rewrite(s) ==
  /\ At(s, "rewrite")
  /\ text' = [text EXCEPT ![slot[s].ino] = slot[s].read]
  /\ Goto(s, "unlink")
  /\ UNCHANGED <<conf, tmp, bak, node, desired, history, calls, faults>>

UnlinkTmp(s) ==
  /\ At(s, "unlink")
  /\ tmp' = None
  /\ Finish(s, "error")
  /\ UNCHANGED <<conf, text, bak, node, desired, calls, faults>>

-----------------------------------------------------------------------------
(* peers/revoke: wg set ... remove, then the file without the peer.        *)

SetPeer(s) ==
  /\ At(s, "set")
  /\ \/ link # None /\ link' = link \ slot[s].arg /\ Goto(s, "read") /\ UNCHANGED <<history, faults>>
     \/ link = None /\ Finish(s, "error") /\ UNCHANGED <<link, faults>>
     \/ /\ link # None /\ Fault
        /\ link' \in {link, link \ slot[s].arg}
        /\ Finish(s, "error")
  /\ UNCHANGED <<files, unit, desired, calls>>

ReadConf(s) ==
  /\ At(s, "read")
  /\ IF conf = None THEN Finish(s, "ok")
     ELSE slot' = [slot EXCEPT ![s].pc = "open", ![s].read = ConfText] /\ UNCHANGED history
  /\ UNCHANGED <<files, node, desired, calls, faults>>

-----------------------------------------------------------------------------
(* remove: failures of systemctl and wg-quick are ignored; wg-quick needs  *)
(* the file to take the interface down.  The temporary is left behind.     *)

DownWithFile == IF conf = None THEN link ELSE None

(* disable --now also stops a unit that the last boot started.             *)
DisableUnit(s) ==
  /\ At(s, "disable")
  /\ \/ unit' = "disabled" /\ Goto(s, "takedown") /\ UNCHANGED <<history, faults>>
     \/ Fault /\ unit' \in {unit, "disabled"} /\ Goto(s, "takedown") /\ UNCHANGED history
     \/ Fault /\ unit' \in {unit, "disabled"} /\ Finish(s, "error")
  /\ link' \in {link, DownWithFile}
  /\ UNCHANGED <<files, desired, calls>>

TakeDown(s) ==
  /\ At(s, "takedown")
  /\ \/ link' = DownWithFile /\ Goto(s, "rmconf") /\ UNCHANGED <<history, faults>>
     \/ Fault /\ Goto(s, "rmconf") /\ UNCHANGED <<link, history>>
     \/ Fault /\ link' \in {link, DownWithFile} /\ Finish(s, "error")
  /\ UNCHANGED <<files, unit, desired, calls>>

RemoveConf(s) ==
  /\ At(s, "rmconf")
  /\ conf' = None
  /\ Goto(s, "rmbak")
  /\ UNCHANGED <<tmp, text, bak, node, desired, history, calls, faults>>

RemoveBackup(s) ==
  /\ At(s, "rmbak")
  /\ bak' = None
  /\ Finish(s, "ok")
  /\ UNCHANGED <<conf, tmp, text, node, desired, calls, faults>>

-----------------------------------------------------------------------------
(* The agent dies and is restarted; the node reboots.                      *)

Crash ==
  /\ (\E s \in Slots : slot[s] # Idle) /\ Fault
  /\ slot' = [s \in Slots |-> Idle]
  /\ UNCHANGED <<files, node, desired, history, calls>>

(* The interface that the unit brings up.                                  *)
AtBoot == IF unit = "disabled" \/ Refusable THEN None ELSE ConfText

Reboot ==
  /\ Fault
  /\ slot' = [s \in Slots |-> Idle]
  /\ link' = AtBoot
  /\ UNCHANGED <<files, unit, desired, history, calls>>

-----------------------------------------------------------------------------
Init ==
  /\ conf = None /\ tmp = None /\ bak = None
  /\ text = [i \in Inodes |-> Torn]
  /\ link = None /\ unit = "disabled"
  /\ slot = [s \in Slots |-> Idle]
  /\ desired \in SUBSET Keys
  /\ said = NoAnswer /\ revoked = {}
  /\ calls = 0 /\ faults = 0

ApplyStep(s) ==
  \/ Backup(s) \/ OpenTmp(s) \/ WriteTmp(s) \/ Replace(s) \/ Look(s) \/ SyncConf(s)
  \/ TakeLinkDown(s) \/ BringUp(s) \/ Persist(s) \/ Restore(s) \/ Rewrite(s) \/ UnlinkTmp(s)
RevokeStep(s) == SetPeer(s) \/ ReadConf(s)
RemoveStep(s) == DisableUnit(s) \/ TakeDown(s) \/ RemoveConf(s) \/ RemoveBackup(s)
Step(s) == ApplyStep(s) \/ RevokeStep(s) \/ RemoveStep(s)

Next ==
  \/ \E s \in Slots : ApiCall(s) \/ WorkerCall(s) \/ Step(s)
  \/ Change \/ Crash \/ Reboot

Spec == Init /\ [][Next]_vars

(* Handlers run to their end and the worker calls again and again.         *)
FairSpec ==
  /\ Spec
  /\ \A s \in Slots : WF_vars(Step(s))
  /\ WF_vars(\E s \in Slots : WorkerCall(s))

-----------------------------------------------------------------------------
(* Types; every handler stays on its own path, so that no revocation and   *)
(* no removal ever rolls the configuration back.                           *)
TypeOK ==
  /\ conf \in Inodes \cup {None} /\ tmp \in Inodes \cup {None}
  /\ text \in [Inodes -> Content]
  /\ bak \in Content \cup {None}
  /\ link \in (SUBSET Keys) \cup {None}
  /\ unit \in {"disabled", "enabled"}
  /\ slot \in [Slots -> SlotType] /\ \A s \in Slots : slot[s].pc \in Path[slot[s].op]
  /\ desired \subseteq Keys
  /\ said \in [op : DOMAIN Path, arg : SUBSET Keys,
               st : {"none", "ok", "error"}]
  /\ revoked \subseteq Keys
  /\ calls \in 0 .. MaxCalls /\ faults \in 0 .. MaxFaults

Answered(op, st) == said.op = op /\ said.st = st

(* With one call at a time, an apply answered 200 is in force, and stays   *)
(* so through reboots (app.py:250 answers after the unit is enabled).      *)
Durable == Answered("apply", "ok") => link = said.arg

Peers(x) == IF x = None THEN {} ELSE x

(* With one call at a time, a peer whose revocation was answered 200 is    *)
(* neither served nor brought back by the next boot, whatever fails, is    *)
(* restored, crashes or reboots afterwards, until an apply names it again  *)
(* or a removal starts (app.py:493-506, the backups of app.py:147 and 253).*)
(* A revocation that meets a Leftover backup is not counted: an apply that *)
(* fails once it enabled the unit puts that backup back, peer and all.     *)
RevokedStaysOut == revoked \cap (Peers(link) \cup Peers(AtBoot)) = {}

(* Concurrent handlers overwrite each other's files and interface, but the *)
(* worker's repeated applies repair that: what it keeps asking for is      *)
(* served again and again, and is what a reboot would bring up.            *)
Converges ==
  \A peers \in SUBSET Keys :
    <>[](desired = peers) => []<>(link = peers) /\ <>[](ConfText = peers)

(* app.py:265 "Apply failed and previous configuration was restored": the  *)
(* interface runs the configuration that was put back.                     *)
RestoredOnFailure == Answered("apply", "error") => link = ConfText

=============================================================================
