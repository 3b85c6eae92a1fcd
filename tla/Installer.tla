------------------------------ MODULE Installer ------------------------------
(***************************************************************************)
(* The node installer, run by root on a server again and again: it picks   *)
(* a free port for the agent, spends the bootstrap token, writes and       *)
(* restarts the service, redirects 443 to the agent in the nat table, and  *)
(* registers the node, which makes the control plane call the agent from   *)
(* outside.  Any step may fail, and the server may reboot.                 *)
(***************************************************************************)
EXTENDS Integers, Sequences, SequencesExt

CONSTANTS
  Candidates,  \* the ports tried, in order
  Https,       \* 443, the last candidate and the port of the agent's URL
  None,
  MaxTakes,    \* bound: ports other programs take
  MaxFaults    \* bound: failed steps, lost answers, reboots

Ports == ToSet(Candidates)

ASSUME PortAssumption == Https \in Ports /\ None \notin Ports
ASSUME BoundAssumption == MaxTakes \in Nat /\ MaxFaults \in Nat

VARIABLES
  pc,           \* the step of the run, or how the last one ended
  port,         \* the port this run chose
  unit, enabled,\* the port in the service's unit, and whether boot starts it
  agent,        \* the port the running agent listens on
  others,       \* ports other programs listen on
  nat,          \* the redirects of 443 in each chain, first match first
  disk,         \* the redirects boot restores
  saver, saved, \* is netfilter-persistent there, did this run's save succeed
  node,         \* the state of the node's row
  takes, faults

service == <<unit, enabled, agent>>
rules == <<nat, disk, saver, saved>>
bounds == <<takes, faults>>
installVars == <<pc, port, service, others, rules, node, bounds>>

Chains == {"PREROUTING", "OUTPUT"}
Rule == [dst : {"any", "host"}, to : Ports]
Running == {"choose", "download", "exchange", "write", "restart", "local",
            "redirect", "save", "public", "register", "final"}
Ended == {"idle", "done", "failed"}

Fault == faults < MaxFaults /\ faults' = faults + 1

(* Where a connection to host:443 lands: the first redirect, else 443.     *)
Landing(chain) == IF chain = <<>> THEN Https ELSE Head(chain).to
Reached(chain) == agent # None /\ agent = Landing(chain)

Goto(step) == pc' = step

-----------------------------------------------------------------------------
(* The steps of a run.                                                     *)

(* The operator asks for a bootstrap token and runs the command.           *)
Start ==
  /\ pc \in Ended
  /\ Goto("choose")
  /\ node' = "AUTHENTICATING" /\ port' = None /\ saved' = FALSE
  /\ UNCHANGED <<service, others, nat, disk, saver, bounds>>

(* The agent of an earlier run still listens: its port is not free.        *)
Listening == others \cup {agent}

(* The first candidate that is free.                                       *)
FirstFree ==
  {Candidates[i] : i \in {i \in DOMAIN Candidates :
     /\ Candidates[i] \notin Listening
     /\ \A j \in 1..(i - 1) : Candidates[j] \in Listening}}

ChoosePort ==
  /\ pc = "choose"
  /\ \/ Ports \subseteq Listening /\ Goto("failed") /\ UNCHANGED port
     \/ \E p \in FirstFree : Goto("download") /\ port' = p
  /\ UNCHANGED <<service, others, rules, node, bounds>>

Download ==
  /\ pc = "download" /\ Goto("exchange")
  /\ UNCHANGED <<port, service, others, rules, node, bounds>>

(* The token is spent when the backend answers.  If the answer is lost,    *)
(* curl tries again and is refused.                                        *)
Exchange ==
  /\ pc = "exchange"
  /\ node' = "SYNCING"
  /\ \/ Goto("write") /\ UNCHANGED faults
     \/ Fault /\ Goto("failed")
  /\ UNCHANGED <<port, service, others, rules, takes>>

WriteUnitOnce ==
  /\ pc = "write" /\ Goto("restart")
  /\ unit' = IF unit = None THEN port ELSE unit
  /\ UNCHANGED <<port, enabled, agent, others, rules, node, bounds>>

WriteUnit ==
  /\ pc = "write" /\ Goto("restart")
  /\ unit' = port
  /\ UNCHANGED <<port, enabled, agent, others, rules, node, bounds>>

(* The port may have been taken since it was chosen.                       *)
Bind == IF unit \in others THEN None ELSE unit

StartOnly ==
  /\ pc = "restart" /\ Goto("local")
  /\ agent' = Bind /\ UNCHANGED <<unit, enabled>>
  /\ UNCHANGED <<port, others, rules, node, bounds>>

Restart ==
  /\ pc = "restart" /\ Goto("local")
  /\ enabled' = TRUE /\ agent' = Bind /\ UNCHANGED unit
  /\ UNCHANGED <<port, others, rules, node, bounds>>

LocalCheck ==
  /\ pc = "local"
  /\ Goto(IF agent = port THEN "redirect" ELSE "failed")
  /\ UNCHANGED <<port, service, others, rules, node, bounds>>

(* -C and -D match a rule as a whole: with the destination, or without.    *)
Matches(r, dst) == r.dst = dst /\ r.to \in Ports \ {Https}

(* What is left of the first n rules.                                      *)
Left(chain, dst) ==
  LET L[n \in 0..Len(chain)] ==
        IF n = 0 THEN <<>>
        ELSE IF Matches(chain[n], dst) THEN L[n - 1] ELSE Append(L[n - 1], chain[n])
  IN L

Without(chain, dst) == Left(chain, dst)[Len(chain)]

RemoveNoneLocal(table) == [PREROUTING |-> Without(table.PREROUTING, "any"),
                           OUTPUT |-> table.OUTPUT]
RemoveStale(table) == [PREROUTING |-> Without(table.PREROUTING, "any"),
                       OUTPUT |-> Without(table.OUTPUT, "host")]

ToAgent == [dst |-> "host", to |-> port]
Insert(chain) == IF ToAgent \in ToSet(chain) THEN chain ELSE <<ToAgent>> \o chain

InsertAlways(table) ==
  IF port = Https THEN table ELSE [c \in Chains |-> <<ToAgent>> \o table[c]]
InsertRedirect(table) ==
  IF port = Https THEN table ELSE [c \in Chains |-> Insert(table[c])]

Redirect ==
  /\ pc = "redirect" /\ Goto("save")
  /\ nat' = InsertRedirect(RemoveStale(nat))
  /\ UNCHANGED <<port, service, others, disk, saver, saved, node, bounds>>

(* A failed save is ignored; without netfilter-persistent there is none.   *)
Save ==
  /\ pc = "save" /\ Goto("public")
  /\ \/ saver /\ disk' = nat /\ saved' = TRUE /\ UNCHANGED faults
     \/ saver /\ Fault /\ UNCHANGED <<disk, saved>>
     \/ ~saver /\ UNCHANGED <<disk, saved, faults>>
  /\ UNCHANGED <<port, service, others, nat, saver, node, takes>>

(* The check of the public URL runs on the server: it goes through OUTPUT. *)
PublicCheck ==
  /\ pc = "public"
  /\ Goto(IF Reached(nat.OUTPUT) THEN "register" ELSE "failed")
  /\ UNCHANGED <<port, service, others, rules, node, bounds>>

(* The control plane calls the agent from outside, through PREROUTING.     *)
Register ==
  /\ pc = "register"
  /\ IF Reached(nat.PREROUTING) THEN Goto("final") /\ node' = "READY"
                                ELSE Goto("failed") /\ node' = "PROVISION_FAILED"
  /\ UNCHANGED <<port, service, others, rules, bounds>>

Final ==
  /\ pc = "final" /\ Goto("done")
  /\ UNCHANGED <<port, service, others, rules, node, bounds>>

-----------------------------------------------------------------------------
(* Faults and the environment.                                             *)

Fail ==
  /\ pc \in Running /\ Fault /\ Goto("failed")
  /\ UNCHANGED <<port, service, others, rules, node, takes>>

Reboot ==
  /\ Fault
  /\ pc' = IF pc \in Running THEN "failed" ELSE pc
  /\ nat' = disk
  /\ agent' = IF enabled THEN Bind ELSE None
  /\ UNCHANGED <<port, unit, enabled, others, disk, saver, saved, node, takes>>

Take ==
  /\ takes < MaxTakes /\ takes' = takes + 1
  /\ \E p \in Ports \ Listening : others' = others \cup {p}
  /\ UNCHANGED <<pc, port, service, rules, node, faults>>

-----------------------------------------------------------------------------

InstallInit ==
  /\ pc = "idle" /\ port = None
  /\ unit = None /\ enabled = FALSE /\ agent = None
  /\ others = {}
  /\ nat = [c \in Chains |-> <<>>] /\ disk = [c \in Chains |-> <<>>]
  /\ saver \in BOOLEAN /\ saved = FALSE
  /\ node = "DISCOVERED"
  /\ takes = 0 /\ faults = 0

Step ==
  \/ ChoosePort \/ Download \/ Exchange \/ WriteUnit \/ Restart \/ LocalCheck
  \/ Redirect \/ Save \/ PublicCheck \/ Register \/ Final

(* A script that started runs on; nobody has to start one.                 *)
InstallFairness == WF_installVars(Step)

-----------------------------------------------------------------------------
(* Properties.                                                             *)

(* The variables have their types, and no chain holds a rule twice.        *)
InstallTypeOK ==
  /\ pc \in Running \cup Ended
  /\ {port, unit, agent} \subseteq Ports \cup {None}
  /\ {enabled, saver, saved} \subseteq BOOLEAN
  /\ others \subseteq Ports /\ agent \notin others
  /\ \A table \in {nat, disk} : \A c \in Chains :
       ToSet(table[c]) \subseteq Rule /\ IsInjective(table[c])
  /\ node \in {"DISCOVERED", "AUTHENTICATING", "SYNCING", "READY", "PROVISION_FAILED"}
  /\ takes \in 0..MaxTakes /\ faults \in 0..MaxFaults

(* After the redirect step the server's own connections to 443 follow one  *)
(* rule, for the agent's present port, however many runs came before and   *)
(* whatever ports they chose (the loop over OUTPUT).                       *)
LocalRedirectIsCurrent ==
  pc \in {"save", "public", "register", "final"} =>
    {r.to : r \in ToSet(nat.OUTPUT)} = {port} \ {Https}

(* A run that ended well and saved its rules survives a reboot: boot       *)
(* starts the agent on the port to which the restored rules send 443.      *)
RebootKeepsPath ==
  pc = "done" /\ saved => enabled /\ unit = Landing(disk.PREROUTING)

(* An operator who runs the installer again and again gets a registered    *)
(* node again and again, unless other programs take its ports: no earlier  *)
(* run, lost answer, spent token, reboot or half-done step blocks the      *)
(* later ones for good.                                                    *)
Recovers == []<>(pc = "choose") => []<>(pc = "done" \/ takes > 0)

(* What step [7] announces, "Validating public control endpoint": once it  *)
(* has passed, a connection from outside reaches the agent as well.        *)
CheckedIsReachable ==
  pc = "register" => Reached(nat.PREROUTING)
=============================================================================
