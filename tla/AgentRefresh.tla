----------------------------- MODULE AgentRefresh -----------------------------
(***************************************************************************)
(* The updater a timer runs on every node: it downloads the agent's files  *)
(* one after the other, and when one of them differs from the installed    *)
(* one it copies them, installs the dependencies and restarts the agent.   *)
(* The backend may publish a new version at any time; downloads and the    *)
(* installation may fail, the agent may crash, the node may reboot.        *)
(***************************************************************************)
EXTENDS Integers

CONSTANTS
  Files,        \* number of files: 1..Files, in the order of the script
  InstallFails, \* whether the installation of the dependencies may fail
  MaxVersion,   \* bound: versions published
  MaxFailures   \* bound: failures, crashes, reboots

ASSUME FilesAssumption == Files \in Nat \ {0} /\ InstallFails \in BOOLEAN
ASSUME VersionAssumption == MaxVersion \in Nat /\ MaxFailures \in Nat

VARIABLES
  published,  \* the version the backend serves
  tmp, installed,  \* the version of each file downloaded, installed
  loaded,     \* the version of each file the running agent has read
  timer,      \* whether the installer has set the timer up
  changed,    \* the script's flag
  at, next,   \* the step of the script, and the file it is at
  failures

refreshVars == <<published, tmp, installed, loaded, timer, changed, at, next, failures>>

File == 1..Files
Version == 0..MaxVersion

Failure == failures < MaxFailures /\ failures' = failures + 1

-----------------------------------------------------------------------------

(* A deployment of the backend replaces the files it serves.               *)
Publish ==
  /\ published < MaxVersion /\ published' = published + 1
  /\ UNCHANGED <<tmp, installed, loaded, timer, changed, at, next, failures>>

Timer ==
  /\ timer /\ at = "idle"
  /\ at' = "fetch"
  /\ UNCHANGED <<published, timer, tmp, installed, loaded, changed, next, failures>>

Nothing == [f \in File |-> 0]

(* However the script ends, its trap removes the downloads.                *)
End == at' = "idle" /\ next' = 1 /\ tmp' = Nothing /\ changed' = FALSE

FilesLeft == next < Files

Differs == published # installed[next]
AnyDiffers == changed \/ Differs

(* The version of a file is the one the backend serves when its download   *)
(* starts; after the last file the script goes on if any differed.         *)
Fetch ==
  /\ at = "fetch"
  /\ IF FilesLeft \/ AnyDiffers
       THEN /\ tmp' = [tmp EXCEPT ![next] = published]
            /\ changed' = AnyDiffers
            /\ IF FilesLeft THEN next' = next + 1 /\ UNCHANGED at
                               ELSE next' = 1 /\ at' = "copy"
       ELSE End
  /\ UNCHANGED <<published, timer, installed, loaded, failures>>

Copy ==
  /\ at = "copy"
  /\ installed' = [installed EXCEPT ![next] = tmp[next]]
  /\ IF FilesLeft THEN next' = next + 1 /\ UNCHANGED at
                  ELSE next' = 1 /\ at' = "install"
  /\ UNCHANGED <<published, timer, tmp, loaded, changed, failures>>

(* set -e: a pip that fails ends the script before the restart.            *)
Install ==
  /\ at = "install"
  /\ \/ at' = "restart" /\ UNCHANGED <<tmp, changed, next, failures>>
     \/ InstallFails /\ Failure /\ End
  /\ UNCHANGED <<published, timer, installed, loaded>>

RestartAgent ==
  /\ at = "restart" /\ End
  /\ loaded' = installed
  /\ UNCHANGED <<published, timer, installed, failures>>

FetchFails ==
  /\ at = "fetch" /\ Failure /\ End
  /\ UNCHANGED <<published, timer, installed, loaded>>

(* systemd starts an agent that died again: it reads the files that are    *)
(* there, between two copies as well.                                      *)
AgentCrash ==
  /\ Failure /\ loaded' = installed
  /\ UNCHANGED <<published, timer, tmp, installed, changed, at, next>>

LoadAtBoot ==
  /\ loaded' = installed /\ End
  /\ UNCHANGED <<published, timer, installed, failures>>

-----------------------------------------------------------------------------

RefreshInit ==
  /\ published = 0
  /\ tmp = Nothing /\ installed = Nothing /\ loaded = Nothing
  /\ timer = FALSE
  /\ changed = FALSE /\ at = "idle" /\ next = 1 /\ failures = 0

Script == Timer \/ Fetch \/ Copy \/ Install \/ RestartAgent
RefreshNext == Publish \/ Script \/ FetchFails \/ AgentCrash

(* The timer fires again and again, and a script that started goes on.     *)
RefreshFairness == WF_refreshVars(Script)

-----------------------------------------------------------------------------
(* Properties.                                                             *)

(* The variables have their types, and the script's index is one of its    *)
(* files.                                                                  *)
RefreshTypeOK ==
  /\ published \in Version /\ failures \in 0..MaxFailures
  /\ {tmp, installed, loaded} \subseteq [File -> Version]
  /\ {changed, timer} \subseteq BOOLEAN /\ next \in File
  /\ at \in {"idle", "fetch", "copy", "install", "restart"}
=============================================================================
