------------------------------ MODULE NodeSetup ------------------------------
(***************************************************************************)
(* A server with the two scripts that act on it, the installer an operator *)
(* runs and the updater a timer runs.  They write the same files and       *)
(* restart the same service, with no lock between them; the installer sets *)
(* the timer up at its end.  A reboot ends both, restores the rules that   *)
(* were saved, and starts the agent with the files that are installed.     *)
(***************************************************************************)
EXTENDS Installer, AgentRefresh

vars == <<installVars, refreshVars>>

-----------------------------------------------------------------------------
(* What the installer's steps do to the files and to the running agent.    *)

(* The first n files are downloaded in place.                              *)
Overwrite(n) ==
  /\ installed' = [f \in File |-> IF f <= n THEN published ELSE installed[f]]
  /\ UNCHANGED <<published, timer, tmp, loaded, changed, at, next, failures>>

DownloadFiles == Download /\ Overwrite(Files)

DownloadFails == pc = "download" /\ Fail /\ \E n \in File : Overwrite(n)

LoadFiles ==
  /\ Restart
  /\ loaded' = installed
  /\ UNCHANGED <<published, timer, tmp, installed, changed, at, next, failures>>

SetTimer ==
  /\ Final
  /\ timer' = TRUE
  /\ UNCHANGED <<published, tmp, installed, loaded, changed, at, next, failures>>

(* What the updater's restarts and systemd's do to the service: the agent  *)
(* listens on the port its unit names, also between the installer's steps. *)
Relisten ==
  /\ agent' = IF enabled THEN Bind ELSE agent
  /\ UNCHANGED <<pc, port, unit, enabled, others, rules, node, bounds>>

InstallerOnly ==
  \/ Start \/ ChoosePort \/ Exchange \/ WriteUnit \/ LocalCheck \/ Redirect
  \/ Save \/ PublicCheck \/ Register \/ Fail \/ Take

Init == InstallInit /\ RefreshInit

Next ==
  \/ InstallerOnly /\ UNCHANGED refreshVars
  \/ DownloadFiles \/ DownloadFails \/ LoadFiles \/ SetTimer
  \/ (Publish \/ Timer \/ Fetch \/ Copy \/ Install \/ FetchFails) /\ UNCHANGED installVars
  \/ (RestartAgent \/ AgentCrash) /\ Relisten
  \/ Reboot /\ LoadAtBoot

Spec == Init /\ [][Next]_vars
FairSpec == Spec /\ InstallFairness /\ RefreshFairness

-----------------------------------------------------------------------------
(* Properties.                                                             *)

(* The variables of both scripts have their types (Installer,              *)
(* AgentRefresh).                                                          *)
TypeOK == InstallTypeOK /\ RefreshTypeOK

Latest == \A f \in File : loaded[f] = published

Calm == failures = MaxFailures /\ faults = MaxFaults

(* Whatever failed before, a version published after the last failure ends *)
(* up loaded, also when the installer and the updater overwrite each       *)
(* other's files: the flag is computed from the installed files, so a lost *)
(* restart delays the agent to the next version and no further.            *)
LaterVersionsLoaded ==
  [](timer /\ Calm /\ published < MaxVersion =>
       [](published = MaxVersion => <>[]Latest))

=============================================================================
