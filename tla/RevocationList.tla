---------------------------- MODULE RevocationList ----------------------------
(***************************************************************************)
(* The revocation list of one OpenVPN inbound: the column of its row that  *)
(* revocations read, extend, deploy to the node and write back, and the    *)
(* node's crl.pem, which the agent replaces for a deployment and for an    *)
(* apply, and which an apply that fails puts back.  The worker and the     *)
(* sync request apply the list they rendered.  A call that is given up     *)
(* still runs on the node.                                                 *)
(***************************************************************************)
EXTENDS Integers, FiniteSets

CONSTANTS
  Certs,         \* certificates of the inbound's clients
  Handlers,      \* requests in progress at once
  Worker,        \* the worker's cycle
  Strays,        \* bound: calls given up that the agent still handles
  None,          \* no list, no file, no certificate
  MaxRequests,   \* bound: requests
  MaxFaults      \* bound: failures, crashes and calls given up

ASSUME CallerAssumption ==
  /\ Worker \notin Handlers \cup Strays /\ Handlers \cap Strays = {}
  /\ None \notin Certs
ASSUME ListAssumption == \A list \in SUBSET Certs : list # None
ASSUME BoundAssumption == MaxRequests \in Nat /\ MaxFaults \in Nat

VARIABLES
  crl,      \* InboundOpenVPN.crl_pem, committed
  cert,     \* the credential of each certificate
  caller,   \* the requests and the worker
  call,     \* the calls the agent is handling, of each caller and stray
  file,     \* the node's <interface>.crl.pem
  tmp,      \* <interface>.crl.pem.new
  raced,    \* certificates whose revocation another request's list has missed
  arrived, faults

agent == <<call, file, tmp>>
vars == <<crl, cert, caller, agent, raced, arrived, faults>>

Callers == Handlers \cup {Worker}
Calls == Callers \cup Strays
Lists == SUBSET Certs
Idle == [op |-> "none", pc |-> "idle", c |-> None, list |-> None]
Free == [op |-> "none", pc |-> "free", list |-> None, old |-> None]

Fault == faults < MaxFaults /\ faults' = faults + 1

Arrives == arrived < MaxRequests /\ arrived' = arrived + 1

Goto(p, pc) == caller' = [caller EXCEPT ![p].pc = pc]

-----------------------------------------------------------------------------
(* Requests: revocations and deletions of clients.                         *)

(* revoke_certificate: the entries of the list read, and the certificate.  *)
OnlyThis(c) == {c}
Extended(c) == crl \cup {c}

Begin(h, c) ==
  /\ Arrives /\ caller[h] = Idle /\ cert[c] = "live"
  /\ caller' = [caller EXCEPT ![h] = [op |-> "revoke", pc |-> "send", c |-> c, list |-> Extended(c)]]
  /\ UNCHANGED <<crl, cert, agent, raced, faults>>

(* A revocation in progress whose list lacks the certificate d.            *)
Missed(h, d) == \E o \in Handlers \ {h} : caller[o].op = "revoke" /\ d \notin caller[o].list

(* The commit writes the whole column, over whatever was committed since   *)
(* the list was read.  A client that another request deleted meanwhile     *)
(* cannot be updated, and everything is rolled back; but it can be deleted *)
(* again.                                                                  *)
Commit(h) ==
  /\ caller[h].pc = "commit"
  /\ LET c == caller[h].c IN
       \/ \E st \in IF cert[c] = "deleted" THEN {"deleted"} ELSE {"revoked", "deleted"} :
            /\ crl' = caller[h].list /\ cert' = [cert EXCEPT ![c] = st]
            /\ raced' = raced \cup {d \in caller[h].list : Missed(h, d)}
       \/ cert[c] = "deleted" /\ UNCHANGED <<crl, cert, raced>>
  /\ caller' = [caller EXCEPT ![h] = Idle]
  /\ UNCHANGED <<agent, arrived, faults>>

(* The worker's cycle and the sync request render the committed list.      *)
RenderedEmpty == {}
Rendered == crl

Render(p) ==
  /\ caller[p] = Idle
  /\ IF p = Worker THEN UNCHANGED arrived ELSE Arrives
  /\ caller' = [caller EXCEPT ![p] = [op |-> "apply", pc |-> "send", c |-> None, list |-> Rendered]]
  /\ UNCHANGED <<crl, cert, agent, raced, faults>>

-----------------------------------------------------------------------------
(* Calls.                                                                  *)

Operation(p) == IF caller[p].op = "apply" THEN "apply" ELSE "deploy"

Send(p) ==
  /\ caller[p].pc = "send"
  /\ call' = [call EXCEPT ![p] = [op |-> Operation(p), pc |-> "write", list |-> caller[p].list, old |-> None]]
  /\ Goto(p, "wait")
  /\ UNCHANGED <<crl, cert, file, tmp, raced, arrived, faults>>

(* What a caller does with the answer: an apply is over; a deployment that *)
(* succeeded is committed, one that failed is answered 502.                *)
AnsweredWhenOk(p, ok) ==
  IF ok THEN (IF caller[p].op = "revoke" THEN [caller[p] EXCEPT !.pc = "commit"] ELSE Idle) ELSE caller[p]
Answered(p, ok) ==
  IF ok /\ caller[p].op = "revoke" THEN [caller[p] EXCEPT !.pc = "commit"] ELSE Idle

Finish(k, ok) ==
  /\ call' = [call EXCEPT ![k] = Free]
  /\ caller' = IF k \in Strays THEN caller ELSE [caller EXCEPT ![k] = Answered(k, ok)]

(* The caller dies, cannot connect, or its timeout expires; the agent's    *)
(* thread, if there is one, goes on.                                       *)
GiveUp(p) ==
  /\ caller[p] # Idle /\ Fault
  /\ caller' = [caller EXCEPT ![p] = Idle]
  /\ IF call[p] = Free THEN UNCHANGED call
     ELSE \E k \in Strays : /\ call[k] = Free
                            /\ call' = [call EXCEPT ![k] = call[p], ![p] = Free]
  /\ UNCHANGED <<crl, cert, file, tmp, raced, arrived>>

-----------------------------------------------------------------------------
(* The agent, cut at the file operations on the list.                      *)

(* Only apply remembers the file it is about to replace.                   *)
WriteTmp(k) ==
  /\ call[k].pc = "write"
  /\ tmp' = call[k].list
  /\ call' = [call EXCEPT ![k].pc = "replace",
                          ![k].old = IF call[k].op = "apply" THEN file ELSE None]
  /\ UNCHANGED <<crl, cert, caller, file, raced, arrived, faults>>

(* An exception: apply restores, deploy answers.                           *)
Raise(k) ==
  IF call[k].op = "apply"
  THEN call' = [call EXCEPT ![k].pc = "restore"] /\ UNCHANGED caller
  ELSE Finish(k, FALSE)

(* The temporary has one name: another thread may have written it, or     *)
(* moved it away.                                                          *)
Replace(k) ==
  /\ call[k].pc = "replace"
  /\ IF tmp = None THEN Raise(k) /\ UNCHANGED <<file, tmp>>
     ELSE /\ file' = tmp /\ tmp' = None
          /\ call' = [call EXCEPT ![k].pc = "run"] /\ UNCHANGED caller
  /\ UNCHANGED <<crl, cert, raced, arrived, faults>>

(* Validation, restart or reload of the server.  A failed deployment also  *)
(* unlinks the temporary; a configuration the validation rejects is left   *)
(* in place.                                                               *)
Run(k) ==
  /\ call[k].pc = "run"
  /\ \/ Finish(k, TRUE) /\ UNCHANGED <<tmp, faults>>
     \/ Fault /\ call[k].op = "apply" /\ (Raise(k) \/ Finish(k, FALSE)) /\ UNCHANGED tmp
     \/ Fault /\ call[k].op = "deploy" /\ Raise(k) /\ tmp' = None
  /\ UNCHANGED <<crl, cert, file, raced, arrived>>

Restore(k) ==
  /\ call[k].pc = "restore"
  /\ file' = call[k].old /\ Finish(k, FALSE)
  /\ UNCHANGED <<crl, cert, tmp, raced, arrived, faults>>

(* The agent is killed, or the node reboots: its callers get an error.     *)
AgentCrash ==
  /\ (\E k \in Calls : call[k] # Free) /\ Fault
  /\ call' = [k \in Calls |-> Free]
  /\ caller' = [p \in Callers |-> IF caller[p].pc = "wait" THEN Idle ELSE caller[p]]
  /\ UNCHANGED <<crl, cert, file, tmp, raced, arrived>>

-----------------------------------------------------------------------------

(* The inbound was created, with an empty list, and applied.               *)
Init ==
  /\ crl = {} /\ cert = [c \in Certs |-> "live"]
  /\ caller = [p \in Callers |-> Idle]
  /\ call = [k \in Calls |-> Free]
  /\ file = {} /\ tmp = None
  /\ raced = {} /\ arrived = 0 /\ faults = 0

Handle(k) == WriteTmp(k) \/ Replace(k) \/ Run(k) \/ Restore(k)
Proceed(p) == Send(p) \/ Commit(p)

Next ==
  \/ \E h \in Handlers, c \in Certs : Begin(h, c)
  \/ \E p \in Callers : Render(p) \/ Proceed(p) \/ GiveUp(p)
  \/ \E k \in Calls : Handle(k)
  \/ AgentCrash

Spec == Init /\ [][Next]_vars

(* Requests and calls run to their end; the worker cycles for ever.        *)
FairSpec ==
  /\ Spec
  /\ \A p \in Callers : WF_vars(Proceed(p))
  /\ \A k \in Calls : WF_vars(Handle(k))
  /\ WF_vars(Render(Worker))

-----------------------------------------------------------------------------
(* Properties.                                                             *)

(* The variables have their types; a caller that waits has a call in       *)
(* progress.                                                               *)
TypeOK ==
  /\ crl \in Lists /\ file \in Lists \cup {None} /\ tmp \in Lists \cup {None}
  /\ cert \in [Certs -> {"live", "revoked", "deleted"}]
  /\ caller \in [Callers -> [op : {"none", "revoke", "apply"},
                             pc : {"idle", "send", "wait", "commit"},
                             c : Certs \cup {None}, list : Lists \cup {None}]]
  /\ call \in [Calls -> [op : {"none", "deploy", "apply"},
                         pc : {"free", "write", "replace", "run", "restore"},
                         list : Lists \cup {None}, old : Lists \cup {None}]]
  /\ \A p \in Callers : call[p] # Free <=> caller[p].pc = "wait"
  /\ raced \subseteq Certs /\ arrived \in 0..MaxRequests /\ faults \in 0..MaxFaults

(* A revocation that was committed stays on the list, so that the          *)
(* certificate is refused, unless another revocation had already read the  *)
(* list when it was committed: nothing keeps the two reads and writes of   *)
(* the column apart, and the later commit then writes the list without it. *)
RevokedStaysListed ==
  \A c \in Certs : cert[c] # "live" => c \in crl \cup raced

(* The node's list ends up being the committed one: applies that carried   *)
(* an older list, failed applies that put one back over a deployment, and  *)
(* calls handled after they were given up are all overtaken by the cycle.  *)
NodeListFollows == <>[](file = crl)
=============================================================================
