-------------------------- MODULE CredentialLedger --------------------------
(***************************************************************************)
(* What the control plane promises about WireGuard credentials, with no    *)
(* requests, locks or nodes: a key pair is drawn, then either discarded or *)
(* granted to one client, and once it is dead it never comes back.  A      *)
(* client holds at most one key at a time.                                 *)
(***************************************************************************)
CONSTANTS Clients, Keys, NoClient  \* NoClient is not in Clients

VARIABLES
  phase,  \* phase[k]: the life of the key pair k
  owner   \* owner[k]: the client that holds k, NoClient when none does

vars == <<phase, owner>>

Phases == {"new", "drawn", "held", "dead"}

Init ==
  /\ phase = [k \in Keys |-> "new"]
  /\ owner = [k \in Keys |-> NoClient]

Holds(c) == {k \in Keys : owner[k] = c}

(* A key pair is generated for a request that may still fail.              *)
Draw(k) ==
  /\ phase[k] = "new"
  /\ phase' = [phase EXCEPT ![k] = "drawn"]
  /\ UNCHANGED owner

(* The credential row is committed: only for a client that holds none.     *)
Grant(k, c) ==
  /\ phase[k] = "drawn"
  /\ Holds(c) = {}
  /\ phase' = [phase EXCEPT ![k] = "held"]
  /\ owner' = [owner EXCEPT ![k] = c]

(* Discarded by a failed request, revoked, or deleted with its client.     *)
End(k) ==
  /\ phase[k] \in {"drawn", "held"}
  /\ phase' = [phase EXCEPT ![k] = "dead"]
  /\ owner' = [owner EXCEPT ![k] = NoClient]

Next == \E k \in Keys : Draw(k) \/ End(k) \/ \E c \in Clients : Grant(k, c)

Spec == Init /\ [][Next]_vars
=============================================================================
