------------------------- MODULE RevocationListProofs -------------------------
(***************************************************************************)
(* The safety properties of RevocationList, for every number of            *)
(* certificates, requests, abandoned calls and faults.                     *)
(***************************************************************************)
EXTENDS RevocationList, TLAPS

CallerType ==
  [op : {"none", "revoke", "apply"}, pc : {"idle", "send", "wait", "commit"},
   c : Certs \cup {None}, list : Lists \cup {None}]
CallType ==
  [op : {"none", "deploy", "apply"}, pc : {"free", "write", "replace", "run", "restore"},
   list : Lists \cup {None}, old : Lists \cup {None}]

-----------------------------------------------------------------------------
(* Types.                                                                  *)

(* A request that revokes carries a list with its certificate; only such a *)
(* request commits.                                                        *)
Shape(p) ==
  /\ caller[p].op = "revoke" => /\ caller[p].c \in Certs /\ caller[p].list \in Lists
                                /\ caller[p].c \in caller[p].list
  /\ caller[p].pc = "commit" => caller[p].op = "revoke"

CallersOK ==
  /\ caller \in [Callers -> CallerType] /\ call \in [Calls -> CallType]
  /\ \A p \in Callers : (call[p] # Free <=> caller[p].pc = "wait") /\ Shape(p)
RowsOK ==
  /\ crl \in Lists /\ cert \in [Certs -> {"live", "revoked", "deleted"}] /\ raced \subseteq Certs
FilesOK == file \in Lists \cup {None} /\ tmp \in Lists \cup {None}
BoundsOK == arrived \in 0..MaxRequests /\ faults \in 0..MaxFaults

Typed == CallersOK /\ RowsOK /\ FilesOK /\ BoundsOK

LEMMA TypedSuffices == Typed => TypeOK
BY DEF Typed, CallersOK, RowsOK, FilesOK, BoundsOK, TypeOK, CallerType, CallType

LEMMA Constants ==
  /\ Idle \in CallerType /\ Idle.op = "none" /\ Idle.pc = "idle"
  /\ Free \in CallType /\ Free.pc = "free"
  /\ Handlers \subseteq Callers /\ Callers \subseteq Calls /\ Strays \subseteq Calls
  /\ \A k \in Calls : k \in Strays <=> k \notin Callers
BY CallerAssumption DEF Idle, Free, CallerType, CallType, Calls, Callers

LEMMA FaultType == faults \in 0..MaxFaults /\ Fault => faults' \in 0..MaxFaults
BY BoundAssumption DEF Fault

LEMMA ArrivesType == arrived \in 0..MaxRequests /\ Arrives => arrived' \in 0..MaxRequests
BY BoundAssumption DEF Arrives

(* A caller takes a step, and its call with it.                            *)
LEMMA CallerStep ==
  ASSUME CallersOK, NEW p \in Callers, NEW r \in CallerType, NEW q \in CallType,
         caller' = [caller EXCEPT ![p] = r], call' = [call EXCEPT ![p] = q],
         q # Free <=> r.pc = "wait",
         r.op = "revoke" => r.c \in Certs /\ r.list \in Lists /\ r.c \in r.list,
         r.pc = "commit" => r.op = "revoke"
  PROVE  CallersOK'
<1> USE Constants DEF CallersOK
<1>1. caller' \in [Callers -> CallerType] /\ call' \in [Calls -> CallType]
  OBVIOUS
<1>2. caller'[p] = r /\ call'[p] = q
  OBVIOUS
<1>3. \A o \in Callers \ {p} : caller'[o] = caller[o] /\ call'[o] = call[o]
  OBVIOUS
<1> QED BY <1>1, <1>2, <1>3 DEF Shape

(* The agent works on a call, which stays in progress.                     *)
LEMMA CallStep ==
  ASSUME CallersOK, NEW k \in Calls, call[k] # Free, NEW q \in CallType, q # Free,
         call' = [call EXCEPT ![k] = q], UNCHANGED caller
  PROVE  CallersOK'
BY Constants DEF CallersOK, Shape

LEMMA FinishType ==
  ASSUME CallersOK, NEW k \in Calls, call[k] # Free, NEW ok \in BOOLEAN, Finish(k, ok)
  PROVE  CallersOK'
<1> USE Constants
<1>1. CASE k \in Strays
  BY <1>1 DEF Finish, CallersOK, Shape
<1>2. CASE k \in Callers
  <2>1. Answered(k, ok) \in CallerType /\ Answered(k, ok).pc # "wait"
    BY <1>2 DEF Answered, CallersOK, CallerType
  <2>2. /\ Answered(k, ok).op = "revoke" =>
             /\ Answered(k, ok).c \in Certs /\ Answered(k, ok).list \in Lists
             /\ Answered(k, ok).c \in Answered(k, ok).list
        /\ Answered(k, ok).pc = "commit" => Answered(k, ok).op = "revoke"
    BY <1>2 DEF Answered, CallersOK, CallerType, Shape
  <2> QED BY <1>2, <2>1, <2>2, CallerStep DEF Finish
<1> QED BY <1>1, <1>2

LEMMA ExtendedType ==
  ASSUME crl \in Lists, NEW c \in Certs
  PROVE  Extended(c) \in Lists /\ c \in Extended(c)
BY DEF Extended, Lists

(* The requests and the worker, ...                                        *)
LEMMA BeginType ==
  ASSUME Typed, NEW h \in Handlers, NEW c \in Certs, Begin(h, c)
  PROVE  Typed'
<1> DEFINE r == [op |-> "revoke", pc |-> "send", c |-> c, list |-> Extended(c)]
<1> USE DEF Typed
<1>1. Extended(c) \in Lists /\ c \in Extended(c)
  BY ExtendedType DEF RowsOK
<1>2. r \in CallerType /\ r.pc = "send" /\ r.c \in Certs /\ r.list \in Lists /\ r.c \in r.list
  BY <1>1 DEF CallerType
<1>3. /\ caller' = [caller EXCEPT ![h] = r] /\ caller[h] = Idle /\ Arrives
      /\ UNCHANGED <<crl, cert, agent, raced, faults>>
  BY DEF Begin
<1> HIDE DEF r
<1>4. call[h] = Free /\ call' = [call EXCEPT ![h] = Free]
  BY <1>3, Constants DEF CallersOK, agent
<1>5. CallersOK'
  BY <1>2, <1>3, <1>4, CallerStep, Constants
<1> QED BY <1>3, <1>5, ArrivesType DEF RowsOK, FilesOK, BoundsOK, agent

LEMMA RenderType ==
  ASSUME Typed, NEW p \in Callers, Render(p)
  PROVE  Typed'
<1> DEFINE r == [op |-> "apply", pc |-> "send", c |-> None, list |-> Rendered]
<1> USE DEF Typed
<1>1. r \in CallerType /\ r.pc = "send" /\ r.op = "apply"
  BY DEF CallerType, Rendered, RowsOK
<1>2. /\ caller' = [caller EXCEPT ![p] = r] /\ caller[p] = Idle
      /\ UNCHANGED <<crl, cert, agent, raced, faults>> /\ arrived' \in 0..MaxRequests
  BY ArrivesType DEF Render, BoundsOK
<1> HIDE DEF r
<1>3. call[p] = Free /\ call' = [call EXCEPT ![p] = Free]
  BY <1>2, Constants DEF CallersOK, agent
<1>4. CallersOK'
  BY <1>1, <1>2, <1>3, CallerStep, Constants
<1> QED BY <1>2, <1>4 DEF RowsOK, FilesOK, BoundsOK, agent

LEMMA SendType ==
  ASSUME Typed, NEW p \in Callers, Send(p)
  PROVE  Typed'
<1> DEFINE r == [caller[p] EXCEPT !.pc = "wait"]
           q == [op |-> Operation(p), pc |-> "write", list |-> caller[p].list, old |-> None]
<1> USE DEF Typed
<1>1. r \in CallerType /\ r.pc = "wait" /\ r.op = caller[p].op /\ r.c = caller[p].c /\ r.list = caller[p].list
  BY DEF CallersOK, CallerType
<1>2. q \in CallType /\ q # Free
  BY DEF CallersOK, CallerType, CallType, Operation, Free
<1>3. /\ caller' = [caller EXCEPT ![p] = r] /\ call' = [call EXCEPT ![p] = q]
      /\ UNCHANGED <<crl, cert, file, tmp, raced, arrived, faults>>
  BY DEF Send, Goto
<1>4. Shape(p)
  BY DEF CallersOK
<1> HIDE DEF r, q
<1>5. CallersOK'
  BY <1>1, <1>2, <1>3, <1>4, CallerStep DEF Shape
<1> QED BY <1>3, <1>5 DEF RowsOK, FilesOK, BoundsOK

LEMMA CommitType ==
  ASSUME Typed, NEW h \in Callers, Commit(h)
  PROVE  Typed'
<1> USE DEF Typed
<1>1. caller[h].op = "revoke" /\ caller[h].c \in Certs /\ caller[h].list \in Lists /\ call[h] = Free
  BY DEF Commit, CallersOK, Shape
<1>2. call' = [call EXCEPT ![h] = Free]
  BY <1>1, Constants DEF Commit, CallersOK, agent
<1>3. CallersOK'
  BY <1>2, CallerStep, Constants DEF Commit
<1>4. RowsOK'
  BY <1>1 DEF Commit, RowsOK, Lists
<1> QED BY <1>3, <1>4 DEF Commit, FilesOK, BoundsOK, agent

LEMMA GiveUpType ==
  ASSUME Typed, NEW p \in Callers, GiveUp(p)
  PROVE  Typed'
<1> USE DEF Typed
<1>1. caller' = [caller EXCEPT ![p] = Idle]
  BY DEF GiveUp
<1>2. CASE call[p] = Free
  <2>1. call' = [call EXCEPT ![p] = Free]
    BY <1>2, Constants DEF GiveUp, CallersOK
  <2>2. CallersOK'
    BY <1>1, <2>1, CallerStep, Constants
  <2> QED BY <2>2, FaultType DEF GiveUp, RowsOK, FilesOK, BoundsOK
<1>3. CASE call[p] # Free
  <2>1. PICK k \in Strays : call' = [call EXCEPT ![k] = call[p], ![p] = Free]
    BY <1>3 DEF GiveUp
  <2>2. k \in Calls /\ k \notin Callers
    BY Constants
  <2>3. call' \in [Calls -> CallType] /\ call'[p] = Free
    BY <2>1, <2>2, Constants DEF CallersOK
  <2>4. \A o \in Callers \ {p} : call'[o] = call[o] /\ caller'[o] = caller[o]
    BY <1>1, <2>1, <2>2, Constants DEF CallersOK
  <2>5. caller' \in [Callers -> CallerType] /\ caller'[p] = Idle
    BY <1>1, Constants DEF CallersOK
  <2>6. CallersOK'
    BY <2>3, <2>4, <2>5, Constants DEF CallersOK, Shape
  <2> QED BY <2>6, FaultType DEF GiveUp, RowsOK, FilesOK, BoundsOK
<1> QED BY <1>2, <1>3

(* ... the agent.                                                          *)
LEMMA RaiseType ==
  ASSUME CallersOK, NEW k \in Calls, call[k].pc # "free", Raise(k)
  PROVE  CallersOK'
<1>1. call[k] # Free
  BY Constants
<1>2. [call[k] EXCEPT !.pc = "restore"] \in CallType /\ [call[k] EXCEPT !.pc = "restore"] # Free
  BY DEF CallersOK, CallType, Free
<1> QED BY <1>1, <1>2, CallStep, FinishType DEF Raise

LEMMA HandleType ==
  ASSUME Typed, NEW k \in Calls, Handle(k)
  PROVE  Typed'
<1> USE DEF Typed
<1>1. call[k].pc # "free" /\ call[k] # Free /\ call[k] \in CallType
  BY Constants DEF Handle, WriteTmp, Replace, Run, Restore, CallersOK
<1>2. CASE WriteTmp(k)
  <2> DEFINE q == [call[k] EXCEPT !.pc = "replace", !.old = IF call[k].op = "apply" THEN file ELSE None]
  <2>1. q \in CallType /\ q # Free
    BY <1>1 DEF CallType, Free, FilesOK
  <2>2. call' = [call EXCEPT ![k] = q]
    BY <1>1, <1>2 DEF WriteTmp, CallersOK
  <2> HIDE DEF q
  <2>3. CallersOK'
    BY <1>1, <1>2, <2>1, <2>2, CallStep DEF WriteTmp
  <2> QED BY <1>1, <1>2, <2>3 DEF WriteTmp, RowsOK, FilesOK, BoundsOK, CallType
<1>3. CASE Replace(k)
  <2>1. [call[k] EXCEPT !.pc = "run"] \in CallType /\ [call[k] EXCEPT !.pc = "run"] # Free
    BY <1>1 DEF CallType, Free
  <2>2. CallersOK'
    BY <1>1, <1>3, <2>1, RaiseType, CallStep DEF Replace
  <2> QED BY <1>3, <2>2 DEF Replace, RowsOK, FilesOK, BoundsOK
<1>4. CASE Run(k)
  <2>1. CallersOK'
    BY <1>1, <1>4, RaiseType, FinishType DEF Run
  <2> QED BY <1>4, <2>1, FaultType DEF Run, RowsOK, FilesOK, BoundsOK
<1>5. CASE Restore(k)
  <2>1. CallersOK'
    BY <1>1, <1>5, FinishType DEF Restore
  <2> QED BY <1>1, <1>5, <2>1 DEF Restore, RowsOK, FilesOK, BoundsOK, CallType
<1> QED BY <1>2, <1>3, <1>4, <1>5 DEF Handle

LEMMA AgentCrashType ==
  ASSUME Typed, AgentCrash
  PROVE  Typed'
<1> USE DEF Typed
<1>1. call' \in [Calls -> CallType] /\ \A k \in Calls : call'[k] = Free
  BY Constants DEF AgentCrash
<1>2. caller' \in [Callers -> CallerType]
      /\ \A p \in Callers : caller'[p] = (IF caller[p].pc = "wait" THEN Idle ELSE caller[p])
  BY Constants DEF AgentCrash, CallersOK
<1>3. CallersOK'
  BY <1>1, <1>2, Constants DEF CallersOK, Shape
<1> QED BY <1>3, FaultType DEF AgentCrash, RowsOK, FilesOK, BoundsOK

LEMMA InitType == Init => Typed
<1> SUFFICES ASSUME Init PROVE Typed
  OBVIOUS
<1>1. CallersOK
  BY Constants DEF Init, CallersOK, Shape
<1>2. RowsOK /\ FilesOK
  BY DEF Init, RowsOK, FilesOK, Lists
<1>3. BoundsOK
  BY BoundAssumption DEF Init, BoundsOK
<1> QED BY <1>1, <1>2, <1>3 DEF Typed

LEMMA NextType == Typed /\ [Next]_vars => Typed'
<1> SUFFICES ASSUME Typed, [Next]_vars PROVE Typed'
  OBVIOUS
<1>1. CASE UNCHANGED vars
  BY <1>1 DEF vars, agent, Typed, CallersOK, Shape, RowsOK, FilesOK, BoundsOK
<1> QED BY <1>1, BeginType, RenderType, SendType, CommitType, GiveUpType, HandleType, AgentCrashType
        DEF Next, Proceed

(* The variables of RevocationList have their types, and a caller waits    *)
(* exactly as long as the agent handles its call (TypeOK).                 *)
THEOREM TypeCorrect == Spec => []TypeOK
<1>1. Spec => []Typed
  BY InitType, NextType, PTL DEF Spec
<1> QED BY <1>1, TypedSuffices, PTL

-----------------------------------------------------------------------------
(* The list.                                                               *)

(* A list is complete when it has every certificate that is not live any   *)
(* more, but for those whose revocation another request's list has missed. *)
(* The column's list is, and so is the list of every revocation under way. *)
Complete(list) == \A c \in Certs : cert[c] # "live" => c \in list \cup raced
Revokes(p) == caller[p].op = "revoke"
ListsInv ==
  /\ Complete(crl)
  /\ \A p \in Callers : Revokes(p) => p \in Handlers /\ Complete(caller[p].list)

LEMMA ListsKept ==
  ASSUME ListsInv, UNCHANGED <<crl, cert, raced>>,
         \A p \in Callers : Revokes(p)' => Revokes(p) /\ caller'[p].list = caller[p].list
  PROVE  ListsInv'
BY DEF ListsInv, Complete

LEMMA BeginLists ==
  ASSUME Typed, ListsInv, NEW h \in Handlers, NEW c \in Certs, Begin(h, c)
  PROVE  ListsInv'
<1> DEFINE r == [op |-> "revoke", pc |-> "send", c |-> c, list |-> Extended(c)]
<1>1. caller' = [caller EXCEPT ![h] = r] /\ UNCHANGED <<crl, cert, raced>>
  BY DEF Begin
<1>2. \A d \in Certs : cert'[d] # "live" => d \in r.list \cup raced'
  BY <1>1 DEF ListsInv, Complete, Extended
<1> HIDE DEF r
<1>3. caller'[h] = r /\ \A p \in Callers \ {h} : caller'[p] = caller[p]
  BY <1>1, Constants DEF Typed, CallersOK
<1>4. \A p \in Callers : Revokes(p)' => p = h \/ (p # h /\ Revokes(p) /\ caller'[p] = caller[p])
  BY <1>3 DEF Revokes
<1>5. Complete(crl)'
  BY <1>1 DEF ListsInv, Complete
<1>6. Complete(caller[h].list)'
  BY <1>2, <1>3 DEF Complete
<1>7. \A p \in Callers : Revokes(p) => p \in Handlers /\ Complete(caller[p].list)'
  BY <1>1, <1>3, <1>6 DEF ListsInv, Complete
<1> QED BY <1>4, <1>5, <1>6, <1>7 DEF ListsInv

(* Whoever still has a list without the certificate makes it a missed one. *)
LEMMA CommitLists ==
  ASSUME Typed, ListsInv, NEW h \in Callers, Commit(h)
  PROVE  ListsInv'
<1> DEFINE c == caller[h].c
<1>1. Revokes(h) /\ h \in Handlers /\ c \in Certs /\ c \in caller[h].list /\ Complete(caller[h].list)
  BY DEF Commit, Typed, CallersOK, Shape, ListsInv, Revokes
<1>2. caller'[h] = Idle /\ \A p \in Callers \ {h} : caller'[p] = caller[p]
  BY DEF Commit, Typed, CallersOK
<1>3. \A p \in Callers : Revokes(p)' => p # h /\ p \in Handlers /\ Revokes(p) /\ Complete(caller[p].list)
                                     /\ caller'[p].list = caller[p].list
  BY <1>2, Constants DEF Revokes, ListsInv
<1>4. CASE UNCHANGED <<crl, cert, raced>>
  BY <1>3, <1>4, ListsKept
<1>5. CASE /\ crl' = caller[h].list /\ \E st : cert' = [cert EXCEPT ![c] = st]
           /\ raced' = raced \cup {d \in caller[h].list : Missed(h, d)}
  <2>1. \A d \in Certs : cert'[d] # "live" => d = c \/ cert[d] # "live"
    BY <1>5 DEF Typed, RowsOK
  <2>2. Complete(crl)'
    BY <1>1, <1>5, <2>1 DEF Complete
  <2>3. ASSUME NEW p \in Callers, Revokes(p)'
        PROVE  Complete(caller[p].list)'
    <3>1. p \in Handlers \ {h} /\ Revokes(p) /\ Complete(caller[p].list) /\ caller'[p].list = caller[p].list
      BY <1>3, <2>3
    <3>2. c \in caller[p].list \/ Missed(h, c)
      BY <3>1 DEF Missed, Revokes
    <3>3. c \in caller'[p].list \cup raced'
      BY <1>1, <1>5, <3>1, <3>2
    <3>4. \A d \in Certs : cert[d] # "live" => d \in caller'[p].list \cup raced'
      BY <1>5, <3>1 DEF Complete
    <3> HIDE DEF c
    <3> QED BY <2>1, <3>3, <3>4 DEF Complete
  <2> QED BY <1>3, <2>2, <2>3 DEF ListsInv
<1> QED BY <1>4, <1>5 DEF Commit

LEMMA FinishLists ==
  ASSUME Typed, NEW k \in Calls, NEW ok \in BOOLEAN, Finish(k, ok)
  PROVE  \A p \in Callers : Revokes(p)' => Revokes(p) /\ caller'[p].list = caller[p].list
<1>1. CASE k \in Strays
  BY <1>1 DEF Finish, Revokes
<1>2. CASE k \in Callers
  <2>1. caller'[k] = Answered(k, ok) /\ \A p \in Callers \ {k} : caller'[p] = caller[p]
    BY <1>2, Constants DEF Finish, Typed, CallersOK
  <2>2. Answered(k, ok).op = "revoke" => Revokes(k) /\ Answered(k, ok).list = caller[k].list
    BY <1>2, Constants DEF Answered, Typed, CallersOK, CallerType, Revokes
  <2> QED BY <2>1, <2>2 DEF Revokes
<1> QED BY <1>1, <1>2, Constants

LEMMA NextLists == Typed /\ ListsInv /\ [Next]_vars => ListsInv'
<1> SUFFICES ASSUME Typed, ListsInv, [Next]_vars PROVE ListsInv'
  OBVIOUS
<1>1. CASE UNCHANGED <<crl, cert, raced, caller>>
  BY <1>1, ListsKept DEF Revokes
<1>2. UNCHANGED vars => UNCHANGED <<crl, cert, raced, caller>>
  BY DEF vars
<1>3. ASSUME NEW p \in Callers, Render(p)
      PROVE  ListsInv'
  <2>1. caller'[p].op = "apply" /\ \A o \in Callers \ {p} : caller'[o] = caller[o]
    BY <1>3 DEF Render, Typed, CallersOK
  <2> QED BY <1>3, <2>1, ListsKept DEF Render, Revokes
<1>4. ASSUME NEW p \in Callers, Send(p)
      PROVE  ListsInv'
  <2>1. \A o \in Callers : caller'[o].op = caller[o].op /\ caller'[o].list = caller[o].list
    BY <1>4 DEF Send, Goto, Typed, CallersOK, CallerType
  <2> QED BY <1>4, <2>1, ListsKept DEF Send, Revokes
<1>5. ASSUME NEW p \in Callers, GiveUp(p)
      PROVE  ListsInv'
  <2>1. caller'[p] = Idle /\ \A o \in Callers \ {p} : caller'[o] = caller[o]
    BY <1>5 DEF GiveUp, Typed, CallersOK
  <2> QED BY <1>5, <2>1, ListsKept, Constants DEF GiveUp, Revokes
<1>6. ASSUME NEW k \in Calls, Handle(k)
      PROVE  ListsInv'
  <2>1. UNCHANGED <<crl, cert, raced>>
    BY <1>6 DEF Handle, WriteTmp, Replace, Run, Restore
  <2>2. UNCHANGED caller \/ \E ok \in BOOLEAN : Finish(k, ok)
    BY <1>6 DEF Handle, WriteTmp, Replace, Run, Restore, Raise
  <2> QED BY <2>1, <2>2, <1>1, FinishLists, ListsKept
<1>7. CASE AgentCrash
  <2>1. \A p \in Callers : caller'[p] \in {Idle, caller[p]}
    BY <1>7 DEF AgentCrash
  <2> QED BY <1>7, <2>1, ListsKept, Constants DEF AgentCrash, Revokes
<1> QED BY <1>1, <1>2, <1>3, <1>4, <1>5, <1>6, <1>7, BeginLists, CommitLists DEF Next, Proceed

(* A certificate whose revocation was committed stays on the list, unless  *)
(* another revocation had read the list before: for any number of          *)
(* revocations, renderings, failures and abandoned calls, a read that      *)
(* starts after the commit always carries it on (RevokedStaysListed).      *)
THEOREM RevokedListed == Spec => []RevokedStaysListed
<1>1. Init => ListsInv
  BY Constants DEF Init, ListsInv, Complete, Revokes
<1>2. ListsInv => RevokedStaysListed
  BY DEF ListsInv, Complete, RevokedStaysListed
<1> QED BY <1>1, <1>2, InitType, NextType, NextLists, PTL DEF Spec
=============================================================================
