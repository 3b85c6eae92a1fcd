------------------------- MODULE TrafficQuotaProofs -------------------------
(***************************************************************************)
(* Proofs about TrafficQuota: metering never invents traffic, and loses    *)
(* none as long as a counter does not restart, for any number of clients,  *)
(* keys, windows, limits and faults.                                       *)
(***************************************************************************)
EXTENDS TrafficQuota, TLAPS

Pending(k) == wk.pc = "count" /\ k \in wk.got

(* What the rows hold, and what the next commit would add, was carried: the*)
(* counter row, the counter read and the node's counter may each be ahead  *)
(* of the other after a restart.                                           *)
Covered(k) ==
  /\ \A w \in Scopes : used[w][k] <= used["total"][k]
  /\ used["total"][k] <= carried[k]
  /\ used["total"][k] + peer[k] <= carried[k] + counter[k]
  /\ Pending(k) => /\ used["total"][k] + wk.snap[k] <= carried[k] + counter[k]
                   /\ used["total"][k] + peer[k] <= carried[k] + wk.snap[k]

(* A counter that never restarted: the three agree up to what is under way.*)
Exact(k) ==
  k \notin disturbed =>
    /\ used["total"][k] = counter[k] /\ counter[k] <= peer[k] /\ peer[k] = carried[k]
    /\ k \notin served => carried[k] = 0
    /\ Pending(k) => counter[k] <= wk.snap[k] /\ wk.snap[k] <= peer[k]

IInv == TypeOK /\ \A k \in Keys : Covered(k) /\ Exact(k)

LEMMA TotalScope == "total" \in Scopes
BY DEF Scopes

-----------------------------------------------------------------------------
(* Types.                                                                  *)

LEMMA RestType == Rest \in WorkerType /\ [Rest EXCEPT !.pc = "quota"] \in WorkerType
                    /\ [Rest EXCEPT !.pc = "sync"] \in WorkerType
BY DEF Rest, WorkerType, Zero

(* TypeOK by groups of variables, so that a step is typed group by group.  *)
QuotaOK ==
  /\ status \in [Clients -> Statuses]
  /\ lapsed \subseteq Clients
  /\ limit \in [Clients -> [Scopes \cup {"devices"} -> Nat \cup {NoLimit}]]
  /\ drawn \subseteq Keys /\ live \subseteq drawn
MeterOK == used \in [Scopes -> [Keys -> Nat]] /\ counter \in [Keys -> Nat]
IfaceOK ==
  /\ served \subseteq Keys /\ disturbed \subseteq Keys
  /\ peer \in [Keys -> Nat] /\ carried \in [Keys -> Nat]
BoundsOK == rolls \in 0 .. MaxRolls /\ changes \in 0 .. MaxChanges /\ faults \in 0 .. MaxFaults

LEMMA Groups ==
  /\ TypeOK <=> QuotaOK /\ MeterOK /\ IfaceOK /\ wk \in WorkerType /\ BoundsOK
  /\ TypeOK' <=> QuotaOK' /\ MeterOK' /\ IfaceOK' /\ wk' \in WorkerType /\ BoundsOK'
<1>1. TypeOK <=> QuotaOK /\ MeterOK /\ IfaceOK /\ wk \in WorkerType /\ BoundsOK
  BY Zenon DEF TypeOK, QuotaOK, MeterOK, IfaceOK, BoundsOK
<1>2. TypeOK' <=> QuotaOK' /\ MeterOK' /\ IfaceOK' /\ wk' \in WorkerType /\ BoundsOK'
  BY Zenon DEF TypeOK, QuotaOK, MeterOK, IfaceOK, BoundsOK
<1> QED BY <1>1, <1>2

LEMMA Unchanged ==
  /\ QuotaOK /\ UNCHANGED quota => QuotaOK'
  /\ MeterOK /\ UNCHANGED meter => MeterOK'
  /\ IfaceOK /\ UNCHANGED iface => IfaceOK'
  /\ BoundsOK /\ UNCHANGED bounds => BoundsOK'
BY DEF QuotaOK, MeterOK, IfaceOK, BoundsOK, quota, meter, iface, bounds

LEMMA FaultType ==
  BoundsOK /\ (Fault \/ UNCHANGED faults) /\ UNCHANGED <<rolls, changes>> => BoundsOK'
BY NumberAssumption DEF BoundsOK, Fault

LEMMA InitType == Init => TypeOK
<1> SUFFICES ASSUME Init PROVE TypeOK
  OBVIOUS
<1>1. QuotaOK
  BY LimitAssumption DEF Init, QuotaOK, Statuses
<1>2. MeterOK /\ IfaceOK
  BY DEF Init, MeterOK, IfaceOK, Zero
<1>3. BoundsOK /\ wk \in WorkerType
  BY NumberAssumption, RestType DEF Init, BoundsOK
<1> QED BY <1>1, <1>2, <1>3, Groups

LEMMA InstallType ==
  ASSUME IfaceOK, NEW T \in SUBSET Keys, NEW K, Install(T, K)
  PROVE  IfaceOK'
BY DEF IfaceOK, Install

LEMMA CountType ==
  ASSUME MeterOK, wk \in WorkerType, NEW S \in SUBSET Known, Count(S)
  PROVE  MeterOK'
<1>1. wk.snap \in [Keys -> Nat]
  BY DEF WorkerType
<1>2. \A k \in Keys : Delta(k) \in Nat
  BY <1>1 DEF Delta, MeterOK
<1>3. \A w \in Scopes : [k \in Keys |-> IF k \in S THEN used[w][k] + Delta(k) ELSE used[w][k]]
                          \in [Keys -> Nat]
  BY <1>2 DEF MeterOK
<1> QED BY <1>1, <1>3 DEF Count, Advanced, MeterOK

LEMMA WorkerTypes ==
  ASSUME TypeOK, WorkerStep \/ CrashWorker \/ Reboot
  PROVE  TypeOK'
<1>0. QuotaOK /\ MeterOK /\ IfaceOK /\ wk \in WorkerType /\ BoundsOK
  BY Groups
<1>1. CASE ReadCounters
  <2>1. wk' \in WorkerType
    BY <1>0, <1>1 DEF ReadCounters, IfaceOK, WorkerType
  <2>2. (Fault \/ UNCHANGED faults) /\ UNCHANGED <<quota, meter, iface, rolls, changes>>
    BY <1>1 DEF ReadCounters
  <2> QED BY <1>0, <2>1, <2>2, Groups, Unchanged, FaultType
<1>2. CASE CommitCounters
  <2>1. PICK S \in SUBSET Known : Count(S)
    BY <1>2 DEF CommitCounters
  <2>2. wk' \in WorkerType
    BY <1>2, RestType DEF CommitCounters
  <2>3. (Fault \/ UNCHANGED faults) /\ UNCHANGED <<quota, iface, rolls, changes>>
    BY <1>2 DEF CommitCounters
  <2> QED BY <1>0, <2>1, <2>2, <2>3, Groups, Unchanged, CountType, FaultType
<1>3. CASE ReadQuotas
  <2>1. \A c \in Clients : Verdict(c) \in Statuses
    BY <1>0 DEF Verdict, Statuses, QuotaOK
  <2>2. wk' \in WorkerType
    BY <1>0, <1>3, <2>1 DEF ReadQuotas, WorkerType
  <2> QED BY <1>0, <1>3, <2>2, Groups, Unchanged DEF ReadQuotas
<1>4. CASE CommitQuotas
  <2>1. QuotaOK'
    BY <1>0, <1>4 DEF CommitQuotas, QuotaOK, WorkerType
  <2>2. wk' \in WorkerType
    BY <1>4, RestType DEF CommitQuotas
  <2> QED BY <1>0, <1>4, <2>1, <2>2, Groups, Unchanged DEF CommitQuotas
<1>5. CASE SyncNode
  <2>1. Desired \in SUBSET Keys
    BY <1>0 DEF Desired, QuotaOK
  <2>2. IfaceOK'
    BY <1>0, <1>5, <2>1, InstallType, Unchanged DEF SyncNode
  <2>3. (Fault \/ UNCHANGED faults) /\ UNCHANGED <<quota, meter, rolls, changes>> /\ wk' = Rest
    BY <1>5 DEF SyncNode
  <2> QED BY <1>0, <2>2, <2>3, Groups, Unchanged, RestType, FaultType
<1>6. CASE CrashWorker
  BY <1>0, <1>6, Groups, Unchanged, RestType, FaultType DEF CrashWorker
<1>7. CASE Reboot
  <2>1. IfaceOK'
    BY <1>0, <1>7, InstallType DEF Reboot, IfaceOK
  <2>2. Fault /\ UNCHANGED <<quota, meter, wk, rolls, changes>>
    BY <1>7 DEF Reboot
  <2> QED BY <1>0, <2>1, <2>2, Groups, Unchanged, FaultType
<1> QED BY <1>1, <1>2, <1>3, <1>4, <1>5, <1>6, <1>7 DEF WorkerStep

LEMMA TypeStep == TypeOK /\ [Next]_vars => TypeOK'
<1> SUFFICES ASSUME TypeOK, [Next]_vars PROVE TypeOK'
  OBVIOUS
<1>0. QuotaOK /\ MeterOK /\ IfaceOK /\ wk \in WorkerType /\ BoundsOK
  BY Groups
<1>1. CASE WorkerStep \/ CrashWorker \/ Reboot
  BY <1>1, WorkerTypes
<1>2. ASSUME NEW k \in Keys, Transfer(k) PROVE TypeOK'
  <2>1. IfaceOK'
    BY <1>0, <1>2 DEF Transfer, IfaceOK
  <2> QED BY <1>0, <1>2, <2>1, Groups, Unchanged DEF Transfer
<1>3. ASSUME NEW k \in Keys, Issue(k) PROVE TypeOK'
  <2>1. PICK T \in SUBSET Keys : Install(T, served \cap T)
    BY <1>0, <1>3 DEF Issue, QuotaOK
  <2>2. QuotaOK'
    BY <1>0, <1>3 DEF Issue, QuotaOK
  <2> QED BY <1>0, <1>3, <2>1, <2>2, InstallType, Groups, Unchanged DEF Issue
<1>4. ASSUME NEW c \in Clients, Revoke(c) PROVE TypeOK'
  <2>1. IfaceOK'
    BY <1>0, <1>4, InstallType DEF Revoke, IfaceOK
  <2>2. QuotaOK'
    BY <1>0, <1>4 DEF Revoke, QuotaOK, Statuses
  <2> QED BY <1>0, <1>4, <2>1, <2>2, Groups, Unchanged DEF Revoke
<1>5. ASSUME NEW c \in Clients, SetQuota(c) \/ Lapse(c) \/ Renew(c) PROVE TypeOK'
  <2>1. lapsed' \subseteq Clients /\ UNCHANGED <<status, drawn, live, meter, iface, wk>>
    BY <1>0, <1>5 DEF SetQuota, Lapse, Renew, QuotaOK
  <2>2. limit' \in [Clients -> [Scopes \cup {"devices"} -> Nat \cup {NoLimit}]]
    BY <1>0, <1>5, LimitAssumption DEF SetQuota, Lapse, Renew, QuotaOK
  <2>3. BoundsOK'
    BY <1>0, <1>5, NumberAssumption DEF SetQuota, Lapse, Renew, Change, BoundsOK, bounds
  <2>4. QuotaOK'
    BY <1>0, <2>1, <2>2 DEF QuotaOK
  <2> QED BY <1>0, <2>1, <2>3, <2>4, Groups, Unchanged
<1>6. ASSUME NEW w \in Windows, Roll(w) PROVE TypeOK'
  <2>1. MeterOK'
    BY <1>0, <1>6 DEF Roll, Zero, MeterOK
  <2>2. BoundsOK'
    BY <1>0, <1>6, NumberAssumption DEF Roll, BoundsOK
  <2> QED BY <1>0, <1>6, <2>1, <2>2, Groups, Unchanged DEF Roll
<1>7. CASE UNCHANGED vars
  BY <1>0, <1>7, Groups, Unchanged DEF vars
<1> QED BY <1>1, <1>2, <1>3, <1>4, <1>5, <1>6, <1>7 DEF Next

-----------------------------------------------------------------------------
(* Metering.                                                               *)

LEMMA InitMeter == Init => \A k \in Keys : Covered(k) /\ Exact(k)
BY TotalScope DEF Init, Covered, Exact, Pending, Rest, Zero

(* Steps that touch neither the rows nor the node.                         *)
LEMMA Frame ==
  ASSUME IInv, UNCHANGED <<meter, iface>>, wk'.pc # "count" \/ UNCHANGED wk
  PROVE  \A k \in Keys : Covered(k)' /\ Exact(k)'
BY DEF IInv, Covered, Exact, Pending, meter, iface

(* The node's peers change; a peer that is kept was there.                 *)
LEMMA InstallStep ==
  ASSUME IInv, NEW T \in SUBSET Keys, NEW K \in SUBSET T, Install(T, K),
         K \subseteq served, UNCHANGED meter, wk'.pc # "count" \/ UNCHANGED wk
  PROVE  \A k \in Keys : Covered(k)' /\ Exact(k)'
<1> SUFFICES ASSUME NEW k \in Keys PROVE Covered(k)' /\ Exact(k)'
  OBVIOUS
<1>1. /\ peer'[k] = (IF k \in K THEN peer[k] ELSE 0) /\ carried'[k] = carried[k]
      /\ served' = T /\ disturbed' = disturbed \cup (served \ K)
      /\ UNCHANGED <<used, counter>>
  BY DEF Install, meter
<1>2. /\ used["total"][k] \in Nat /\ peer[k] \in Nat /\ carried[k] \in Nat
      /\ counter[k] \in Nat /\ wk.snap[k] \in Nat
  BY TotalScope DEF IInv, TypeOK, WorkerType
<1>3. Pending(k)' => Pending(k) /\ wk' = wk
  BY DEF Pending
<1>4. Covered(k)'
  BY <1>1, <1>2, <1>3 DEF IInv, Covered
<1>5. Exact(k)'
  BY <1>1, <1>2, <1>3 DEF IInv, Exact
<1> QED BY <1>4, <1>5

LEMMA CountStep ==
  ASSUME IInv, CommitCounters
  PROVE  \A k \in Keys : Covered(k)' /\ Exact(k)'
<1> SUFFICES ASSUME NEW k \in Keys PROVE Covered(k)' /\ Exact(k)'
  OBVIOUS
<1>1. PICK S \in SUBSET Known : Count(S)
  BY DEF CommitCounters
<1>2. ~Pending(k)'
  BY DEF CommitCounters, Pending, Rest
<1>3. /\ \A w \in Scopes : used[w][k] \in Nat
      /\ peer[k] \in Nat /\ carried[k] \in Nat
      /\ counter[k] \in Nat /\ wk.snap[k] \in Nat
  BY DEF IInv, TypeOK, WorkerType
<1>4. UNCHANGED iface
  BY DEF CommitCounters
<1>5. CASE k \in S
  <2>1. Pending(k)
    BY <1>5 DEF CommitCounters, Pending, Known
  <2>2. /\ counter'[k] = wk.snap[k]
        /\ \A w \in Scopes : used'[w][k] = used[w][k] + Delta(k)
    BY <1>1, <1>5 DEF Count, Advanced
  <2>3. Covered(k)'
    BY <1>2, <1>3, <1>4, <2>1, <2>2, TotalScope DEF IInv, Covered, Delta, iface
  <2>4. Exact(k)'
    BY <1>2, <1>3, <1>4, <2>1, <2>2, TotalScope DEF IInv, Exact, Delta, iface
  <2> QED BY <2>3, <2>4
<1>6. CASE k \notin S
  <2>1. counter'[k] = counter[k] /\ \A w \in Scopes : used'[w][k] = used[w][k]
    BY <1>1, <1>6 DEF Count, Advanced
  <2>2. Covered(k)'
    BY <1>2, <1>4, <2>1, TotalScope DEF IInv, Covered, iface
  <2>3. Exact(k)'
    BY <1>2, <1>4, <2>1, TotalScope DEF IInv, Exact, iface
  <2> QED BY <2>2, <2>3
<1> QED BY <1>5, <1>6

LEMMA MeterStep == IInv /\ [Next]_vars => \A k \in Keys : Covered(k)' /\ Exact(k)'
<1> SUFFICES ASSUME IInv, [Next]_vars PROVE \A k \in Keys : Covered(k)' /\ Exact(k)'
  OBVIOUS
<1>0. TypeOK
  BY DEF IInv
<1>1. CASE ReadCounters
  <2> SUFFICES ASSUME NEW k \in Keys PROVE Covered(k)' /\ Exact(k)'
    OBVIOUS
  <2>1. /\ used["total"][k] \in Nat /\ peer[k] \in Nat /\ carried[k] \in Nat /\ counter[k] \in Nat
    BY <1>0, TotalScope DEF TypeOK
  <2>2. UNCHANGED <<meter, iface>>
    BY <1>1 DEF ReadCounters
  <2>3. Pending(k)' => wk'.snap[k] = peer[k]
    BY <1>0, <1>1 DEF ReadCounters, Pending, TypeOK, WorkerType
  <2> QED BY <2>1, <2>2, <2>3 DEF IInv, Covered, Exact, meter, iface
<1>2. CASE CommitCounters
  BY <1>2, CountStep
<1>3. CASE ReadQuotas \/ CommitQuotas \/ CrashWorker
  <2>1. wk'.pc # "count"
    <3>1. wk \in WorkerType
      BY <1>0, Groups
    <3>2. CASE ReadQuotas
      BY <3>1, <3>2 DEF ReadQuotas, WorkerType
    <3> QED BY <1>3, <3>2 DEF CommitQuotas, CrashWorker, Rest
  <2> QED BY <1>3, <2>1, Frame DEF ReadQuotas, CommitQuotas, CrashWorker
<1>4. CASE SyncNode
  <2>1. Desired \in SUBSET Keys
    BY <1>0 DEF Desired, TypeOK
  <2>2. wk'.pc # "count" /\ UNCHANGED meter
    BY <1>4 DEF SyncNode, Rest
  <2>3. CASE UNCHANGED iface
    BY <2>2, <2>3, Frame
  <2>4. CASE Install(Desired, served \cap Desired)
    BY <2>1, <2>2, <2>4, InstallStep
  <2>5. CASE Install(Desired, {})
    BY <2>1, <2>2, <2>5, InstallStep
  <2> QED BY <1>4, <2>3, <2>4, <2>5 DEF SyncNode
<1>5. CASE Reboot
  <2>1. served \in SUBSET Keys
    BY <1>0 DEF TypeOK
  <2> QED BY <1>5, <2>1, InstallStep DEF Reboot
<1>6. ASSUME NEW j \in Keys, Transfer(j) PROVE \A k \in Keys : Covered(k)' /\ Exact(k)'
  <2> SUFFICES ASSUME NEW k \in Keys PROVE Covered(k)' /\ Exact(k)'
    OBVIOUS
  <2>1. /\ used["total"][k] \in Nat /\ peer[k] \in Nat /\ carried[k] \in Nat
        /\ counter[k] \in Nat /\ wk.snap[k] \in Nat
    BY <1>0, TotalScope DEF TypeOK, WorkerType
  <2>2. /\ peer'[k] = (IF k = j THEN peer[k] + 1 ELSE peer[k])
        /\ carried'[k] = (IF k = j THEN carried[k] + 1 ELSE carried[k])
        /\ k = j => k \in served
        /\ UNCHANGED <<used, counter, served, disturbed, wk>>
    BY <1>0, <1>6 DEF Transfer, TypeOK, meter
  <2>3. Covered(k)'
    BY <2>1, <2>2 DEF IInv, Covered, Pending
  <2>4. Exact(k)'
    BY <2>1, <2>2 DEF IInv, Exact, Pending
  <2> QED BY <2>3, <2>4
<1>7. ASSUME NEW j \in Keys, Issue(j) PROVE \A k \in Keys : Covered(k)' /\ Exact(k)'
  <2>1. PICK T \in SUBSET Keys : Install(T, served \cap T)
    BY <1>0, <1>7 DEF Issue, TypeOK
  <2> QED BY <1>7, <2>1, InstallStep DEF Issue
<1>8. ASSUME NEW c \in Clients, Revoke(c) PROVE \A k \in Keys : Covered(k)' /\ Exact(k)'
  <2>1. served \ KeysOf(c) \in SUBSET Keys
    BY <1>0 DEF TypeOK
  <2> QED BY <1>8, <2>1, InstallStep DEF Revoke
<1>9. ASSUME NEW c \in Clients, SetQuota(c) \/ Lapse(c) \/ Renew(c)
      PROVE  \A k \in Keys : Covered(k)' /\ Exact(k)'
  BY <1>9, Frame DEF SetQuota, Lapse, Renew
<1>10. ASSUME NEW w \in Windows, Roll(w) PROVE \A k \in Keys : Covered(k)' /\ Exact(k)'
  <2> SUFFICES ASSUME NEW k \in Keys PROVE Covered(k)' /\ Exact(k)'
    OBVIOUS
  <2>1. /\ UNCHANGED <<counter, iface, wk>>
        /\ used'["total"] = used["total"]
        /\ \A v \in Scopes : used'[v][k] = used[v][k] \/ used'[v][k] = 0
    BY <1>0, <1>10, LimitAssumption DEF Roll, Zero, TypeOK, Scopes
  <2>2. used["total"][k] \in Nat
    BY <1>0, TotalScope DEF TypeOK
  <2> QED BY <2>1, <2>2 DEF IInv, Covered, Exact, Pending, iface
<1>11. CASE UNCHANGED vars
  BY <1>11, Frame DEF vars
<1> QED BY <1>1, <1>2, <1>3, <1>4, <1>5, <1>6, <1>7, <1>8, <1>9, <1>10, <1>11
        DEF Next, WorkerStep

-----------------------------------------------------------------------------
LEMMA Invariance == Spec => []IInv
<1>1. Init => IInv
  BY InitType, InitMeter DEF IInv
<1>2. IInv /\ [Next]_vars => IInv'
  BY TypeStep, MeterStep DEF IInv
<1> QED BY <1>1, <1>2, PTL DEF Spec

(* Every variable stays in its set.                                        *)
THEOREM TypeCorrect == Spec => []TypeOK
BY Invariance, PTL DEF IInv

(* A client is never charged for traffic it did not have (worker.py:28-39).*)
THEOREM ChargedOnlyCarried == Spec => []NeverOvercounted
<1>1. IInv => NeverOvercounted
  <2> SUFFICES ASSUME IInv, NEW w \in Scopes, NEW k \in Keys PROVE used[w][k] <= carried[k]
    BY DEF NeverOvercounted
  <2>1. used[w][k] \in Nat /\ used["total"][k] \in Nat /\ carried[k] \in Nat
    BY TotalScope DEF IInv, TypeOK
  <2> QED BY <2>1 DEF IInv, Covered
<1> QED BY Invariance, <1>1, PTL

(* While its counter does not restart, all of a key's traffic up to the    *)
(* last collection is in its rows (worker.py:28-39).                       *)
THEOREM NothingLostUntilRestart == Spec => []ExactUntilRestart
<1>1. IInv => ExactUntilRestart
  BY DEF IInv, Exact, ExactUntilRestart
<1> QED BY Invariance, <1>1, PTL
=============================================================================
