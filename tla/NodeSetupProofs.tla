---------------------------- MODULE NodeSetupProofs ----------------------------
(***************************************************************************)
(* NodeSetup: the installer and the updater keep their types, the server's *)
(* own connections follow one redirect, and a finished run survives a      *)
(* reboot, for any candidates, files, versions, faults and ports taken.    *)
(***************************************************************************)
EXTENDS NodeSetup, FiniteSetTheorems, TLAPS

-----------------------------------------------------------------------------
(* The loops over stale redirects.                                         *)

LEMMA Smallest ==
  ASSUME NEW k \in Nat, NEW T \in SUBSET (0..k), T # {}
  PROVE  \E n \in T : \A m \in T : n =< m
<1> DEFINE Below(n) == {m \in T : m < n}
           B == {Below(n) : n \in T}
<1>1. IsFiniteSet(T)
  <2>1. IsFiniteSet(0..k)
    BY FS_Interval
  <2> QED BY <2>1, FS_Subset
<1>2. IsWellFoundedOn(StrictSubsetOrdering(T), SUBSET T)
  BY <1>1, FS_StrictSubsetOrderingWellFounded, FS_FiniteSubsetsOfFinite
<1>3. \E X \in B : \A Y \in B : ~ (<<Y, X>> \in StrictSubsetOrdering(T))
  <2>1. B \subseteq SUBSET T /\ B # {}
    OBVIOUS
  <2> HIDE DEF B
  <2> QED BY <1>2, <2>1, WFMin
<1>4. PICK n \in T : \A m \in T : ~ (<<Below(m), Below(n)>> \in StrictSubsetOrdering(T))
  BY <1>3
<1>5. ASSUME NEW m \in T, m < n
      PROVE  FALSE
  <2>1. m \in Below(n) /\ m \notin Below(m) /\ Below(m) \subseteq Below(n)
    <3>1. \A l \in T : l \in Int
      OBVIOUS
    <3>2. (\A l \in T : l < m => l < n) /\ ~(m < m)
      BY <1>5, <3>1
    <3> QED BY <1>5, <3>2
  <2>2. <<Below(m), Below(n)>> \in StrictSubsetOrdering(T)
    BY <2>1 DEF StrictSubsetOrdering
  <2> QED BY <1>4, <2>2
<1> QED BY <1>5

(* The recursion over the rules has a solution for every chain.            *)
LEMMA LeftSolved ==
  ASSUME NEW chain \in Seq(Rule), NEW dst
  PROVE  \E g : g = [i \in 0..Len(chain) |->
           IF i = 0 THEN <<>>
           ELSE IF Matches(chain[i], dst) THEN g[i - 1] ELSE Append(g[i - 1], chain[i])]
<1> DEFINE Solves(g, n) ==
      g = [i \in 0..n |->
             IF i = 0 THEN <<>>
             ELSE IF Matches(chain[i], dst) THEN g[i - 1] ELSE Append(g[i - 1], chain[i])]
<1> DEFINE T == {n \in 0..Len(chain) : ~ \E g : Solves(g, n)}
<1>1. Len(chain) \in Nat
  OBVIOUS
<1>2. T = {}
  <2> SUFFICES ASSUME T # {} PROVE FALSE
    OBVIOUS
  <2>1. PICK n \in T : \A m \in T : n =< m
    <3>1. T \in SUBSET (0..Len(chain))
      OBVIOUS
    <3> HIDE DEF T
    <3> QED BY <1>1, <3>1, Smallest
  <2>2. n \in 0..Len(chain) /\ ~ \E g : Solves(g, n)
    OBVIOUS
  <2>3. n # 0
    <3>1. Solves([i \in 0..0 |-> <<>>], 0)
      OBVIOUS
    <3> QED BY <3>1, <2>2
  <2>4. PICK g : Solves(g, n - 1)
    <3>1. n - 1 \in 0..Len(chain) /\ ~ (n =< n - 1)
      BY <1>1, <2>2, <2>3
    <3> QED BY <3>1, <2>1
  <2> DEFINE h == [i \in 0..n |->
        IF i < n THEN g[i]
        ELSE IF Matches(chain[n], dst) THEN g[n - 1] ELSE Append(g[n - 1], chain[n])]
  <2>5. Solves(h, n)
    <3>1. h[n] = IF Matches(chain[n], dst) THEN h[n - 1] ELSE Append(h[n - 1], chain[n])
      BY <1>1, <2>2, <2>3
    <3>2. ASSUME NEW i \in 0..n, i # n
          PROVE  h[i] = IF i = 0 THEN <<>>
                        ELSE IF Matches(chain[i], dst) THEN h[i - 1] ELSE Append(h[i - 1], chain[i])
      <4>1. i \in 0..(n - 1) /\ i < n /\ (i # 0 => i - 1 < n /\ i - 1 \in 0..n)
        BY <1>1, <2>2, <3>2
      <4>2. h[i] = g[i] /\ (i # 0 => h[i - 1] = g[i - 1])
        BY <4>1
      <4>3. g[i] = IF i = 0 THEN <<>>
                   ELSE IF Matches(chain[i], dst) THEN g[i - 1] ELSE Append(g[i - 1], chain[i])
        BY <2>4, <4>1
      <4> HIDE DEF h
      <4> QED BY <4>1, <4>2, <4>3
    <3>3. h = [i \in 0..n |-> h[i]]
      OBVIOUS
    <3> HIDE DEF h
    <3> QED BY <2>3, <3>1, <3>2, <3>3
  <2> QED BY <2>2, <2>5
<1>3. Len(chain) \in 0..Len(chain)
  BY <1>1
<1> QED BY <1>2, <1>3

LEMMA LeftSteps ==
  ASSUME NEW chain \in Seq(Rule), NEW dst, NEW n \in 0..Len(chain)
  PROVE  Left(chain, dst)[n] =
           IF n = 0 THEN <<>>
           ELSE IF Matches(chain[n], dst) THEN Left(chain, dst)[n - 1]
                                          ELSE Append(Left(chain, dst)[n - 1], chain[n])
<1> DEFINE K == Left(chain, dst)
<1>1. K = [i \in 0..Len(chain) |->
             IF i = 0 THEN <<>>
             ELSE IF Matches(chain[i], dst) THEN K[i - 1] ELSE Append(K[i - 1], chain[i])]
  BY LeftSolved DEF Left
<1> HIDE DEF K
<1>2. K[n] = IF n = 0 THEN <<>>
             ELSE IF Matches(chain[n], dst) THEN K[n - 1] ELSE Append(K[n - 1], chain[n])
  BY <1>1
<1> QED BY <1>2 DEF K

(* A rule put behind others that it is not among.                          *)
LEMMA Appended ==
  ASSUME NEW s \in Seq(Rule), NEW r \in Rule
  PROVE  /\ Append(s, r) \in Seq(Rule)
         /\ ToSet(Append(s, r)) = ToSet(s) \cup {r}
         /\ IsInjective(s) /\ r \notin ToSet(s) => IsInjective(Append(s, r))
<1>1. Append(s, r) \in Seq(Rule) /\ Len(Append(s, r)) = Len(s) + 1 /\ Len(s) \in Nat
  OBVIOUS
<1>2. \A i \in 1..Len(s) : Append(s, r)[i] = s[i]
  OBVIOUS
<1>3. Append(s, r)[Len(s) + 1] = r
  OBVIOUS
<1>4. DOMAIN Append(s, r) = 1..Len(s) \cup {Len(s) + 1} /\ DOMAIN s = 1..Len(s)
  BY <1>1
<1>5. ToSet(Append(s, r)) = ToSet(s) \cup {r}
  BY <1>2, <1>3, <1>4 DEF ToSet
<1>6. ASSUME IsInjective(s), r \notin ToSet(s) PROVE IsInjective(Append(s, r))
  BY <1>2, <1>3, <1>4, <1>6 DEF ToSet, IsInjective
<1> QED BY <1>1, <1>5, <1>6

(* What the loop leaves of the first n rules.                              *)
KeptOf(chain, dst, n) == {chain[i] : i \in {j \in 1..n : ~Matches(chain[j], dst)}}

LEMMA LeftKeeps ==
  ASSUME NEW chain \in Seq(Rule), NEW dst, IsInjective(chain)
  PROVE  \A n \in 0..Len(chain) :
           /\ Left(chain, dst)[n] \in Seq(Rule)
           /\ ToSet(Left(chain, dst)[n]) = KeptOf(chain, dst, n)
           /\ IsInjective(Left(chain, dst)[n])
<1> DEFINE Good(n) == /\ Left(chain, dst)[n] \in Seq(Rule)
                      /\ ToSet(Left(chain, dst)[n]) = KeptOf(chain, dst, n)
                      /\ IsInjective(Left(chain, dst)[n])
<1> DEFINE T == {n \in 0..Len(chain) : ~Good(n)}
<1>1. Len(chain) \in Nat
  OBVIOUS
<1>2. T = {}
  <2> SUFFICES ASSUME T # {} PROVE FALSE
    OBVIOUS
  <2>1. PICK n \in T : \A m \in T : n =< m
    <3>1. T \in SUBSET (0..Len(chain))
      OBVIOUS
    <3> HIDE DEF T
    <3> QED BY <1>1, <3>1, Smallest
  <2>2. n \in 0..Len(chain) /\ ~Good(n)
    OBVIOUS
  <2>3. n # 0
    <3>1. Left(chain, dst)[0] = <<>>
      BY <1>1, LeftSteps
    <3>2. KeptOf(chain, dst, 0) = {}
      BY DEF KeptOf
    <3>3. <<>> \in Seq(Rule) /\ ToSet(<<>>) = {} /\ IsInjective(<<>>)
      BY DEF ToSet, IsInjective
    <3> QED BY <2>2, <3>1, <3>2, <3>3
  <2>4. n \in 1..Len(chain) /\ n \in Nat /\ Good(n - 1)
    <3>1. n - 1 \in 0..Len(chain) /\ ~ (n =< n - 1)
      BY <1>1, <2>2, <2>3
    <3>2. n - 1 \notin T
      BY <2>1, <3>1
    <3> QED BY <1>1, <2>2, <2>3, <3>1, <3>2
  <2> DEFINE s == Left(chain, dst)[n - 1]
  <2>5. chain[n] \in Rule
    BY <2>4
  <2>6. Left(chain, dst)[n] = IF Matches(chain[n], dst) THEN s ELSE Append(s, chain[n])
    BY <2>2, <2>3, LeftSteps
  <2>7. 1..n = 1..(n - 1) \cup {n}
    BY <2>4
  <2>8. CASE Matches(chain[n], dst)
    <3>1. KeptOf(chain, dst, n) = KeptOf(chain, dst, n - 1)
      BY <2>7, <2>8 DEF KeptOf
    <3> HIDE DEF s
    <3> QED BY <2>2, <2>4, <2>6, <2>8, <3>1 DEF s
  <2>9. CASE ~Matches(chain[n], dst)
    <3>1. KeptOf(chain, dst, n) = KeptOf(chain, dst, n - 1) \cup {chain[n]}
      BY <2>7, <2>9 DEF KeptOf
    <3>2. chain[n] \notin KeptOf(chain, dst, n - 1)
      <4>1. \A i \in 1..(n - 1) : i \in DOMAIN chain /\ n \in DOMAIN chain /\ i # n
        BY <1>1, <2>4
      <4> QED BY <4>1 DEF KeptOf, IsInjective
    <3>3. s \in Seq(Rule) /\ ToSet(s) = KeptOf(chain, dst, n - 1) /\ IsInjective(s)
      BY <2>4
    <3> HIDE DEF s
    <3>4. /\ Append(s, chain[n]) \in Seq(Rule)
          /\ ToSet(Append(s, chain[n])) = KeptOf(chain, dst, n)
          /\ IsInjective(Append(s, chain[n]))
      BY <2>5, <3>1, <3>2, <3>3, Appended
    <3> QED BY <2>2, <2>6, <2>9, <3>4
  <2> QED BY <2>8, <2>9
<1> QED BY <1>2

(* The loop removes the rules that match, and no others.                   *)
LEMMA WithoutKeeps ==
  ASSUME NEW chain \in Seq(Rule), NEW dst, IsInjective(chain)
  PROVE  /\ Without(chain, dst) \in Seq(Rule)
         /\ ToSet(Without(chain, dst)) = {r \in ToSet(chain) : ~Matches(r, dst)}
         /\ IsInjective(Without(chain, dst))
<1>1. Len(chain) \in 0..Len(chain) /\ DOMAIN chain = 1..Len(chain)
  OBVIOUS
<1>2. KeptOf(chain, dst, Len(chain)) = {r \in ToSet(chain) : ~Matches(r, dst)}
  BY <1>1 DEF KeptOf, ToSet
<1> QED BY <1>1, <1>2, LeftKeeps DEF Without

LEMMA InsertKeeps ==
  ASSUME NEW chain \in Seq(Rule), IsInjective(chain), port \in Ports
  PROVE  /\ Insert(chain) \in Seq(Rule)
         /\ ToSet(Insert(chain)) = ToSet(chain) \cup {ToAgent}
         /\ IsInjective(Insert(chain))
<1>1. ToAgent \in Rule
  BY DEF ToAgent, Rule
<1>2. CASE ToAgent \in ToSet(chain)
  BY <1>2 DEF Insert
<1>3. CASE ToAgent \notin ToSet(chain)
  <2> DEFINE s == <<ToAgent>> \o chain
  <2>1. s \in Seq(Rule) /\ Len(s) = Len(chain) + 1 /\ Len(chain) \in Nat
    BY <1>1
  <2>2. s[1] = ToAgent /\ \A i \in 1..Len(chain) : s[i + 1] = chain[i]
    OBVIOUS
  <2>3. DOMAIN s = 1..(Len(chain) + 1) /\ DOMAIN chain = 1..Len(chain)
    BY <2>1
  <2> HIDE DEF s
  <2>4. \A i \in DOMAIN s : i # 1 => i - 1 \in DOMAIN chain /\ s[i] = chain[i - 1]
    <3> SUFFICES ASSUME NEW i \in DOMAIN s, i # 1
                 PROVE  i - 1 \in DOMAIN chain /\ s[i] = chain[i - 1]
      OBVIOUS
    <3>1. i - 1 \in 1..Len(chain) /\ (i - 1) + 1 = i
      BY <2>1, <2>3
    <3> QED BY <2>2, <2>3, <3>1
  <2>5. \A i \in DOMAIN chain : i + 1 \in DOMAIN s
    BY <2>1, <2>3
  <2>6. 1 \in DOMAIN s
    BY <2>1, <2>3
  <2>7. ToSet(s) = ToSet(chain) \cup {ToAgent}
    BY <2>2, <2>3, <2>4, <2>5, <2>6 DEF ToSet
  <2>8. IsInjective(s)
    <3> SUFFICES ASSUME NEW a \in DOMAIN s, NEW b \in DOMAIN s, s[a] = s[b]
                 PROVE  a = b
      BY DEF IsInjective
    <3>0. \A i \in DOMAIN s : i # 1 => s[i] \in ToSet(chain)
      BY <2>4 DEF ToSet
    <3>1. a = 1 <=> b = 1
      BY <1>3, <2>2, <3>0
    <3>2. CASE a # 1 /\ b # 1
      <4>1. a - 1 = b - 1
        BY <2>4, <3>2 DEF IsInjective
      <4> QED BY <2>1, <2>3, <4>1
    <3> QED BY <3>1, <3>2
  <2> QED BY <1>3, <2>1, <2>7, <2>8 DEF Insert, s
<1> QED BY <1>2, <1>3

-----------------------------------------------------------------------------
(* Types.                                                                  *)

(* A chain of redirects without repetitions.                               *)
Chain == {chain \in Seq(Rule) : IsInjective(chain)}
RowState == {"DISCOVERED", "AUTHENTICATING", "SYNCING", "READY", "PROVISION_FAILED"}
ScriptStep == {"idle", "fetch", "copy", "install", "restart"}

ServiceOK ==
  /\ pc \in Running \cup Ended
  /\ port \in Ports \cup {None} /\ unit \in Ports \cup {None} /\ agent \in Ports \cup {None}
  /\ enabled \in BOOLEAN
  /\ others \subseteq Ports /\ agent \notin others
  /\ pc \in Running \ {"choose"} => port \in Ports
RulesOK ==
  /\ nat \in [Chains -> Chain] /\ disk \in [Chains -> Chain]
  /\ saver \in BOOLEAN /\ saved \in BOOLEAN
BoundsOK ==
  /\ node \in RowState
  /\ takes \in 0..MaxTakes /\ faults \in 0..MaxFaults
RefreshOK ==
  /\ published \in Version /\ failures \in 0..MaxFailures
  /\ tmp \in [File -> Version] /\ installed \in [File -> Version] /\ loaded \in [File -> Version]
  /\ changed \in BOOLEAN /\ timer \in BOOLEAN /\ next \in File
  /\ at \in ScriptStep

Typed == ServiceOK /\ RulesOK /\ BoundsOK /\ RefreshOK

LEMMA TypedSuffices == Typed => TypeOK
<1> SUFFICES ASSUME Typed PROVE TypeOK
  OBVIOUS
<1>1. InstallTypeOK
  <2>1. \A table \in {nat, disk} : \A c \in Chains :
          ToSet(table[c]) \subseteq Rule /\ IsInjective(table[c])
    BY DEF Typed, RulesOK, Chain, ToSet
  <2> QED BY <2>1 DEF Typed, ServiceOK, RulesOK, BoundsOK, RowState, InstallTypeOK
<1>2. RefreshTypeOK
  BY DEF Typed, RefreshOK, ScriptStep, RefreshTypeOK
<1> QED BY <1>1, <1>2 DEF TypeOK

LEMMA InitType == Init => Typed
<1> SUFFICES ASSUME Init PROVE Typed
  OBVIOUS
<1>1. ServiceOK
  BY DEF Init, InstallInit, ServiceOK, Running, Ended
<1>2. RulesOK
  <2>1. <<>> \in Chain
    BY DEF Chain, IsInjective
  <2> QED BY <2>1 DEF Init, InstallInit, RulesOK
<1>3. BoundsOK
  BY BoundAssumption DEF Init, InstallInit, BoundsOK, RowState
<1>4. RefreshOK
  <2>1. 0 \in Version /\ 1 \in File /\ 0 \in 0..MaxFailures
    BY FilesAssumption, VersionAssumption DEF Version, File
  <2>2. Nothing \in [File -> Version]
    BY <2>1 DEF Nothing
  <2> QED BY <2>1, <2>2 DEF Init, RefreshInit, RefreshOK, ScriptStep
<1> QED BY <1>1, <1>2, <1>3, <1>4 DEF Typed

LEMMA Bound ==
  ASSUME ServiceOK
  PROVE  Bind \in Ports \cup {None} /\ Bind \notin others
BY PortAssumption DEF ServiceOK, Bind

(* A fault is counted below its bound.                                     *)
LEMMA Counted ==
  ASSUME BoundsOK
  PROVE  Fault => faults' \in 0..MaxFaults
BY BoundAssumption DEF BoundsOK, Fault

LEMMA FirstFreeType == FirstFree \subseteq Ports
BY DEF FirstFree, Ports, ToSet

LEMMA StaleRemoved ==
  ASSUME NEW table \in [Chains -> Chain]
  PROVE  /\ RemoveStale(table) \in [Chains -> Chain]
         /\ \A c \in Chains : ToSet(RemoveStale(table)[c]) \subseteq ToSet(table[c])
         /\ \A r \in ToSet(RemoveStale(table).OUTPUT) : r \in ToSet(table.OUTPUT) /\ ~Matches(r, "host")
<1> DEFINE p == Without(table.PREROUTING, "any")
           o == Without(table.OUTPUT, "host")
<1>1. table["PREROUTING"] \in Chain /\ table["OUTPUT"] \in Chain
  BY DEF Chains
<1>2. p \in Chain /\ ToSet(p) \subseteq ToSet(table["PREROUTING"])
  BY <1>1, WithoutKeeps DEF Chain
<1>3. o \in Chain /\ \A r \in ToSet(o) : r \in ToSet(table["OUTPUT"]) /\ ~Matches(r, "host")
  BY <1>1, WithoutKeeps DEF Chain
<1> HIDE DEF p, o
<1>4. RemoveStale(table) = [PREROUTING |-> p, OUTPUT |-> o]
  BY DEF RemoveStale, p, o
<1>5. RemoveStale(table) = [c \in Chains |-> IF c = "PREROUTING" THEN p ELSE o]
  BY <1>4 DEF Chains
<1> QED BY <1>2, <1>3, <1>5 DEF Chains

LEMMA RedirectInserted ==
  ASSUME NEW table \in [Chains -> Chain], port \in Ports
  PROVE  /\ InsertRedirect(table) \in [Chains -> Chain]
         /\ port = Https => InsertRedirect(table) = table
         /\ port # Https => \A c \in Chains :
              ToSet(InsertRedirect(table)[c]) = ToSet(table[c]) \cup {ToAgent}
<1>1. \A c \in Chains : /\ Insert(table[c]) \in Chain
                        /\ ToSet(Insert(table[c])) = ToSet(table[c]) \cup {ToAgent}
  BY InsertKeeps DEF Chain
<1> QED BY <1>1 DEF InsertRedirect

(* The steps of a run, its faults, and the environment.                    *)
LEMMA RunType ==
  ASSUME Typed,
         \/ Start \/ ChoosePort \/ Download \/ Exchange \/ WriteUnit \/ Restart
         \/ LocalCheck \/ Save \/ PublicCheck \/ Register \/ Final \/ Fail
  PROVE  ServiceOK' /\ RulesOK' /\ BoundsOK'
<1> USE DEF Typed, ServiceOK, RulesOK, BoundsOK, service, rules, bounds, Goto, Running, Ended, RowState
<1>1. CASE Start
  BY <1>1 DEF Start
<1>2. CASE ChoosePort
  BY <1>2, FirstFreeType DEF ChoosePort
<1>3. CASE Download
  BY <1>3 DEF Download
<1>4. CASE Exchange
  BY <1>4, Counted DEF Exchange
<1>5. CASE WriteUnit
  BY <1>5 DEF WriteUnit
<1>6. CASE Restart
  BY <1>6, Bound DEF Restart
<1>7. CASE LocalCheck
  BY <1>7 DEF LocalCheck
<1>8. CASE Save
  BY <1>8, Counted DEF Save
<1>9. CASE PublicCheck
  BY <1>9 DEF PublicCheck
<1>10. CASE Register
  BY <1>10 DEF Register
<1>11. CASE Final
  BY <1>11 DEF Final
<1>12. CASE Fail
  BY <1>12, Counted DEF Fail
<1> QED BY <1>1, <1>2, <1>3, <1>4, <1>5, <1>6, <1>7, <1>8, <1>9, <1>10, <1>11, <1>12

LEMMA RedirectType ==
  ASSUME Typed, Redirect
  PROVE  ServiceOK' /\ RulesOK' /\ BoundsOK'
<1>1. port \in Ports
  BY DEF Redirect, Typed, ServiceOK, Running
<1>2. nat' \in [Chains -> Chain]
  BY <1>1, StaleRemoved, RedirectInserted DEF Redirect, Typed, RulesOK
<1>3. ServiceOK' /\ BoundsOK'
  BY DEF Redirect, Typed, ServiceOK, BoundsOK, service, bounds, Goto, Running, Ended
<1> QED BY <1>2, <1>3 DEF Redirect, Typed, RulesOK

LEMMA RebootType ==
  ASSUME Typed, Reboot
  PROVE  ServiceOK' /\ RulesOK' /\ BoundsOK'
<1>1. agent' \in Ports \cup {None} /\ agent' \notin others
  BY Bound, PortAssumption DEF Reboot, Typed, ServiceOK
<1>2. ServiceOK'
  BY <1>1 DEF Reboot, Typed, ServiceOK, Running, Ended
<1>3. BoundsOK' /\ RulesOK'
  BY Counted DEF Reboot, Typed, BoundsOK, RulesOK
<1> QED BY <1>2, <1>3

LEMMA TakeType ==
  ASSUME Typed, Take
  PROVE  ServiceOK' /\ RulesOK' /\ BoundsOK'
<1>1. ServiceOK'
  BY DEF Take, Listening, Typed, ServiceOK, service
<1>2. BoundsOK' /\ RulesOK'
  BY BoundAssumption DEF Take, Typed, BoundsOK, RulesOK, rules
<1> QED BY <1>1, <1>2

LEMMA RelistenType ==
  ASSUME Typed, Relisten
  PROVE  ServiceOK' /\ RulesOK' /\ BoundsOK'
<1>1. ServiceOK'
  BY Bound DEF Relisten, Typed, ServiceOK
<1> QED BY <1>1 DEF Relisten, Typed, BoundsOK, RulesOK, rules, bounds

LEMMA InstallUnchanged ==
  ASSUME Typed, UNCHANGED installVars
  PROVE  ServiceOK' /\ RulesOK' /\ BoundsOK'
BY DEF installVars, service, rules, bounds, Typed, ServiceOK, RulesOK, BoundsOK

(* The files and the updater.                                              *)
LEMMA RefreshUnchanged ==
  ASSUME Typed, UNCHANGED refreshVars
  PROVE  RefreshOK'
BY DEF refreshVars, Typed, RefreshOK

LEMMA OverwriteType ==
  ASSUME Typed, NEW n \in File, Overwrite(n)
  PROVE  RefreshOK'
BY DEF Overwrite, Typed, RefreshOK

(* The script ends at its first file, with nothing downloaded.             *)
LEMMA Ends ==
  ASSUME End
  PROVE  tmp' \in [File -> Version] /\ changed' \in BOOLEAN /\ next' \in File /\ at' \in ScriptStep
<1>1. 0 \in Version /\ 1 \in File
  BY FilesAssumption, VersionAssumption DEF Version, File
<1> QED BY <1>1 DEF End, Nothing, ScriptStep

LEMMA NextFile ==
  ASSUME RefreshOK
  PROVE  1 \in File /\ (FilesLeft => next + 1 \in File)
BY FilesAssumption DEF RefreshOK, File, FilesLeft

LEMMA FailureCounted ==
  ASSUME RefreshOK
  PROVE  Failure => failures' \in 0..MaxFailures
BY VersionAssumption DEF RefreshOK, Failure

LEMMA ScriptType ==
  ASSUME Typed, Publish \/ Timer \/ Fetch \/ Copy \/ Install \/ FetchFails \/ RestartAgent \/ AgentCrash \/ LoadAtBoot
  PROVE  RefreshOK'
<1>1. RefreshOK
  BY DEF Typed
<1>2. CASE Publish
  BY <1>1, <1>2, VersionAssumption DEF Publish, RefreshOK, Version
<1>3. CASE Timer
  BY <1>1, <1>3 DEF Timer, RefreshOK, ScriptStep
<1>4. CASE Fetch
  <2>1. CASE FilesLeft \/ AnyDiffers
    BY <1>1, <1>4, <2>1, NextFile DEF Fetch, AnyDiffers, Differs, RefreshOK, ScriptStep
  <2>2. CASE ~(FilesLeft \/ AnyDiffers)
    BY <1>1, <1>4, <2>2, Ends DEF Fetch, RefreshOK
  <2> QED BY <2>1, <2>2
<1>5. CASE Copy
  BY <1>1, <1>5, NextFile DEF Copy, RefreshOK, ScriptStep
<1>6. CASE Install
  BY <1>1, <1>6, Ends, FailureCounted DEF Install, RefreshOK, ScriptStep
<1>7. CASE FetchFails
  BY <1>1, <1>7, Ends, FailureCounted DEF FetchFails, RefreshOK
<1>8. CASE RestartAgent
  BY <1>1, <1>8, Ends DEF RestartAgent, RefreshOK
<1>9. CASE AgentCrash
  BY <1>1, <1>9, FailureCounted DEF AgentCrash, RefreshOK
<1>10. CASE LoadAtBoot
  BY <1>1, <1>10, Ends DEF LoadAtBoot, RefreshOK
<1> QED BY <1>2, <1>3, <1>4, <1>5, <1>6, <1>7, <1>8, <1>9, <1>10

LEMMA NextType == Typed /\ [Next]_vars => Typed'
<1> SUFFICES ASSUME Typed, [Next]_vars PROVE Typed'
  OBVIOUS
<1>1. CASE InstallerOnly /\ UNCHANGED refreshVars
  BY <1>1, RunType, RedirectType, TakeType, RefreshUnchanged DEF InstallerOnly, Typed
<1>2. CASE DownloadFiles
  <2>1. Files \in File
    BY FilesAssumption DEF File
  <2> QED BY <1>2, <2>1, RunType, OverwriteType DEF DownloadFiles, Typed
<1>3. CASE DownloadFails
  BY <1>3, RunType, OverwriteType DEF DownloadFails, Typed
<1>4. CASE LoadFiles
  <2>1. RefreshOK'
    BY <1>4 DEF LoadFiles, Typed, RefreshOK
  <2> QED BY <1>4, <2>1, RunType DEF LoadFiles, Typed
<1>5. CASE SetTimer
  <2>1. RefreshOK'
    BY <1>5 DEF SetTimer, Typed, RefreshOK
  <2> QED BY <1>5, <2>1, RunType DEF SetTimer, Typed
<1>6. CASE (Publish \/ Timer \/ Fetch \/ Copy \/ Install \/ FetchFails) /\ UNCHANGED installVars
  BY <1>6, ScriptType, InstallUnchanged DEF Typed
<1>7. CASE (RestartAgent \/ AgentCrash) /\ Relisten
  BY <1>7, ScriptType, RelistenType DEF Typed
<1>8. CASE Reboot /\ LoadAtBoot
  BY <1>8, ScriptType, RebootType DEF Typed
<1>9. CASE UNCHANGED vars
  BY <1>9, InstallUnchanged, RefreshUnchanged DEF vars, Typed
<1> QED BY <1>1, <1>2, <1>3, <1>4, <1>5, <1>6, <1>7, <1>8, <1>9 DEF Next

(* The variables of both scripts have their types, and no chain holds a    *)
(* redirect twice, after any number of runs, failures and reboots (TypeOK).*)
THEOREM TypeCorrect == Spec => []TypeOK
BY InitType, NextType, TypedSuffices, PTL DEF Spec

-----------------------------------------------------------------------------
(* The server's own connections.                                           *)

(* Every redirect in force or on disk was inserted by a run, with the      *)
(* destination, so that the loop over OUTPUT finds all of them.            *)
HostRules ==
  \A table \in {nat, disk} : \A c \in Chains : \A r \in ToSet(table[c]) :
    r.dst = "host" /\ r.to # Https

LocalInv == HostRules /\ LocalRedirectIsCurrent

Following == {"save", "public", "register", "final"}

(* The steps that leave every rule where it is, and do not bring the run   *)
(* past its redirects.                                                     *)
LEMMA LocalKept ==
  ASSUME LocalInv, nat' = nat, disk' = disk,
         pc' \in Following => pc \in Following /\ port' = port
  PROVE  LocalInv'
BY DEF LocalInv, HostRules, LocalRedirectIsCurrent, Following

LEMMA LocalRedirected ==
  ASSUME Typed, LocalInv, Redirect
  PROVE  LocalInv'
<1> DEFINE stripped == RemoveStale(nat)
<1>1. port \in Ports /\ nat \in [Chains -> Chain]
  BY DEF Redirect, Typed, ServiceOK, RulesOK, Running
<1>2. /\ stripped \in [Chains -> Chain]
      /\ \A c \in Chains : ToSet(stripped[c]) \subseteq ToSet(nat[c])
      /\ \A r \in ToSet(stripped.OUTPUT) : r \in ToSet(nat.OUTPUT) /\ ~Matches(r, "host")
  BY <1>1, StaleRemoved
<1>3. ToSet(stripped.OUTPUT) = {}
  <2> SUFFICES ASSUME NEW r \in ToSet(stripped.OUTPUT) PROVE FALSE
    OBVIOUS
  <2>1. r \in ToSet(nat["OUTPUT"]) /\ ~Matches(r, "host")
    BY <1>2
  <2>2. r.dst = "host" /\ r.to # Https
    BY <2>1 DEF LocalInv, HostRules, Chains
  <2>3. r \in Rule
    BY <1>1, <2>1 DEF Chain, Chains, ToSet
  <2> QED BY <2>1, <2>2, <2>3 DEF Matches, Rule
<1>4. nat' = InsertRedirect(stripped) /\ disk' = disk /\ port' = port
  BY DEF Redirect
<1> HIDE DEF stripped
<1>5. CASE port = Https
  <2>1. nat' = stripped
    BY <1>1, <1>2, <1>4, <1>5, RedirectInserted
  <2>2. HostRules'
    BY <1>2, <1>4, <2>1 DEF LocalInv, HostRules
  <2> QED BY <1>3, <1>4, <1>5, <2>1, <2>2 DEF LocalInv, LocalRedirectIsCurrent
<1>6. CASE port # Https
  <2>1. \A c \in Chains : ToSet(nat'[c]) = ToSet(stripped[c]) \cup {ToAgent}
    BY <1>1, <1>2, <1>4, <1>6, RedirectInserted
  <2>2. HostRules'
    BY <1>2, <1>4, <1>6, <2>1 DEF LocalInv, HostRules, ToAgent
  <2>3. ToSet(nat'["OUTPUT"]) = {ToAgent}
    BY <1>3, <2>1 DEF Chains
  <2>4. ToAgent.to = port
    BY DEF ToAgent
  <2>5. {r.to : r \in ToSet(nat'.OUTPUT)} = {port'} \ {Https}
    BY <1>4, <1>6, <2>3, <2>4
  <2> QED BY <2>2, <2>5 DEF LocalInv, LocalRedirectIsCurrent
<1> QED BY <1>5, <1>6

LEMMA LocalSaved ==
  ASSUME LocalInv, Save
  PROVE  LocalInv'
BY DEF LocalInv, HostRules, LocalRedirectIsCurrent, Save, Goto

LEMMA LocalReboot ==
  ASSUME LocalInv, Reboot
  PROVE  LocalInv'
BY DEF LocalInv, HostRules, LocalRedirectIsCurrent, Reboot, Running

LEMMA LocalNext == Typed /\ LocalInv /\ [Next]_vars => LocalInv'
<1> SUFFICES ASSUME Typed, LocalInv, [Next]_vars PROVE LocalInv'
  OBVIOUS
<1> USE DEF Goto, rules, Following
<1>1. CASE Start \/ ChoosePort \/ Download \/ Exchange \/ WriteUnit \/ Restart \/ LocalCheck
  BY <1>1, LocalKept DEF Start, ChoosePort, Download, Exchange, WriteUnit, Restart, LocalCheck
<1>2. CASE PublicCheck \/ Register \/ Final \/ Fail
  BY <1>2, LocalKept DEF PublicCheck, Register, Final, Fail
<1>3. CASE Take \/ Relisten \/ UNCHANGED installVars
  BY <1>3, LocalKept DEF Take, Relisten, installVars
<1>4. CASE Redirect \/ Save \/ Reboot
  BY <1>4, LocalRedirected, LocalSaved, LocalReboot
<1> QED BY <1>1, <1>2, <1>3, <1>4 DEF Next, InstallerOnly, DownloadFiles, DownloadFails, LoadFiles, SetTimer, vars

(* After its redirects a run leaves the server's own connections to 443    *)
(* one rule, for the agent's present port, however many runs came before:  *)
(* the loop over OUTPUT finds every rule that one of them inserted         *)
(* (LocalRedirectIsCurrent).                                               *)
THEOREM LocalRedirectFollows == Spec => []LocalRedirectIsCurrent
<1>1. Init => LocalInv
  BY DEF Init, InstallInit, LocalInv, HostRules, LocalRedirectIsCurrent, ToSet
<1>2. LocalInv => LocalRedirectIsCurrent
  BY DEF LocalInv
<1> QED BY <1>1, <1>2, InitType, NextType, LocalNext, PTL DEF Spec

-----------------------------------------------------------------------------
(* A reboot after a finished run.                                          *)

Set == {"local", "redirect", "save", "public", "register", "final", "done"}

(* The unit names the run's port once it is written; once the service is   *)
(* restarted it starts at boot, and listens there or not at all; what a    *)
(* run saved is what is in force, and from its last check on it leads to   *)
(* the unit's port.                                                        *)
Path ==
  /\ pc \in Set \cup {"restart"} => unit = port
  /\ pc \in Set => enabled /\ agent \in {None, unit}
  /\ pc \in Running \ {"public", "register", "final"} => ~saved
  /\ pc \in {"public", "register", "final", "done"} /\ saved => disk = nat
  /\ pc \in {"final", "done"} /\ saved => unit = Landing(disk.PREROUTING)

LEMMA PathNext == Typed /\ Path /\ [Next]_vars => Path'
<1> SUFFICES ASSUME Typed, Path, [Next]_vars PROVE Path'
  OBVIOUS
<1> USE DEF Goto, rules, service, Set, Running, Ended, Path
<1>1. CASE Start
  BY <1>1 DEF Start
<1>2. CASE ChoosePort \/ Download \/ Exchange \/ WriteUnit
  BY <1>2 DEF ChoosePort, Download, Exchange, WriteUnit
<1>3. CASE Restart
  BY <1>3 DEF Restart, Bind
<1>4. CASE LocalCheck \/ Redirect
  BY <1>4 DEF LocalCheck, Redirect
<1>5. CASE Save
  BY <1>5 DEF Save
<1>6. CASE PublicCheck
  BY <1>6 DEF PublicCheck
<1>7. CASE Register
  <2>1. CASE Reached(nat.PREROUTING)
    BY <1>7, <2>1 DEF Register, Reached
  <2> QED BY <1>7, <2>1 DEF Register
<1>8. CASE Final \/ Fail \/ Take
  BY <1>8 DEF Final, Fail, Take
<1>9. CASE Reboot
  BY <1>9 DEF Reboot, Bind
<1>10. CASE Relisten
  BY <1>10 DEF Relisten, Bind
<1>11. CASE UNCHANGED installVars
  BY <1>11 DEF installVars
<1> QED BY <1>1, <1>2, <1>3, <1>4, <1>5, <1>6, <1>7, <1>8, <1>9, <1>10, <1>11
        DEF Next, InstallerOnly, DownloadFiles, DownloadFails, LoadFiles, SetTimer, vars

(* A run that ended well and saved its rules survives any number of        *)
(* reboots, restarts of the agent and updates: boot starts the agent on    *)
(* the port to which the restored rules send 443 (RebootKeepsPath).        *)
THEOREM FinishedRunSurvives == Spec => []RebootKeepsPath
<1>1. Init => Path
  BY DEF Init, InstallInit, Path, Set, Running
<1>2. Path => RebootKeepsPath
  BY DEF Path, Set, RebootKeepsPath
<1> QED BY <1>1, <1>2, InitType, NextType, PathNext, PTL DEF Spec
=============================================================================
