------------------------ MODULE RepresentativesProofs ------------------------
(***************************************************************************)
(* The safety properties of Representatives, for every number of           *)
(* representatives, inbounds, clients, addresses and requests.             *)
(***************************************************************************)
EXTENDS Representatives, FiniteSetTheorems, WellFoundedInduction, TLAPS

CreateType ==
  [op : {"create"}, by : Reps \cup {None}, inbound : Inbounds, address : Address]
UpdateType ==
  [op : {"update"}, pc : {"scan", "delete", "commit"}, rep : Reps, fields : Fields,
   scope : SUBSET Inbounds, old : SUBSET Inbounds, missed : SUBSET Inbounds,
   seen : LimitsType, goal : Goal, stale : SUBSET {"set", "lifted"}]
RequestType == {Idle} \cup CreateType \cup UpdateType
Verdict == {"NORMAL", "LIMIT_REACHED", "EXPIRED"}

-----------------------------------------------------------------------------
(* The operators.                                                          *)

(* A finite set of numbers has a least one: the one with the fewest below   *)
(* it.                                                                     *)
LEMMA MinOfSet ==
  ASSUME NEW S \in SUBSET Nat, S # {}, IsFiniteSet(S)
  PROVE  Min(S) \in S
<1> DEFINE Below(x) == {y \in S : y < x}
           T == {Below(x) : x \in S}
<1>1. T \subseteq SUBSET S /\ T # {}
  OBVIOUS
<1>2. IsWellFoundedOn(StrictSubsetOrdering(S), SUBSET S)
  BY FS_StrictSubsetOrderingWellFounded, FS_FiniteSubsetsOfFinite
<1>3. \E B \in T : \A C \in T : ~ (<<C, B>> \in StrictSubsetOrdering(S))
  <2> HIDE DEF T
  <2> QED BY <1>1, <1>2, WFMin
<1>4. PICK x \in S : \A y \in S : ~ (<<Below(y), Below(x)>> \in StrictSubsetOrdering(S))
  BY <1>3
<1>5. ASSUME NEW y \in S, y < x
      PROVE  FALSE
  <2>1. Below(y) \subseteq Below(x) /\ y \in Below(x) /\ y \notin Below(y)
    <3>1. S \subseteq Nat
      OBVIOUS
    <3>2. \A z \in S : z < y => z < x
      BY <1>5, <3>1
    <3>3. ~ (y < y)
      BY <3>1
    <3> QED BY <1>5, <3>2, <3>3
  <2>2. <<Below(y), Below(x)>> \in StrictSubsetOrdering(S)
    BY <2>1 DEF StrictSubsetOrdering
  <2> QED BY <1>4, <2>2
<1>6. \A y \in S : x =< y
  BY <1>5
<1> QED BY <1>6 DEF Min

LEMMA AssignedAddress ==
  ASSUME NEW i \in Inbounds, NEW a \in Address, Valid(a), Taken(i, a) => FreeHosts(i) # {}
  PROVE  Assigned(i, a) \in Address /\ Assigned(i, a).host # Server
<1>1. CASE ~Taken(i, a)
  BY <1>1 DEF Assigned, Valid
<1>2. CASE Taken(i, a)
  <2>1. Min(FreeHosts(i)) \in FreeHosts(i)
    <3>1. IsFiniteSet(FreeHosts(i)) /\ FreeHosts(i) \in SUBSET Nat
      BY HostAssumption, FS_Subset DEF FreeHosts
    <3> QED BY <1>2, <3>1, MinOfSet
  <2>2. Min(FreeHosts(i)) \in Hosts /\ Min(FreeHosts(i)) # Server
    BY <2>1 DEF FreeHosts, Used
  <2> QED BY <1>2, <2>2 DEF Assigned, Address
<1> QED BY <1>1, <1>2

(* A request over the wire has the type its operation says.                *)
LEMMA ByOperation ==
  ASSUME NEW r \in RequestType
  PROVE  /\ r.op = "create" => r \in CreateType
         /\ r.op = "update" => r \in UpdateType
         /\ r = Idle <=> r.op = "none"
BY DEF RequestType, CreateType, UpdateType, Idle

LEMMA WrittenLimits ==
  ASSUME NEW row \in Row, NEW seen \in LimitsType, NEW goal \in Goal, NEW q \in WriteLimits(row, seen, goal)
  PROVE  q \in Row /\ q.state = row.state
<1>1. PICK l \in Written(row.limit, seen.limit, Bytes(goal.quota)), d \in Written(row.days, seen.days, goal.days) :
        q = [state |-> row.state, enabled |-> row.enabled,
             limit |-> l, days |-> d, started |-> Start(row, seen, goal)]
  BY DEF WriteLimits
<1>2. l \in BOOLEAN /\ d \in BOOLEAN
  BY DEF Written, Row, LimitsType, Goal, Bytes
<1>3. Start(row, seen, goal) \in BOOLEAN
  BY DEF Start, Row, LimitsType, Goal, Unlimited, AskedNone
<1> QED BY <1>1, <1>2, <1>3 DEF Row

(* Limits that are set have a start, unless the one that was read is gone. *)
LEMMA WrittenStart ==
  ASSUME NEW row \in Row, NEW seen \in LimitsType, NEW goal \in Goal, ~ AskedNone(goal),
         seen.started => row.started, NEW q \in WriteLimits(row, seen, goal)
  PROVE  q.started
<1>1. q.started = Start(row, seen, goal)
  BY DEF WriteLimits
<1>2. Start(row, seen, goal)
  BY DEF Start, Row, LimitsType
<1> QED BY <1>1, <1>2

(* What an update under way becomes when another is committed.             *)
LEMMA PassedUpdate ==
  ASSUME NEW u \in UpdateType, NEW v \in UpdateType
  PROVE  LET w == Passed(u, v) IN
         /\ w \in UpdateType
         /\ w.pc = u.pc /\ w.rep = u.rep /\ w.fields = u.fields /\ w.seen = u.seen
         /\ w.old = u.old \ v.old
         /\ u.missed \subseteq w.missed
         /\ "scope" \in u.fields \cap v.fields /\ u.pc # "scan" => v.scope \subseteq w.missed
         /\ u.stale \subseteq w.stale
         /\ "limits" \notin v.fields => w.stale = u.stale
         /\ "limits" \in u.fields \cap v.fields => Did(v.goal) \in w.stale
<1> DEFINE m == u.missed \cup (IF "scope" \in u.fields \cap v.fields /\ u.pc # "scan" THEN v.scope ELSE {})
           t == u.stale \cup (IF "limits" \in u.fields \cap v.fields THEN {Did(v.goal)} ELSE {})
           w == [u EXCEPT !.old = u.old \ v.old, !.missed = m, !.stale = t]
<1>1. m \in SUBSET Inbounds
  BY DEF UpdateType
<1>2. t \in SUBSET {"set", "lifted"}
  BY DEF UpdateType, Did
<1>3. Passed(u, v) = w
  BY DEF Passed, UpdateType
<1> HIDE DEF m, t
<1>4. /\ w \in UpdateType /\ w.pc = u.pc /\ w.rep = u.rep /\ w.fields = u.fields /\ w.seen = u.seen
      /\ w.old = u.old \ v.old /\ w.missed = m /\ w.stale = t
  BY <1>1, <1>2 DEF UpdateType
<1> HIDE DEF w
<1> QED BY <1>3, <1>4 DEF m, t

-----------------------------------------------------------------------------
(* Types.                                                                  *)

Typed ==
  /\ admin \in [Reps -> Row] /\ quota \in [Reps -> Verdict]
  /\ scope \in [Reps -> SUBSET Inbounds]
  /\ clients \in [Ids -> Client \cup {None}]
  /\ lock \in [Reps -> [Inbounds -> Handlers \cup {None}]]
  /\ req \in [Handlers -> RequestType]
  /\ asked \in [Reps -> SUBSET Inbounds]
  /\ beside \in [Reps -> SUBSET Inbounds]
  /\ lifted \in [Reps -> BOOLEAN]
  /\ arrived \in 0..MaxRequests

LEMMA UnlockedType ==
  ASSUME Typed, NEW h \in Handlers
  PROVE  Unlocked(h) \in [Reps -> [Inbounds -> Handlers \cup {None}]]
BY DEF Typed, Unlocked

(* A request that is accepted.                                             *)
LEMMA Accepting ==
  ASSUME Typed, NEW h \in Handlers, NEW r \in RequestType, Accept(h, r)
  PROVE  /\ req[h] = Idle /\ req' = [req EXCEPT ![h] = r]
         /\ req' \in [Handlers -> RequestType] /\ arrived' \in 0..MaxRequests
BY BoundAssumption DEF Typed, Accept, Ready

LEMMA Creating ==
  ASSUME Typed, NEW h \in Handlers, NEW by \in Reps \cup {None}, NEW i \in Inbounds,
         NEW a \in Address, Create(h, by, i, a)
  PROVE  \E r \in CreateType : r.address.host # Server /\ Accept(h, r)
<1> DEFINE r == [op |-> "create", by |-> by, inbound |-> i, address |-> Assigned(i, a)]
<1>1. Assigned(i, a) \in Address /\ Assigned(i, a).host # Server
  BY AssignedAddress DEF Create
<1>2. r \in CreateType /\ r.address.host # Server
  BY <1>1 DEF CreateType
<1>3. Accept(h, r)
  BY DEF Create
<1> QED BY <1>2, <1>3

LEMMA Updating ==
  ASSUME Typed, NEW h \in Handlers, NEW r \in Reps, NEW f \in Fields, Update(h, r, f)
  PROVE  \E u \in UpdateType :
           /\ u.rep = r /\ u.seen = Limits(admin[r]) /\ u.old = {} /\ u.stale = {} /\ u.fields = f
           /\ u.pc = IF "scope" \in f THEN "scan" ELSE "commit"
           /\ Accept(h, u)
<1>1. PICK s \in (SUBSET Inbounds) \ {{}}, goal \in Goal :
        Accept(h, [op |-> "update", pc |-> IF "scope" \in f THEN "scan" ELSE "commit",
                   rep |-> r, fields |-> f, scope |-> s, old |-> {}, seen |-> Limits(admin[r]),
                   goal |-> goal, missed |-> {}, stale |-> {}])
  BY DEF Update
<1> DEFINE u == [op |-> "update", pc |-> IF "scope" \in f THEN "scan" ELSE "commit",
                 rep |-> r, fields |-> f, scope |-> s, old |-> {}, seen |-> Limits(admin[r]),
                 goal |-> goal, missed |-> {}, stale |-> {}]
<1>2. u \in UpdateType
  BY DEF Typed, UpdateType, Limits, LimitsType, Row
<1>3. Accept(h, u)
  BY <1>1
<1> QED BY <1>2, <1>3

(* A request that has done a step of its own.                              *)
LEMMA Stepping ==
  ASSUME Typed, NEW h \in Handlers,
         \/ Scan(h) \/ DeleteScope(h)
  PROVE  /\ req[h] \in UpdateType /\ req' \in [Handlers -> RequestType]
         /\ req'[h] \in UpdateType
         /\ req'[h].rep = req[h].rep /\ req'[h].fields = req[h].fields
         /\ req'[h].seen = req[h].seen /\ req'[h].stale = req[h].stale /\ req'[h].missed = req[h].missed
         /\ \A g \in Handlers : g # h => req'[g] = req[g]
         /\ Scan(h) => req'[h].pc = "delete" /\ req'[h].old = scope[req[h].rep]
         /\ DeleteScope(h) => req'[h].pc = "commit" /\ req'[h].old = req[h].old
<1>1. req[h] \in RequestType /\ req[h].op = "update"
  BY DEF Typed, Scan, DeleteScope
<1>2. req[h] \in UpdateType
  BY <1>1, ByOperation
<1> DEFINE u == req[h]
<1>3. CASE Scan(h)
  <2> DEFINE v == [u EXCEPT !.pc = "delete", !.old = scope[u.rep]]
  <2>1. req' = [req EXCEPT ![h] = v] /\ u.pc = "scan"
    BY <1>3 DEF Scan
  <2>2. scope[u.rep] \in SUBSET Inbounds
    BY <1>2 DEF Typed, UpdateType
  <2>3. v \in UpdateType /\ v.rep = u.rep /\ v.fields = u.fields /\ v.seen = u.seen
        /\ v.stale = u.stale /\ v.missed = u.missed
        /\ v.pc = "delete" /\ v.old = scope[u.rep]
    BY <1>2, <2>2 DEF UpdateType
  <2>4. ~ DeleteScope(h)
    BY <2>1 DEF DeleteScope
  <2> HIDE DEF v
  <2>5. req'[h] = v /\ \A g \in Handlers : g # h => req'[g] = req[g]
    BY <2>1 DEF Typed
  <2>6. req' \in [Handlers -> RequestType]
    BY <2>1, <2>3 DEF Typed, RequestType
  <2> QED BY <1>2, <2>3, <2>4, <2>5, <2>6
<1>4. CASE DeleteScope(h)
  <2> DEFINE v == [u EXCEPT !.pc = "commit"]
  <2>1. req' = [req EXCEPT ![h] = v] /\ u.pc = "delete"
    BY <1>4 DEF DeleteScope
  <2>3. v \in UpdateType /\ v.rep = u.rep /\ v.fields = u.fields /\ v.seen = u.seen
        /\ v.stale = u.stale /\ v.missed = u.missed
        /\ v.pc = "commit" /\ v.old = u.old
    BY <1>2 DEF UpdateType
  <2>4. ~ Scan(h)
    BY <2>1 DEF Scan
  <2> HIDE DEF v
  <2>5. req'[h] = v /\ \A g \in Handlers : g # h => req'[g] = req[g]
    BY <2>1 DEF Typed
  <2>6. req' \in [Handlers -> RequestType]
    BY <2>1, <2>3 DEF Typed, RequestType
  <2> QED BY <1>2, <2>3, <2>4, <2>5, <2>6
<1> QED BY <1>3, <1>4

(* What the commit of an update does to the others.                        *)
LEMMA Overtaking ==
  ASSUME Typed, NEW h \in Handlers, req[h] \in UpdateType, req' = Overtaken(h)
  PROVE  /\ req' \in [Handlers -> RequestType] /\ req'[h] = Idle
         /\ \A g \in Handlers :
              \/ g # h /\ g \notin Updates(req[h].rep) /\ req'[g] = req[g]
              \/ g = h
              \/ /\ g # h /\ g \in Updates(req[h].rep) /\ req[g] \in UpdateType
                 /\ req'[g] = Passed(req[g], req[h])
                 /\ req'[g] \in UpdateType
<1> DEFINE r == req[h].rep
<1>1. \A g \in Handlers : req[g] \in RequestType
  BY DEF Typed
<1>2. ASSUME NEW g \in Updates(r)
      PROVE  g \in Handlers /\ req[g] \in UpdateType /\ Passed(req[g], req[h]) \in UpdateType
  <2>1. g \in Handlers /\ req[g].op = "update"
    BY DEF Updates
  <2>2. req[g] \in UpdateType
    BY <1>1, <2>1, ByOperation
  <2> QED BY <2>1, <2>2, PassedUpdate
<1>3. req' = [g \in Handlers |-> IF g = h THEN Idle
                                 ELSE IF g \in Updates(r) THEN Passed(req[g], req[h])
                                 ELSE req[g]]
  BY DEF Overtaken
<1>4. \A g \in Handlers : req'[g] = IF g = h THEN Idle
                                    ELSE IF g \in Updates(r) THEN Passed(req[g], req[h])
                                    ELSE req[g]
  BY <1>3
<1>5. \A g \in Handlers : req'[g] \in RequestType
  BY <1>1, <1>2, <1>4 DEF RequestType
<1>6. req' \in [Handlers -> RequestType]
  BY <1>3, <1>5
<1> QED BY <1>2, <1>4, <1>6

(* The two outcomes of a commit.                                           *)
Fails(h) == req' = [req EXCEPT ![h] = Idle] /\ UNCHANGED <<admin, scope, quota, history>>
Succeeds(h) ==
  LET u == req[h]
      r == u.rep IN
  /\ r \in Present
  /\ IF "limits" \in u.fields
       THEN /\ \E row \in WriteLimits(admin[r], u.seen, u.goal) : admin' = [admin EXCEPT ![r] = row]
            /\ \E v \in Verdict : quota' = [quota EXCEPT ![r] = v]
            /\ lifted' = [lifted EXCEPT ![r] = u.stale # {} /\ "lifted" \in u.stale \cup {Did(u.goal)}]
       ELSE UNCHANGED <<admin, quota, lifted>>
  /\ IF "scope" \in u.fields
       THEN /\ scope' = [scope EXCEPT ![r] = Remaining(h) \cup u.scope]
            /\ asked' = [asked EXCEPT ![r] = u.scope]
            /\ beside' = [beside EXCEPT ![r] = u.missed]
       ELSE UNCHANGED <<scope, asked, beside>>
  /\ req' = Overtaken(h)

LEMMA VerdictType ==
  ASSUME Typed, NEW r \in Reps, NEW row
  PROVE  Verdicts(r, row) \subseteq Verdict
BY DEF Verdicts, Verdict

LEMMA Committing ==
  ASSUME Typed, NEW h \in Handlers, CommitUpdate(h)
  PROVE  /\ req[h] \in UpdateType /\ req[h].pc = "commit"
         /\ lock' = Unlocked(h) /\ UNCHANGED <<clients, arrived>>
         /\ Fails(h) \/ Succeeds(h)
<1>1. req[h] \in RequestType /\ req[h].op = "update" /\ req[h].pc = "commit"
  BY DEF Typed, CommitUpdate
<1>2. req[h] \in UpdateType
  BY <1>1, ByOperation
<1>3. req[h].rep \in Reps
  BY <1>2 DEF UpdateType
<1>4. CASE req[h].rep \notin Present \/ ("scope" \in req[h].fields /\ req[h].scope \cap Remaining(h) # {})
  BY <1>1, <1>2, <1>4 DEF CommitUpdate, Fails, history
<1>5. CASE ~ (req[h].rep \notin Present \/ ("scope" \in req[h].fields /\ req[h].scope \cap Remaining(h) # {}))
  <2>1. \A row : Verdicts(req[h].rep, row) \subseteq Verdict
    BY <1>3, VerdictType
  <2>2. lock' = Unlocked(h) /\ UNCHANGED <<clients, arrived>>
    BY DEF CommitUpdate
  <2>3. CASE "limits" \in req[h].fields
    <3>1. PICK row \in WriteLimits(admin[req[h].rep], req[h].seen, req[h].goal) :
            /\ admin' = [admin EXCEPT ![req[h].rep] = row]
            /\ \E v \in Verdicts(req[h].rep, row) : quota' = [quota EXCEPT ![req[h].rep] = v]
            /\ lifted' = [lifted EXCEPT ![req[h].rep] =
                            req[h].stale # {} /\ "lifted" \in req[h].stale \cup {Did(req[h].goal)}]
      BY <1>5, <2>3 DEF CommitUpdate
    <3>2. \E v \in Verdict : quota' = [quota EXCEPT ![req[h].rep] = v]
      BY <2>1, <3>1
    <3> QED BY <1>1, <1>2, <1>5, <2>2, <2>3, <3>1, <3>2 DEF CommitUpdate, Succeeds
  <2>4. CASE "limits" \notin req[h].fields
    BY <1>1, <1>2, <1>5, <2>2, <2>4 DEF CommitUpdate, Succeeds
  <2> QED BY <2>3, <2>4
<1> QED BY <1>4, <1>5

(* A commit changes one row, and keeps that it is there.                   *)
LEMMA CommittedRow ==
  ASSUME Typed, NEW h \in Handlers, req[h] \in UpdateType, Succeeds(h)
  PROVE  /\ admin' \in [Reps -> Row] /\ quota' \in [Reps -> Verdict]
         /\ \A r \in Reps : admin'[r].state = admin[r].state
         /\ \A r \in Reps : r # req[h].rep \/ "limits" \notin req[h].fields => admin'[r] = admin[r]
<1> DEFINE r == req[h].rep
           u == req[h]
<1>1. r \in Reps /\ u.seen \in LimitsType /\ u.goal \in Goal /\ admin[r] \in Row
  BY DEF UpdateType, Typed
<1>2. CASE "limits" \notin u.fields
  BY <1>2 DEF Succeeds, Typed
<1>3. CASE "limits" \in u.fields
  <2>1. PICK row \in WriteLimits(admin[r], u.seen, u.goal) : admin' = [admin EXCEPT ![r] = row]
    BY <1>3 DEF Succeeds
  <2>2. row \in Row /\ row.state = admin[r].state
    BY <1>1, <2>1, WrittenLimits
  <2>3. PICK v \in Verdict : quota' = [quota EXCEPT ![r] = v]
    BY <1>3 DEF Succeeds
  <2>4. admin \in [Reps -> Row] /\ quota \in [Reps -> Verdict]
    BY DEF Typed
  <2> HIDE DEF r
  <2>5. admin' \in [Reps -> Row] /\ quota' \in [Reps -> Verdict]
    BY <1>1, <2>1, <2>2, <2>3, <2>4
  <2>6. admin'[r] = row /\ \A q \in Reps : q # r => admin'[q] = admin[q]
    BY <1>1, <2>1, <2>4
  <2>7. \A q \in Reps : admin'[q].state = admin[q].state
    BY <2>2, <2>6
  <2> QED BY <1>3, <2>5, <2>6, <2>7 DEF r
<1> QED BY <1>2, <1>3

LEMMA TypedInit == Init => Typed
<1> SUFFICES ASSUME Init PROVE Typed
  OBVIOUS
<1>1. Absent("none") \in Row
  BY DEF Absent, Row
<1>2. admin \in [Reps -> Row] /\ quota \in [Reps -> Verdict]
  BY <1>1 DEF Init, Verdict
<1>3. req \in [Handlers -> RequestType]
  BY DEF Init, RequestType
<1> QED BY <1>2, <1>3, BoundAssumption DEF Init, Typed

LEMMA TypedStep == Typed /\ [Next]_vars => Typed'
<1> SUFFICES ASSUME Typed, [Next]_vars PROVE Typed'
  OBVIOUS
<1>1. ASSUME NEW r \in Reps, CreateAdmin(r) PROVE Typed'
  <2>1. PICK goal \in Goal, enabled \in BOOLEAN, s \in (SUBSET Inbounds) \ {{}} :
          /\ admin' = [admin EXCEPT ![r] = NewAdmin(goal, enabled)]
          /\ scope' = [scope EXCEPT ![r] = s] /\ asked' = [asked EXCEPT ![r] = s]
    BY <1>1 DEF CreateAdmin
  <2>2. NewAdmin(goal, enabled) \in Row
    BY DEF NewAdmin, Row, Goal, Bytes, AskedNone
  <2>3. admin' \in [Reps -> Row]
    BY <2>1, <2>2 DEF Typed
  <2>4. scope' \in [Reps -> SUBSET Inbounds] /\ asked' \in [Reps -> SUBSET Inbounds]
    BY <2>1 DEF Typed
  <2> QED BY <1>1, <2>3, <2>4, BoundAssumption DEF CreateAdmin, Arrives, Typed
<1>2. ASSUME NEW r \in Reps, DeleteAdmin(r) PROVE Typed'
  <2>1. Absent("deleted") \in Row
    BY DEF Absent, Row
  <2>2. Disowned(r) \in [Ids -> Client \cup {None}]
    <3> SUFFICES ASSUME NEW c \in Ids, clients[c] # None
                 PROVE  [clients[c] EXCEPT !.by = None] \in Client
      BY DEF Disowned, Typed
    <3>1. clients[c] \in Client
      BY DEF Typed
    <3> QED BY <3>1 DEF Client
  <2> QED BY <1>2, <2>1, <2>2, BoundAssumption DEF DeleteAdmin, Arrives, Typed, Verdict, history
<1>3. ASSUME NEW r \in Reps, SetEnabled(r) PROVE Typed'
  <2>1. admin[r] \in Row /\ admin' = [admin EXCEPT ![r] = [admin[r] EXCEPT !.enabled = ~ admin[r].enabled]]
    BY <1>3 DEF SetEnabled, Typed
  <2>2. [admin[r] EXCEPT !.enabled = ~ admin[r].enabled] \in Row
    BY <2>1 DEF Row
  <2>3. admin' \in [Reps -> Row]
    BY <2>1, <2>2 DEF Typed
  <2> QED BY <1>3, <2>3, BoundAssumption DEF SetEnabled, Arrives, Typed, history
<1>4. ASSUME NEW r \in Reps, Expire(r) \/ ReachLimit(r) PROVE Typed'
  BY <1>4 DEF Expire, ReachLimit, Typed, Verdict, history
<1>5. ASSUME NEW c \in Ids, DeleteClient(c) PROVE Typed'
  <2>1. quota' \in [Reps -> Verdict]
    BY <1>5 DEF DeleteClient, Typed, Verdict
  <2> QED BY <1>5, <2>1, BoundAssumption DEF DeleteClient, Arrives, Typed, history
<1>6. ASSUME NEW h \in Handlers, NEW by \in Reps \cup {None}, NEW i \in Inbounds, NEW a \in Address,
             Create(h, by, i, a)
      PROVE  Typed'
  <2>1. PICK r \in CreateType : Accept(h, r)
    BY <1>6, Creating
  <2>2. req' \in [Handlers -> RequestType] /\ arrived' \in 0..MaxRequests
    BY <2>1, Accepting DEF RequestType
  <2> QED BY <1>6, <2>2 DEF Create, Typed, table, history
<1>7. ASSUME NEW h \in Handlers, NEW r \in Reps, NEW f \in Fields, Update(h, r, f) PROVE Typed'
  <2>1. PICK u \in UpdateType : Accept(h, u)
    BY <1>7, Updating
  <2>2. req' \in [Handlers -> RequestType] /\ arrived' \in 0..MaxRequests
    BY <2>1, Accepting DEF RequestType
  <2> QED BY <1>7, <2>2 DEF Update, Typed, table, history
<1>8. ASSUME NEW h \in Handlers, Insert(h) PROVE Typed'
  <2>1. req' \in [Handlers -> RequestType]
    BY <1>8 DEF Insert, Typed, RequestType
  <2>2. req[h] \in CreateType
    BY <1>8, ByOperation DEF Insert, Typed
  <2>3. [by |-> req[h].by, inbound |-> req[h].inbound, address |-> req[h].address] \in Client
    BY <2>2 DEF CreateType, Client
  <2>4. clients' \in [Ids -> Client \cup {None}]
    BY <1>8, <2>3 DEF Insert, Typed
  <2> QED BY <1>8, <2>1, <2>4 DEF Insert, Typed, history
<1>9. ASSUME NEW h \in Handlers, Scan(h) PROVE Typed'
  BY <1>9, Stepping DEF Scan, Typed, table, history
<1>10. ASSUME NEW h \in Handlers, DeleteScope(h) PROVE Typed'
  <2>1. req[h] \in UpdateType /\ req' \in [Handlers -> RequestType]
    BY <1>10, Stepping
  <2>2. lock' \in [Reps -> [Inbounds -> Handlers \cup {None}]]
    BY <1>10, <2>1 DEF DeleteScope, Typed, UpdateType
  <2> QED BY <1>10, <2>1, <2>2 DEF DeleteScope, Typed, table, history
<1>11. ASSUME NEW h \in Handlers, CommitUpdate(h) PROVE Typed'
  <2>1. /\ req[h] \in UpdateType /\ lock' \in [Reps -> [Inbounds -> Handlers \cup {None}]]
        /\ UNCHANGED <<clients, arrived>> /\ (Fails(h) \/ Succeeds(h))
    BY <1>11, Committing, UnlockedType
  <2>2. CASE Fails(h)
    BY <2>1, <2>2 DEF Fails, Typed, RequestType, history
  <2>3. CASE Succeeds(h)
    <3>1. admin' \in [Reps -> Row] /\ quota' \in [Reps -> Verdict]
      BY <2>1, <2>3, CommittedRow
    <3>2. req' \in [Handlers -> RequestType]
      BY <2>1, <2>3, Overtaking DEF Succeeds
    <3>3. scope' \in [Reps -> SUBSET Inbounds] /\ asked' \in [Reps -> SUBSET Inbounds]
      <4>1. req[h].rep \in Reps /\ req[h].scope \in SUBSET Inbounds
        BY <2>1 DEF UpdateType
      <4>2. Remaining(h) \in SUBSET Inbounds
        BY <4>1 DEF Typed, Remaining
      <4>3. Remaining(h) \cup req[h].scope \in SUBSET Inbounds
        BY <4>1, <4>2
      <4> QED BY <2>3, <4>1, <4>3 DEF Succeeds, Typed
    <3>4. beside' \in [Reps -> SUBSET Inbounds] /\ lifted' \in [Reps -> BOOLEAN]
      <4>1. beside' \in [Reps -> SUBSET Inbounds]
        BY <2>1, <2>3 DEF Succeeds, Typed, UpdateType
      <4>2. lifted' \in [Reps -> BOOLEAN]
        BY <2>1, <2>3 DEF Succeeds, Typed
      <4> QED BY <4>1, <4>2
    <3> QED BY <2>1, <3>1, <3>2, <3>3, <3>4 DEF Typed
  <2> QED BY <2>1, <2>2, <2>3
<1>12. ASSUME NEW h \in Handlers, RequestDies(h) PROVE Typed'
  BY <1>12, UnlockedType DEF RequestDies, Typed, RequestType, table, history
<1>13. CASE UNCHANGED vars
  BY <1>13 DEF Typed, vars
<1> QED BY <1>1, <1>2, <1>3, <1>4, <1>5, <1>6, <1>7, <1>8, <1>9, <1>10, <1>11, <1>12, <1>13 DEF Next, Quiet

-----------------------------------------------------------------------------
(* Scopes and clients name representatives that exist, and whoever holds a *)
(* row of a scope is an update of it.                                      *)

Links ==
  /\ \A r \in Reps : scope[r] # {} => r \in Present
  /\ \A c \in Ids : clients[c] # None => clients[c].by \in Present \cup {None}
Held == \A r \in Reps, i \in Inbounds : lock[r][i] # None => lock[r][i] \in Updates(r)

LEMMA LinksInit == Init => Links /\ Held
BY DEF Init, Links, Held

LEMMA LinksStep == Typed /\ Links /\ [Next]_vars => Links'
<1> SUFFICES ASSUME Typed, Links, [Next]_vars PROVE Links'
  OBVIOUS
<1>1. ASSUME NEW r \in Reps, CreateAdmin(r) PROVE Links'
  <2>1. Present \subseteq Present' /\ r \in Present'
    BY <1>1 DEF CreateAdmin, NewAdmin, Present, Typed
  <2> QED BY <1>1, <2>1 DEF CreateAdmin, Links, Typed
<1>2. ASSUME NEW r \in Reps, DeleteAdmin(r) PROVE Links'
  <2>1. Present \ {r} \subseteq Present'
    BY <1>2 DEF DeleteAdmin, Present, Typed
  <2>2. \A q \in Reps : scope'[q] # {} => q \in Present'
    BY <1>2, <2>1 DEF DeleteAdmin, Links, Typed
  <2>3. ASSUME NEW c \in Ids, clients'[c] # None
        PROVE  clients'[c].by \in Present' \cup {None}
    <3>1. CASE clients[c] # None /\ clients[c].by = r
      <4>1. clients[c] \in Client /\ clients'[c] = [clients[c] EXCEPT !.by = None]
        BY <1>2, <3>1 DEF DeleteAdmin, Disowned, Typed
      <4> QED BY <4>1 DEF Client
    <3>2. CASE ~ (clients[c] # None /\ clients[c].by = r)
      <4>1. clients'[c] = clients[c]
        BY <1>2, <3>2 DEF DeleteAdmin, Disowned
      <4> QED BY <2>1, <2>3, <3>2, <4>1 DEF Links
    <3> QED BY <3>1, <3>2
  <2> QED BY <2>2, <2>3 DEF Links
<1>3. ASSUME NEW r \in Reps, SetEnabled(r) PROVE Links'
  <2>1. admin[r] \in Row /\ admin' = [admin EXCEPT ![r] = [admin[r] EXCEPT !.enabled = ~ admin[r].enabled]]
    BY <1>3 DEF SetEnabled, Typed
  <2>2. [admin[r] EXCEPT !.enabled = ~ admin[r].enabled].state = admin[r].state
    BY <2>1 DEF Row
  <2>3. \A q \in Reps : admin'[q].state = admin[q].state
    BY <2>1, <2>2 DEF Typed
  <2> QED BY <1>3, <2>3 DEF SetEnabled, Links, Present
<1>4. ASSUME NEW r \in Reps, Expire(r) \/ ReachLimit(r) PROVE Links'
  BY <1>4 DEF Expire, ReachLimit, Links, Present
<1>5. ASSUME NEW c \in Ids, DeleteClient(c) PROVE Links'
  BY <1>5 DEF DeleteClient, Links, Present, Typed
<1>6. ASSUME NEW h \in Handlers, Insert(h) PROVE Links'
  <2>1. CASE UNCHANGED clients
    BY <1>6, <2>1 DEF Insert, Links, Present
  <2>2. ASSUME NEW c \in Ids, req[h].by \in Present \cup {None},
               clients' = [clients EXCEPT ![c] = [by |-> req[h].by, inbound |-> req[h].inbound,
                                                  address |-> req[h].address]]
        PROVE  Links'
    BY <1>6, <2>2 DEF Insert, Links, Present, Typed
  <2> QED BY <1>6, <2>1, <2>2 DEF Insert
<1>7. ASSUME NEW h \in Handlers, CommitUpdate(h) PROVE Links'
  <2>1. req[h] \in UpdateType /\ UNCHANGED clients /\ (Fails(h) \/ Succeeds(h))
    BY <1>7, Committing
  <2>2. CASE Fails(h)
    BY <2>1, <2>2 DEF Fails, Links, Present
  <2>3. CASE Succeeds(h)
    <3>1. Present' = Present
      BY <2>1, <2>3, CommittedRow DEF Present
    <3>2. req[h].rep \in Present /\ \A r \in Reps : r # req[h].rep => scope'[r] = scope[r]
      BY <2>3 DEF Succeeds, Typed
    <3> QED BY <2>1, <3>1, <3>2 DEF Links
  <2> QED BY <2>1, <2>2, <2>3
<1>8. CASE UNCHANGED <<admin, scope, clients>>
  BY <1>8 DEF Links, Present
<1>9. ASSUME NEW h \in Handlers,
             \/ \E by \in Reps \cup {None}, i \in Inbounds, a \in Address : Create(h, by, i, a)
             \/ \E r \in Reps, f \in Fields : Update(h, r, f)
             \/ Scan(h) \/ DeleteScope(h) \/ RequestDies(h)
      PROVE  UNCHANGED <<admin, scope, clients>>
  BY <1>9 DEF Create, Update, Scan, DeleteScope, RequestDies, table
<1>10. CASE UNCHANGED vars
  BY <1>8, <1>10 DEF vars
<1> QED BY <1>1, <1>2, <1>3, <1>4, <1>5, <1>6, <1>7, <1>8, <1>9, <1>10 DEF Next, Quiet

(* A lock stays while its holder's request does.                           *)
LEMMA HeldKept ==
  ASSUME Typed, Held, NEW h \in Handlers,
         \/ lock' = Unlocked(h)
         \/ /\ lock' = lock
            /\ req[h].op = "update" => req'[h].op = "update" /\ req'[h].rep = req[h].rep,
         \A g \in Handlers : g # h /\ req[g].op = "update" => req'[g].op = "update" /\ req'[g].rep = req[g].rep
  PROVE  Held'
<1> SUFFICES ASSUME NEW r \in Reps, NEW i \in Inbounds, lock'[r][i] # None
             PROVE  lock'[r][i] \in Updates(r)'
  BY DEF Held
<1>1. lock'[r][i] = lock[r][i] /\ (lock' # Unlocked(h) \/ lock[r][i] # h)
  BY DEF Unlocked
<1>2. lock[r][i] \in Updates(r) /\ lock[r][i] \in Handlers
  BY <1>1 DEF Held, Updates
<1> DEFINE g == lock[r][i]
<1>3. req[g].op = "update" /\ req[g].rep = r
  BY <1>2 DEF Updates
<1>4. req'[g].op = "update" /\ req'[g].rep = r
  BY <1>1, <1>2, <1>3
<1> QED BY <1>1, <1>2, <1>4 DEF Updates

LEMMA HeldStep == Typed /\ Held /\ [Next]_vars => Held'
<1> SUFFICES ASSUME Typed, Held, [Next]_vars PROVE Held'
  OBVIOUS
<1>1. ASSUME NEW h \in Handlers, NEW r \in RequestType, Accept(h, r), UNCHANGED lock PROVE Held'
  <2>1. req[h].op # "update" /\ \A g \in Handlers : g # h => req'[g] = req[g]
    BY <1>1, Accepting DEF Idle, Typed
  <2> QED BY <1>1, <2>1, HeldKept DEF Updates
<1>2. ASSUME NEW h \in Handlers, NEW by \in Reps \cup {None}, NEW i \in Inbounds, NEW a \in Address,
             Create(h, by, i, a)
      PROVE  Held'
  BY <1>1, <1>2, Creating DEF Create, RequestType
<1>3. ASSUME NEW h \in Handlers, NEW r \in Reps, NEW f \in Fields, Update(h, r, f) PROVE Held'
  <2>1. PICK u \in UpdateType : Accept(h, u)
    BY <1>3, Updating
  <2> QED BY <1>1, <1>3, <2>1 DEF Update, RequestType
<1>4. ASSUME NEW h \in Handlers, Insert(h) PROVE Held'
  <2>1. req[h].op # "update" /\ UNCHANGED lock /\ \A g \in Handlers : g # h => req'[g] = req[g]
    BY <1>4 DEF Insert, Typed
  <2> QED BY <2>1, HeldKept DEF Updates
<1>5. ASSUME NEW h \in Handlers, Scan(h) PROVE Held'
  BY <1>5, Stepping, HeldKept DEF Scan, UpdateType
<1>6. ASSUME NEW h \in Handlers, DeleteScope(h) PROVE Held'
  <2>1. /\ req[h] \in UpdateType /\ req'[h] \in UpdateType /\ req'[h].rep = req[h].rep
        /\ \A g \in Handlers : g # h => req'[g] = req[g]
    BY <1>6, Stepping
  <2>2. req[h].rep \in Reps /\ req'[h].op = "update"
    BY <2>1 DEF UpdateType
  <2> SUFFICES ASSUME NEW q \in Reps, NEW i \in Inbounds, lock'[q][i] # None
               PROVE  lock'[q][i] \in Updates(q)'
    BY DEF Held
  <2>3. lock'[q][i] = lock[q][i] \/ (q = req[h].rep /\ lock'[q][i] = h)
    BY <1>6, <2>2 DEF DeleteScope, Typed
  <2>4. CASE lock'[q][i] = lock[q][i]
    <3>1. lock[q][i] \in Updates(q)
      BY <2>4 DEF Held
    <3> QED BY <2>1, <2>2, <2>4, <3>1 DEF Updates
  <2>5. CASE q = req[h].rep /\ lock'[q][i] = h
    BY <2>1, <2>2, <2>5 DEF Updates
  <2> QED BY <2>3, <2>4, <2>5
<1>7. ASSUME NEW h \in Handlers, CommitUpdate(h) PROVE Held'
  <2>1. req[h] \in UpdateType /\ lock' = Unlocked(h) /\ (Fails(h) \/ Succeeds(h))
    BY <1>7, Committing
  <2>2. ASSUME NEW g \in Handlers, g # h, req[g].op = "update"
        PROVE  req'[g].op = "update" /\ req'[g].rep = req[g].rep
    <3>1. CASE Fails(h)
      BY <2>2, <3>1 DEF Fails, Typed
    <3>2. CASE Succeeds(h)
      <4>1. CASE req'[g] = req[g]
        BY <2>2, <4>1
      <4>2. CASE /\ req[g] \in UpdateType /\ req'[g] \in UpdateType
                 /\ req'[g] = Passed(req[g], req[h])
        <5>1. Passed(req[g], req[h]).rep = req[g].rep
          BY <2>1, <4>2, PassedUpdate
        <5>2. req'[g].rep = req[g].rep
          BY <4>2, <5>1
        <5>3. req'[g].op = "update"
          BY <4>2 DEF UpdateType
        <5> QED BY <5>2, <5>3
      <4> QED BY <2>1, <2>2, <3>2, <4>1, <4>2, Overtaking DEF Succeeds
    <3> QED BY <2>1, <3>1, <3>2
  <2> QED BY <2>1, <2>2, HeldKept
<1>8. ASSUME NEW h \in Handlers, RequestDies(h) PROVE Held'
  BY <1>8, HeldKept DEF RequestDies, Typed
<1>9. CASE UNCHANGED <<lock, req>>
  BY <1>9 DEF Held, Updates
<1>10. ASSUME NEW r \in Reps, \/ CreateAdmin(r) \/ DeleteAdmin(r) \/ SetEnabled(r)
                              \/ Expire(r) \/ ReachLimit(r)
       PROVE  Held'
  BY <1>9, <1>10 DEF CreateAdmin, DeleteAdmin, SetEnabled, Expire, ReachLimit
<1>11. ASSUME NEW c \in Ids, DeleteClient(c) PROVE Held'
  BY <1>9, <1>11 DEF DeleteClient
<1>12. CASE UNCHANGED vars
  BY <1>9, <1>12 DEF vars
<1> QED BY <1>2, <1>3, <1>4, <1>5, <1>6, <1>7, <1>8, <1>10, <1>11, <1>12 DEF Next, Quiet

-----------------------------------------------------------------------------
(* Addresses: none that a request is about to insert is the server's.      *)

Chosen == \A h \in Handlers : req[h].op = "create" => req[h].address.host # Server

LEMMA ChosenStep == Typed /\ Chosen /\ [Next]_vars => Chosen'
<1> SUFFICES ASSUME Typed, Chosen, [Next]_vars PROVE Chosen'
  OBVIOUS
<1>1. ASSUME NEW h \in Handlers, NEW by \in Reps \cup {None}, NEW i \in Inbounds, NEW a \in Address,
             Create(h, by, i, a)
      PROVE  Chosen'
  <2>1. PICK r \in CreateType : r.address.host # Server /\ Accept(h, r)
    BY <1>1, Creating
  <2>2. req' = [req EXCEPT ![h] = r]
    BY <2>1 DEF Accept
  <2> QED BY <2>1, <2>2 DEF Chosen, Typed
<1>2. ASSUME NEW h \in Handlers, NEW r \in Reps, NEW f \in Fields, Update(h, r, f) PROVE Chosen'
  <2>1. PICK u \in UpdateType : Accept(h, u)
    BY <1>2, Updating
  <2>2. req' = [req EXCEPT ![h] = u] /\ u.op # "create"
    BY <2>1 DEF Accept, UpdateType
  <2> QED BY <2>2 DEF Chosen, Typed
<1>3. ASSUME NEW h \in Handlers, Insert(h) \/ RequestDies(h) PROVE Chosen'
  <2>1. req' = [req EXCEPT ![h] = Idle]
    BY <1>3 DEF Insert, RequestDies
  <2> QED BY <2>1 DEF Chosen, Typed, Idle
<1>4. ASSUME NEW h \in Handlers, Scan(h) \/ DeleteScope(h) PROVE Chosen'
  <2>1. req'[h] \in UpdateType /\ \A g \in Handlers : g # h => req'[g] = req[g]
    BY <1>4, Stepping
  <2> QED BY <2>1 DEF Chosen, UpdateType
<1>5. ASSUME NEW h \in Handlers, CommitUpdate(h) PROVE Chosen'
  <2>1. req[h] \in UpdateType /\ (Fails(h) \/ Succeeds(h))
    BY <1>5, Committing
  <2>2. CASE Fails(h)
    BY <2>2 DEF Fails, Chosen, Typed, Idle
  <2>3. CASE Succeeds(h)
    <3>1. req'[h] = Idle /\ \A g \in Handlers : g # h => req'[g] = req[g] \/ req'[g] \in UpdateType
      BY <2>1, <2>3, Overtaking DEF Succeeds
    <3> QED BY <3>1 DEF Chosen, UpdateType, Idle
  <2> QED BY <2>1, <2>2, <2>3
<1>6. CASE UNCHANGED req
  BY <1>6 DEF Chosen
<1>7. ASSUME NEW r \in Reps, \/ CreateAdmin(r) \/ DeleteAdmin(r) \/ SetEnabled(r)
                             \/ Expire(r) \/ ReachLimit(r)
      PROVE  Chosen'
  BY <1>6, <1>7 DEF CreateAdmin, DeleteAdmin, SetEnabled, Expire, ReachLimit
<1>8. ASSUME NEW c \in Ids, DeleteClient(c) PROVE Chosen'
  BY <1>6, <1>8 DEF DeleteClient
<1>9. CASE UNCHANGED vars
  BY <1>6, <1>9 DEF vars
<1> QED BY <1>1, <1>2, <1>3, <1>4, <1>5, <1>7, <1>8, <1>9 DEF Next, Quiet

LEMMA AddressesStep ==
  Typed /\ Chosen /\ AddressesDistinct /\ [Next]_vars => AddressesDistinct'
<1> SUFFICES ASSUME Typed, Chosen, AddressesDistinct, [Next]_vars PROVE AddressesDistinct'
  OBVIOUS
<1>1. ASSUME NEW h \in Handlers, Insert(h) PROVE AddressesDistinct'
  <2> DEFINE r == req[h]
             new == [by |-> r.by, inbound |-> r.inbound, address |-> r.address]
  <2>1. CASE UNCHANGED clients
    BY <2>1 DEF AddressesDistinct, On
  <2>2. ASSUME NEW x \in Ids, ~ Taken(r.inbound, r.address), clients[x] = None,
               clients' = [clients EXCEPT ![x] = new]
        PROVE  AddressesDistinct'
    <3> SUFFICES ASSUME NEW i \in Inbounds, NEW c \in On(i)', NEW d \in On(i)'
                 PROVE  /\ clients'[c].address.host # Server
                        /\ clients'[c].address = clients'[d].address => c = d
      BY DEF AddressesDistinct
    <3>1. r.address.host # Server
      BY <1>1 DEF Insert, Chosen
    <3>2. \A e \in Ids : e # x => clients'[e] = clients[e]
      BY <2>2 DEF Typed
    <3>3. clients'[x].address = r.address /\ clients'[x].inbound = r.inbound
      BY <2>2 DEF Typed
    <3>4. \A e \in On(i)' : e # x => e \in On(i) /\ clients'[e].address = clients[e].address
      BY <3>2 DEF On
    <3>5. x \in On(i)' => \A e \in On(i) : clients[e].address # r.address
      BY <2>2, <3>3 DEF On, Taken
    <3>6. CASE c = x
      BY <3>1, <3>3, <3>4, <3>5, <3>6
    <3>7. CASE c # x
      <4>1. c \in On(i) /\ clients'[c].address = clients[c].address /\ clients[c].address.host # Server
        BY <3>4, <3>7 DEF AddressesDistinct
      <4>2. CASE d = x
        BY <3>3, <3>5, <4>1, <4>2
      <4>3. CASE d # x
        BY <3>4, <4>1, <4>3 DEF AddressesDistinct
      <4> QED BY <4>2, <4>3
    <3> QED BY <3>6, <3>7
  <2> QED BY <1>1, <2>1, <2>2 DEF Insert, Settled
<1>2. ASSUME NEW c \in Ids, DeleteClient(c) PROVE AddressesDistinct'
  BY <1>2 DEF DeleteClient, AddressesDistinct, On, Typed
<1>3. ASSUME NEW r \in Reps, DeleteAdmin(r) PROVE AddressesDistinct'
  <2>1. ASSUME NEW c \in Ids, clients'[c] # None
        PROVE  /\ clients[c] # None /\ clients'[c].inbound = clients[c].inbound
               /\ clients'[c].address = clients[c].address
    <3>1. CASE clients[c] # None /\ clients[c].by = r
      <4>1. clients[c] \in Client /\ clients'[c] = [clients[c] EXCEPT !.by = None]
        BY <1>3, <3>1 DEF DeleteAdmin, Disowned, Typed
      <4> QED BY <3>1, <4>1 DEF Client
    <3>2. CASE ~ (clients[c] # None /\ clients[c].by = r)
      BY <1>3, <2>1, <3>2 DEF DeleteAdmin, Disowned
    <3> QED BY <3>1, <3>2
  <2> QED BY <2>1 DEF AddressesDistinct, On
<1>4. CASE UNCHANGED clients
  BY <1>4 DEF AddressesDistinct, On
<1>5. ASSUME NEW r \in Reps, CreateAdmin(r) \/ SetEnabled(r) \/ Expire(r) \/ ReachLimit(r)
      PROVE  UNCHANGED clients
  BY <1>5 DEF CreateAdmin, SetEnabled, Expire, ReachLimit
<1>6. ASSUME NEW h \in Handlers,
             \/ \E by \in Reps \cup {None}, i \in Inbounds, a \in Address : Create(h, by, i, a)
             \/ \E r \in Reps, f \in Fields : Update(h, r, f)
             \/ Scan(h) \/ DeleteScope(h) \/ CommitUpdate(h) \/ RequestDies(h)
      PROVE  UNCHANGED clients
  BY <1>6 DEF Create, Update, Scan, DeleteScope, CommitUpdate, RequestDies, table
<1>7. CASE UNCHANGED vars
  BY <1>4, <1>7 DEF vars
<1> QED BY <1>1, <1>2, <1>3, <1>4, <1>5, <1>6, <1>7 DEF Next, Quiet

-----------------------------------------------------------------------------
(* Updates: the rows of the scope are those one is about to delete and     *)
(* those it has missed; the limits are those it has read until another is  *)
(* committed, and keep their day until another lifts them.                 *)

Same(row, seen) == row.limit = seen.limit /\ row.days = seen.days /\ row.started = seen.started

Reads(u, rows, scopes) ==
  /\ rows[u.rep].state # "none"
  /\ "scope" \notin u.fields => u.old = {} /\ u.pc = "commit"
  /\ u.pc # "scan" /\ "scope" \in u.fields => scopes[u.rep] \subseteq u.old \cup u.missed
  /\ rows[u.rep].state = "present" /\ "limits" \in u.fields =>
       /\ u.stale = {} => Same(rows[u.rep], u.seen)
       /\ "lifted" \notin u.stale /\ u.seen.started => rows[u.rep].started

Reading == \A h \in Handlers : req[h].op = "update" => Reads(req[h], admin, scope)

(* A request that is the one it was reads what it read, when its           *)
(* representative's row and scope are the ones it read, or gone.           *)
LEMMA ReadsKept ==
  ASSUME NEW u \in UpdateType, Reads(u, admin, scope),
         admin'[u.rep].state # "none",
         admin'[u.rep].state = "present" => admin[u.rep].state = "present" /\ Same(admin'[u.rep], admin[u.rep]),
         scope'[u.rep] \subseteq scope[u.rep]
  PROVE  Reads(u, admin', scope')
BY DEF Reads, Same

LEMMA ReadingKept ==
  ASSUME Typed, Reading,
         \A g \in Handlers : req'[g].op = "update" => req'[g] = req[g] \/ Reads(req'[g], admin', scope'),
         \A r \in Reps : admin[r].state # "none" =>
           /\ admin'[r].state # "none" /\ scope'[r] \subseteq scope[r]
           /\ admin'[r].state = "present" => admin[r].state = "present" /\ Same(admin'[r], admin[r])
  PROVE  Reading'
<1> SUFFICES ASSUME NEW g \in Handlers, req'[g].op = "update" PROVE Reads(req'[g], admin', scope')
  BY DEF Reading
<1>1. CASE req'[g] = req[g]
  <2>1. req[g] \in RequestType /\ req[g].op = "update"
    BY <1>1 DEF Typed
  <2>2. req[g] \in UpdateType
    BY <2>1, ByOperation
  <2>3. req[g].rep \in Reps /\ Reads(req[g], admin, scope)
    BY <2>1, <2>2 DEF UpdateType, Reading
  <2>4. admin[req[g].rep].state # "none"
    BY <2>3 DEF Reads
  <2> QED BY <1>1, <2>2, <2>3, <2>4, ReadsKept
<1> QED BY <1>1

(* After a commit, the updates that it did not outdate still read what     *)
(* there is.                                                               *)
LEMMA CommitReads ==
  ASSUME Typed, Reading, NEW h \in Handlers, req[h] \in UpdateType, Succeeds(h),
         NEW g \in Handlers, g # h, req[g].op = "update"
  PROVE  Reads(req'[g], admin', scope')
<1> DEFINE u == req[g]
           f == req[h].fields
<1>1. req[g] \in RequestType /\ u \in UpdateType /\ u.rep \in Reps /\ Reads(u, admin, scope)
  <2>1. req[g] \in RequestType
    BY DEF Typed
  <2>2. u \in UpdateType
    BY <2>1, ByOperation
  <2> QED BY <2>1, <2>2 DEF UpdateType, Reading
<1>2. /\ f \in SUBSET {"scope", "limits"} /\ req[h].rep \in Reps
      /\ "scope" \notin f => req[h].old = {}
  BY DEF Reading, Reads, UpdateType, Fields
<1>3. /\ \A r \in Reps : admin'[r].state = admin[r].state
      /\ \A r \in Reps : r # req[h].rep \/ "limits" \notin f => admin'[r] = admin[r]
      /\ \A r \in Reps : r # req[h].rep \/ "scope" \notin f => scope'[r] = scope[r]
  <2>1. \A r \in Reps : r # req[h].rep \/ "scope" \notin f => scope'[r] = scope[r]
    BY DEF Succeeds, Typed
  <2> QED BY <2>1, CommittedRow
<1>4. CASE u.rep # req[h].rep
  <2>1. req'[g] = u
    BY <1>4, Overtaking DEF Succeeds, Updates
  <2>2. admin'[u.rep] = admin[u.rep] /\ scope'[u.rep] = scope[u.rep]
    BY <1>1, <1>3, <1>4
  <2> QED BY <1>1, <2>1, <2>2, ReadsKept DEF Reads, Same
<1>5. CASE u.rep = req[h].rep
  <2> DEFINE v == Passed(u, req[h])
  <2>1. g \in Updates(req[h].rep)
    BY <1>5 DEF Updates
  <2>2. req'[g] = v
    BY <2>1, Overtaking DEF Succeeds
  <2>3. /\ v.pc = u.pc /\ v.rep = u.rep /\ v.fields = u.fields /\ v.seen = u.seen
        /\ v.old = u.old \ req[h].old /\ u.missed \subseteq v.missed
        /\ "scope" \in u.fields \cap f /\ u.pc # "scan" => req[h].scope \subseteq v.missed
        /\ u.stale \subseteq v.stale
        /\ "limits" \notin f => v.stale = u.stale
        /\ "limits" \in u.fields \cap f => Did(req[h].goal) \in v.stale
    BY <1>1, PassedUpdate
  <2> HIDE DEF v, u, f
  <2>4. admin'[v.rep].state # "none"
    BY <1>1, <1>3, <2>3 DEF Reads
  <2>5. "scope" \notin v.fields => v.old = {} /\ v.pc = "commit"
    BY <1>1, <2>3 DEF Reads
  <2>6. ASSUME v.pc # "scan", "scope" \in v.fields
        PROVE  scope'[v.rep] \subseteq v.old \cup v.missed
    <3>1. scope[u.rep] \subseteq u.old \cup u.missed
      BY <1>1, <2>3, <2>6 DEF Reads
    <3>2. CASE "scope" \notin f
      <4>1. v.old = u.old /\ scope'[v.rep] = scope[u.rep]
        BY <1>1, <1>2, <1>3, <2>3, <3>2
      <4> QED BY <2>3, <3>1, <4>1
    <3>3. CASE "scope" \in f
      <4>1. scope'[u.rep] = (scope[u.rep] \ req[h].old) \cup req[h].scope
        BY <1>1, <1>2, <1>5, <3>3 DEF Succeeds, Remaining, Typed, f
      <4>2. req[h].scope \subseteq v.missed
        BY <2>3, <2>6, <3>3
      <4> QED BY <2>3, <3>1, <4>1, <4>2
    <3> QED BY <3>2, <3>3
  <2>7. ASSUME admin'[v.rep].state = "present", "limits" \in v.fields
        PROVE  /\ v.stale = {} => Same(admin'[v.rep], v.seen)
               /\ "lifted" \notin v.stale /\ v.seen.started => admin'[v.rep].started
    <3>1. admin[u.rep].state = "present"
      BY <1>1, <1>3, <2>3, <2>7
    <3>2. /\ u.stale = {} => Same(admin[u.rep], u.seen)
          /\ "lifted" \notin u.stale /\ u.seen.started => admin[u.rep].started
      BY <1>1, <2>3, <2>7, <3>1 DEF Reads
    <3>3. CASE "limits" \notin f
      <4>1. admin'[v.rep] = admin[u.rep] /\ v.stale = u.stale
        BY <1>1, <1>3, <2>3, <3>3
      <4> QED BY <2>3, <3>2, <4>1
    <3>4. CASE "limits" \in f
      <4>1. Did(req[h].goal) \in v.stale
        BY <2>3, <2>7, <3>4
      <4>2. ASSUME "lifted" \notin v.stale, v.seen.started
            PROVE  admin'[v.rep].started
        <5>1. ~ AskedNone(req[h].goal)
          BY <4>1, <4>2 DEF Did
        <5>2. admin[u.rep].started
          BY <2>3, <3>2, <4>2
        <5>3. PICK row \in WriteLimits(admin[u.rep], req[h].seen, req[h].goal) :
                admin' = [admin EXCEPT ![u.rep] = row]
          BY <1>5, <3>4 DEF Succeeds, f
        <5>4. row.started
          <6>1. admin[u.rep] \in Row /\ req[h].seen \in LimitsType /\ req[h].goal \in Goal
            BY <1>1 DEF Typed, UpdateType
          <6> QED BY <5>1, <5>2, <6>1, WrittenStart
        <5> QED BY <1>1, <2>3, <5>3, <5>4 DEF Typed
      <4> QED BY <4>1, <4>2
    <3> QED BY <3>3, <3>4
  <2> QED BY <2>2, <2>4, <2>5, <2>6, <2>7 DEF Reads
<1> QED BY <1>4, <1>5

LEMMA ReadingStep == Typed /\ Reading /\ [Next]_vars => Reading'
<1> SUFFICES ASSUME Typed, Reading, [Next]_vars PROVE Reading'
  OBVIOUS
<1>1. ASSUME NEW r \in Reps, CreateAdmin(r) PROVE Reading'
  <2>1. \A q \in Reps : admin[q].state # "none" => admin'[q] = admin[q] /\ scope'[q] = scope[q]
    BY <1>1 DEF CreateAdmin, Typed
  <2> QED BY <1>1, <2>1, ReadingKept DEF CreateAdmin, Same
<1>2. ASSUME NEW r \in Reps, DeleteAdmin(r) PROVE Reading'
  <2>1. \A q \in Reps : /\ q # r => admin'[q] = admin[q]
                        /\ admin'[r].state = "deleted" /\ scope'[q] \subseteq scope[q]
    BY <1>2 DEF DeleteAdmin, Absent, Typed
  <2> QED BY <1>2, <2>1, ReadingKept DEF DeleteAdmin, Same
<1>3. ASSUME NEW r \in Reps, SetEnabled(r) PROVE Reading'
  <2>1. admin[r] \in Row /\ admin' = [admin EXCEPT ![r] = [admin[r] EXCEPT !.enabled = ~ admin[r].enabled]]
    BY <1>3 DEF SetEnabled, Typed
  <2> DEFINE row == [admin[r] EXCEPT !.enabled = ~ admin[r].enabled]
  <2>2. row.state = admin[r].state /\ Same(row, admin[r])
    BY <2>1 DEF Row, Same
  <2> HIDE DEF row
  <2>3. \A q \in Reps : admin'[q] = IF q = r THEN row ELSE admin[q]
    BY <2>1 DEF Typed, row
  <2>4. \A q \in Reps : admin'[q].state = admin[q].state /\ Same(admin'[q], admin[q])
    BY <2>2, <2>3 DEF Same
  <2> QED BY <1>3, <2>4, ReadingKept DEF SetEnabled
<1>4. CASE UNCHANGED <<admin, scope, req>>
  BY <1>4 DEF Reading
<1>5. ASSUME NEW r \in Reps, Expire(r) \/ ReachLimit(r) PROVE Reading'
  BY <1>4, <1>5 DEF Expire, ReachLimit
<1>6. ASSUME NEW c \in Ids, DeleteClient(c) PROVE Reading'
  BY <1>4, <1>6 DEF DeleteClient
<1>7. ASSUME NEW h \in Handlers, UNCHANGED <<admin, scope>>, req'[h] \in RequestType,
             req'[h].op = "update" => Reads(req'[h], admin, scope),
             \A g \in Handlers : g # h => req'[g] = req[g]
      PROVE  Reading'
  BY <1>7 DEF Reading
<1>8. ASSUME NEW h \in Handlers, NEW by \in Reps \cup {None}, NEW i \in Inbounds, NEW a \in Address,
             Create(h, by, i, a)
      PROVE  Reading'
  <2>1. PICK r \in CreateType : Accept(h, r)
    BY <1>8, Creating
  <2>2. req' = [req EXCEPT ![h] = r] /\ r.op # "update"
    BY <2>1 DEF Accept, CreateType
  <2> QED BY <1>7, <1>8, <2>2 DEF Create, table, Typed, RequestType
<1>9. ASSUME NEW h \in Handlers, NEW r \in Reps, NEW f \in Fields, Update(h, r, f) PROVE Reading'
  <2>1. PICK u \in UpdateType :
          /\ u.rep = r /\ u.seen = Limits(admin[r]) /\ u.old = {} /\ u.stale = {} /\ u.fields = f
          /\ u.pc = IF "scope" \in f THEN "scan" ELSE "commit"
          /\ Accept(h, u)
    BY <1>9, Updating
  <2>2. admin[r].state = "present"
    BY <1>9 DEF Update, Present
  <2>3. Reads(u, admin, scope)
    BY <2>1, <2>2 DEF Reads, Same, Limits
  <2>4. req' = [req EXCEPT ![h] = u]
    BY <2>1 DEF Accept
  <2> QED BY <1>7, <1>9, <2>3, <2>4 DEF Update, table, Typed, RequestType
<1>10. ASSUME NEW h \in Handlers, Insert(h) \/ RequestDies(h) PROVE Reading'
  <2>1. req' = [req EXCEPT ![h] = Idle] /\ UNCHANGED <<admin, scope>>
    BY <1>10 DEF Insert, RequestDies, table
  <2> QED BY <1>7, <2>1 DEF Typed, RequestType, Idle
<1>11. ASSUME NEW h \in Handlers, Scan(h) \/ DeleteScope(h) PROVE Reading'
  <2>1. /\ req[h] \in UpdateType /\ req'[h] \in UpdateType
        /\ req'[h].rep = req[h].rep /\ req'[h].fields = req[h].fields
        /\ req'[h].seen = req[h].seen /\ req'[h].stale = req[h].stale /\ req'[h].missed = req[h].missed
        /\ \A g \in Handlers : g # h => req'[g] = req[g]
        /\ Scan(h) => req'[h].pc = "delete" /\ req'[h].old = scope[req[h].rep]
        /\ DeleteScope(h) => req'[h].pc = "commit" /\ req'[h].old = req[h].old
    BY <1>11, Stepping
  <2>2. Reads(req[h], admin, scope)
    BY <1>11 DEF Reading, Scan, DeleteScope
  <2>3. req[h].pc # "commit"
    BY <1>11 DEF Scan, DeleteScope
  <2>4. "scope" \in req[h].fields
    BY <2>2, <2>3 DEF Reads
  <2>5. Reads(req'[h], admin, scope)
    BY <1>11, <2>1, <2>2, <2>4 DEF Reads, DeleteScope
  <2>6. UNCHANGED <<admin, scope>>
    BY <1>11 DEF Scan, DeleteScope, table
  <2> QED BY <1>7, <2>1, <2>5, <2>6 DEF RequestType
<1>12. ASSUME NEW h \in Handlers, CommitUpdate(h) PROVE Reading'
  <2>1. req[h] \in UpdateType /\ (Fails(h) \/ Succeeds(h))
    BY <1>12, Committing
  <2>2. CASE Fails(h)
    BY <1>7, <2>2 DEF Fails, Typed, RequestType, Idle
  <2>3. CASE Succeeds(h)
    <3>1. ASSUME NEW g \in Handlers, req'[g].op = "update" PROVE Reads(req'[g], admin', scope')
      <4>1. g # h
        BY <2>1, <2>3, <3>1, Overtaking DEF Succeeds, Idle
      <4>2. req[g].op = "update"
        BY <2>1, <2>3, <3>1, <4>1, Overtaking DEF Succeeds, UpdateType
      <4> QED BY <2>1, <2>3, <4>1, <4>2, CommitReads
    <3> QED BY <3>1 DEF Reading
  <2> QED BY <2>1, <2>2, <2>3
<1>13. CASE UNCHANGED vars
  BY <1>4, <1>13 DEF vars
<1> QED BY <1>1, <1>2, <1>3, <1>5, <1>6, <1>8, <1>9, <1>10, <1>11, <1>12, <1>13 DEF Next, Quiet

-----------------------------------------------------------------------------
(* What a commit leaves.                                                   *)

LEMMA CommittedLimits ==
  ASSUME NEW row \in Row, NEW seen \in LimitsType, NEW goal \in Goal, Same(row, seen),
         NEW q \in WriteLimits(row, seen, goal)
  PROVE  ~ Unlimited(q) => q.started
<1>1. PICK l \in Written(row.limit, seen.limit, Bytes(goal.quota)), d \in Written(row.days, seen.days, goal.days) :
        q = [state |-> row.state, enabled |-> row.enabled,
             limit |-> l, days |-> d, started |-> Start(row, seen, goal)]
  BY DEF WriteLimits
<1>2. Bytes(goal.quota) \in BOOLEAN /\ goal.days \in BOOLEAN
  BY DEF Goal, Bytes
<1>3. l = Bytes(goal.quota) /\ d = goal.days
  BY <1>2 DEF Written, Same
<1>4. q.limit = l /\ q.days = d /\ q.started = Start(row, seen, goal)
  BY <1>1
<1>5. Start(row, seen, goal) <=> ~ AskedNone(goal)
  BY DEF Start, Same, Row
<1>6. AskedNone(goal) => ~ Bytes(goal.quota) /\ ~ goal.days
  BY DEF AskedNone, Bytes
<1> QED BY <1>3, <1>4, <1>5, <1>6 DEF Unlimited

LEMMA ScopeStep ==
  Typed /\ Reading /\ ScopeAsAsked /\ [Next]_vars => ScopeAsAsked'
<1> SUFFICES ASSUME Typed, Reading, ScopeAsAsked, [Next]_vars PROVE ScopeAsAsked'
  OBVIOUS
<1>1. ASSUME NEW r \in Reps, CreateAdmin(r) PROVE ScopeAsAsked'
  <2>1. scope'[r] = asked'[r] /\ beside' = beside
    BY <1>1 DEF CreateAdmin, Typed
  <2>2. \A q \in Reps : q # r => admin'[q] = admin[q] /\ scope'[q] = scope[q] /\ asked'[q] = asked[q]
    BY <1>1 DEF CreateAdmin, Typed
  <2> QED BY <2>1, <2>2 DEF ScopeAsAsked, Present
<1>2. ASSUME NEW r \in Reps, DeleteAdmin(r) PROVE ScopeAsAsked'
  <2>1. admin'[r].state # "present" /\ UNCHANGED history
    BY <1>2 DEF DeleteAdmin, Absent, Typed
  <2>2. \A q \in Reps : q # r => admin'[q] = admin[q] /\ scope'[q] = scope[q]
    BY <1>2 DEF DeleteAdmin, Typed
  <2> QED BY <2>1, <2>2 DEF ScopeAsAsked, Present, history
<1>3. ASSUME NEW r \in Reps, SetEnabled(r) PROVE ScopeAsAsked'
  <2>1. admin[r].state = "present" /\ \A q \in Reps : q # r => admin'[q] = admin[q]
    BY <1>3 DEF SetEnabled, Present, Typed
  <2> QED BY <1>3, <2>1 DEF SetEnabled, ScopeAsAsked, Present, history
<1>4. ASSUME NEW h \in Handlers, CommitUpdate(h) PROVE ScopeAsAsked'
  <2>1. req[h] \in UpdateType /\ req[h].pc = "commit" /\ (Fails(h) \/ Succeeds(h))
    BY <1>4, Committing
  <2>2. CASE Fails(h)
    BY <2>2 DEF Fails, ScopeAsAsked, Present, history
  <2>3. CASE Succeeds(h)
    <3> DEFINE u == req[h]
               r == u.rep
    <3>1. r \in Reps /\ u.fields \in SUBSET {"scope", "limits"} /\ Reads(u, admin, scope)
      BY <2>1 DEF UpdateType, Fields, Reading
    <3>2. Present' = Present /\ r \in Present
      BY <2>1, <2>3, CommittedRow DEF Present, Succeeds
    <3>4. asked'[r] \subseteq scope'[r] /\ scope'[r] \subseteq asked'[r] \cup beside'[r]
      <4>1. CASE "scope" \in u.fields
        <5>1. scope'[r] = Remaining(h) \cup u.scope /\ asked'[r] = u.scope /\ beside'[r] = u.missed
          BY <2>3, <3>1, <4>1 DEF Succeeds, Typed
        <5>2. scope[r] \subseteq u.old \cup u.missed
          BY <2>1, <3>1, <4>1 DEF Reads
        <5> QED BY <5>1, <5>2 DEF Remaining
      <4>2. CASE "scope" \notin u.fields
        BY <2>3, <3>2, <4>2 DEF Succeeds, ScopeAsAsked
      <4> QED BY <4>1, <4>2
    <3>5. \A q \in Reps : q # r => scope'[q] = scope[q] /\ asked'[q] = asked[q] /\ beside'[q] = beside[q]
      BY <2>3 DEF Succeeds, Typed
    <3> QED BY <3>2, <3>4, <3>5 DEF ScopeAsAsked, Present
  <2> QED BY <2>1, <2>2, <2>3
<1>5. CASE UNCHANGED <<admin, scope, history>>
  BY <1>5 DEF ScopeAsAsked, Present, history
<1>6. ASSUME NEW r \in Reps, Expire(r) \/ ReachLimit(r) PROVE ScopeAsAsked'
  BY <1>5, <1>6 DEF Expire, ReachLimit
<1>7. ASSUME NEW c \in Ids, DeleteClient(c) PROVE ScopeAsAsked'
  BY <1>5, <1>7 DEF DeleteClient
<1>8. ASSUME NEW h \in Handlers,
             \/ \E by \in Reps \cup {None}, i \in Inbounds, a \in Address : Create(h, by, i, a)
             \/ \E r \in Reps, f \in Fields : Update(h, r, f)
             \/ Insert(h) \/ Scan(h) \/ DeleteScope(h) \/ RequestDies(h)
      PROVE  UNCHANGED <<admin, scope, history>>
  BY <1>8 DEF Create, Update, Insert, Scan, DeleteScope, RequestDies, table
<1>9. CASE UNCHANGED vars
  BY <1>5, <1>9 DEF vars, history
<1> QED BY <1>1, <1>2, <1>3, <1>4, <1>5, <1>6, <1>7, <1>8, <1>9 DEF Next, Quiet

LEMMA StartStep ==
  Typed /\ Reading /\ LimitsHaveStart /\ [Next]_vars => LimitsHaveStart'
<1> SUFFICES ASSUME Typed, Reading, LimitsHaveStart, [Next]_vars PROVE LimitsHaveStart'
  OBVIOUS
<1>1. ASSUME NEW r \in Reps, CreateAdmin(r) PROVE LimitsHaveStart'
  <2>1. PICK goal \in Goal, enabled \in BOOLEAN : admin' = [admin EXCEPT ![r] = NewAdmin(goal, enabled)]
    BY <1>1 DEF CreateAdmin
  <2>2. ~ Unlimited(admin'[r]) => admin'[r].started
    <3>1. admin'[r] = NewAdmin(goal, enabled)
      BY <2>1 DEF Typed
    <3> DEFINE row == NewAdmin(goal, enabled)
    <3>2. row.limit = Bytes(goal.quota) /\ row.days = goal.days /\ row.started = ~ AskedNone(goal)
      BY DEF NewAdmin
    <3>3. AskedNone(goal) => ~ Bytes(goal.quota) /\ ~ goal.days
      BY DEF AskedNone, Bytes
    <3> HIDE DEF row
    <3>4. ~ Unlimited(row) => row.started
      BY <3>2, <3>3 DEF Unlimited
    <3> QED BY <3>1, <3>4 DEF row
  <2>3. \A q \in Reps : q # r => admin'[q] = admin[q]
    BY <2>1 DEF Typed
  <2> QED BY <1>1, <2>2, <2>3 DEF CreateAdmin, LimitsHaveStart, Present
<1>2. ASSUME NEW r \in Reps, DeleteAdmin(r) PROVE LimitsHaveStart'
  <2>1. admin'[r].state # "present" /\ UNCHANGED history /\ \A q \in Reps : q # r => admin'[q] = admin[q]
    BY <1>2 DEF DeleteAdmin, Absent, Typed
  <2> QED BY <2>1 DEF LimitsHaveStart, Present, history
<1>3. ASSUME NEW r \in Reps, SetEnabled(r) PROVE LimitsHaveStart'
  <2>1. admin[r] \in Row /\ admin' = [admin EXCEPT ![r] = [admin[r] EXCEPT !.enabled = ~ admin[r].enabled]]
    BY <1>3 DEF SetEnabled, Typed
  <2> DEFINE row == [admin[r] EXCEPT !.enabled = ~ admin[r].enabled]
  <2>2. row.state = admin[r].state /\ Same(row, admin[r])
    BY <2>1 DEF Row, Same
  <2> HIDE DEF row
  <2>3. \A q \in Reps : admin'[q] = IF q = r THEN row ELSE admin[q]
    BY <2>1 DEF Typed, row
  <2> QED BY <1>3, <2>2, <2>3 DEF SetEnabled, LimitsHaveStart, Present, Unlimited, Same, history
<1>4. ASSUME NEW h \in Handlers, CommitUpdate(h) PROVE LimitsHaveStart'
  <2>1. req[h] \in UpdateType /\ (Fails(h) \/ Succeeds(h))
    BY <1>4, Committing
  <2>2. CASE Fails(h)
    BY <2>2 DEF Fails, LimitsHaveStart, Present, history
  <2>3. CASE Succeeds(h)
    <3> DEFINE u == req[h]
               r == u.rep
    <3>1. /\ r \in Reps /\ u.fields \in SUBSET {"scope", "limits"} /\ Reads(u, admin, scope)
          /\ u.seen \in LimitsType /\ u.goal \in Goal /\ admin[r] \in Row
      BY <2>1 DEF UpdateType, Fields, Reading, Typed
    <3>2. Present' = Present /\ r \in Present
      BY <2>1, <2>3, CommittedRow DEF Present, Succeeds
    <3>4. ASSUME ~ lifted'[r]
          PROVE  ~ Unlimited(admin'[r]) => admin'[r].started
      <4>1. CASE "limits" \in u.fields
        <5>1. PICK row \in WriteLimits(admin[r], u.seen, u.goal) : admin' = [admin EXCEPT ![r] = row]
          BY <2>3, <4>1 DEF Succeeds
        <5>2. ~ (u.stale # {} /\ "lifted" \in u.stale \cup {Did(u.goal)})
          BY <2>3, <3>1, <3>4, <4>1 DEF Succeeds, Typed
        <5>3. ~ Unlimited(row) => row.started
          <6>1. CASE u.stale = {}
            <7>1. Same(admin[r], u.seen)
              BY <3>1, <3>2, <4>1, <6>1 DEF Reads, Present
            <7> QED BY <3>1, <5>1, <7>1, CommittedLimits
          <6>2. CASE u.stale # {}
            <7>1. ~ AskedNone(u.goal) /\ "lifted" \notin u.stale
              BY <5>2, <6>2 DEF Did
            <7>2. u.seen.started => admin[r].started
              BY <3>1, <3>2, <4>1, <7>1 DEF Reads, Present
            <7> QED BY <3>1, <5>1, <7>1, <7>2, WrittenStart
          <6> QED BY <6>1, <6>2
        <5>4. admin'[r] = row
          BY <3>1, <5>1 DEF Typed
        <5> QED BY <5>3, <5>4
      <4>2. CASE "limits" \notin u.fields
        BY <2>3, <3>2, <3>4, <4>2 DEF Succeeds, LimitsHaveStart
      <4> QED BY <4>1, <4>2
    <3>5. \A q \in Reps : q # r => admin'[q] = admin[q] /\ lifted'[q] = lifted[q]
      BY <2>1, <2>3, CommittedRow DEF Succeeds, Typed
    <3> QED BY <3>2, <3>4, <3>5 DEF LimitsHaveStart, Present
  <2> QED BY <2>1, <2>2, <2>3
<1>5. CASE UNCHANGED <<admin, history>>
  BY <1>5 DEF LimitsHaveStart, Present, history
<1>6. ASSUME NEW r \in Reps, Expire(r) \/ ReachLimit(r) PROVE LimitsHaveStart'
  BY <1>5, <1>6 DEF Expire, ReachLimit
<1>7. ASSUME NEW c \in Ids, DeleteClient(c) PROVE LimitsHaveStart'
  BY <1>5, <1>7 DEF DeleteClient
<1>8. ASSUME NEW h \in Handlers,
             \/ \E by \in Reps \cup {None}, i \in Inbounds, a \in Address : Create(h, by, i, a)
             \/ \E r \in Reps, f \in Fields : Update(h, r, f)
             \/ Insert(h) \/ Scan(h) \/ DeleteScope(h) \/ RequestDies(h)
      PROVE  UNCHANGED <<admin, history>>
  BY <1>8 DEF Create, Update, Insert, Scan, DeleteScope, RequestDies, table
<1>9. CASE UNCHANGED vars
  BY <1>5, <1>9 DEF vars, history
<1> QED BY <1>1, <1>2, <1>3, <1>4, <1>5, <1>6, <1>7, <1>8, <1>9 DEF Next, Quiet

-----------------------------------------------------------------------------

(* The inductive invariant.                                                *)
Inv == Typed /\ Links /\ Held /\ Chosen /\ Reading

LEMMA InvInit == Init => Inv
<1>1. Init => Chosen /\ Reading
  BY DEF Init, Chosen, Reading, Idle
<1> QED BY <1>1, TypedInit, LinksInit DEF Inv

LEMMA InvStep == Inv /\ [Next]_vars => Inv'
BY TypedStep, LinksStep, HeldStep, ChosenStep, ReadingStep DEF Inv

(* The rows have their types; scopes and clients name representatives that *)
(* exist, whatever is deleted between a request's look-up and its commit,  *)
(* and a lock belongs to an update in progress (TypeOK).                   *)
THEOREM TypeCorrect == Spec => []TypeOK
<1>1. Inv => TypeOK
  BY DEF Inv, Typed, Links, Held, TypeOK, Verdict
<1> QED BY <1>1, InvInit, InvStep, PTL DEF Spec

(* Two clients of an inbound never have one address, and none has the      *)
(* server's, for any number of requests that look an address up, are       *)
(* allotted the first free one and insert it later (AddressesDistinct).    *)
THEOREM AddressesStayDistinct == Spec => []AddressesDistinct
<1>1. Init => AddressesDistinct
  BY DEF Init, AddressesDistinct, On
<1>2. Inv /\ AddressesDistinct /\ [Next]_vars => AddressesDistinct'
  BY AddressesStep DEF Inv
<1> QED BY <1>1, <1>2, InvInit, InvStep, PTL DEF Spec

(* A representative is allowed all the inbounds that the last update of    *)
(* its scope asked for, and no other but those of updates it overlapped,   *)
(* for any number of them and any order of their DELETEs and commits       *)
(* (ScopeAsAsked).                                                         *)
THEOREM ScopeIsAsAsked == Spec => []ScopeAsAsked
<1>1. Init => ScopeAsAsked
  BY DEF Init, ScopeAsAsked
<1>2. Inv /\ ScopeAsAsked /\ [Next]_vars => ScopeAsAsked'
  BY ScopeStep DEF Inv
<1> QED BY <1>1, <1>2, InvInit, InvStep, PTL DEF Spec

(* A representative with a limit or a duration has the day they count      *)
(* from, however many updates set, keep and lift them at the same time,    *)
(* unless the last of them overlapped another and one of the two lifted    *)
(* the limits (LimitsHaveStart).  A start alone says nothing: a quota below *)
(* half a byte leaves one without a limit.                                 *)
THEOREM LimitsAlwaysHaveStart == Spec => []LimitsHaveStart
<1>1. Init => LimitsHaveStart
  BY DEF Init, LimitsHaveStart, Present, Absent
<1>2. Inv /\ LimitsHaveStart /\ [Next]_vars => LimitsHaveStart'
  BY StartStep DEF Inv
<1> QED BY <1>1, <1>2, InvInit, InvStep, PTL DEF Spec
=============================================================================
