---------------------------- MODULE NodeAgentProofs ----------------------------
(***************************************************************************)
(* NodeAgent: its types for every number of threads, and, for one call at  *)
(* a time, that what an apply answered stays in force and that a revoked   *)
(* peer stays out.                                                         *)
(***************************************************************************)
EXTENDS NodeAgent, FiniteSetTheorems, TLAPS

-----------------------------------------------------------------------------
(* Handlers.                                                               *)

LEMMA PathSteps ==
  /\ DOMAIN Path = {"idle", "apply", "revoke", "remove"}
  /\ Path["idle"] = {"idle"}
  /\ Path["apply"] = {"backup", "open", "write", "replace", "look", "sync", "down", "up",
                      "persist", "restore", "rewrite", "unlink"}
  /\ Path["revoke"] = {"set", "read", "open", "write", "replace"}
  /\ Path["remove"] = {"disable", "takedown", "rmconf", "rmbak"}
BY DEF Path

Operation == {"idle", "apply", "revoke", "remove"}
Steps == Path["idle"] \cup Path["apply"] \cup Path["revoke"] \cup Path["remove"]
HandlerType ==
  {u \in [op : Operation, pc : Steps, arg : SUBSET Keys, by : {"api", "worker"},
          ino : Inodes \cup {None}, read : Content] : u.pc \in Path[u.op]}

LEMMA HandlerTypes ==
  ASSUME NEW u
  PROVE  u \in HandlerType <=> u \in SlotType /\ u.pc \in Path[u.op]
<1>1. DOMAIN Path = Operation
  BY PathSteps DEF Operation
<1>2. UNION {Path[x] : x \in Operation} = Steps
  BY DEF Operation, Steps
<1>3. \A o \in Operation : Path[o] \subseteq Steps
  BY DEF Operation, Steps
<1> QED BY <1>1, <1>2, <1>3 DEF HandlerType, SlotType

(* A step tells the call it is of.                                         *)
LEMMA StepOf ==
  ASSUME NEW u \in HandlerType
  PROVE  /\ u.pc = "idle" => u.op = "idle"
         /\ u.pc \in {"backup", "look", "sync", "down", "up", "persist", "restore", "rewrite", "unlink"}
              => u.op = "apply"
         /\ u.pc \in {"set", "read"} => u.op = "revoke"
         /\ u.pc \in {"open", "write", "replace"} => u.op \in {"apply", "revoke"}
         /\ u.pc \in Path["remove"] => u.op = "remove"
BY PathSteps DEF HandlerType, Operation

LEMMA IdleType == Idle \in HandlerType
<1>1. "idle" \in Path["idle"] /\ "idle" \in Steps
  BY PathSteps DEF Steps
<1> QED BY <1>1 DEF Idle, HandlerType, Operation, Content

-----------------------------------------------------------------------------
(* Types.                                                                  *)

Answer == [op : Operation, arg : SUBSET Keys, st : {"none", "ok", "error"}]
FilesType ==
  /\ conf \in Inodes \cup {None} /\ tmp \in Inodes \cup {None}
  /\ text \in [Inodes -> Content]
  /\ bak \in Content \cup {None}
NodeType == link \in (SUBSET Keys) \cup {None} /\ unit \in {"disabled", "enabled"}
SlotsType == slot \in [Slots -> HandlerType]
HistoryType == said \in Answer /\ revoked \subseteq Keys
BoundsType == desired \subseteq Keys /\ calls \in 0 .. MaxCalls /\ faults \in 0 .. MaxFaults
Typed == FilesType /\ NodeType /\ SlotsType /\ HistoryType /\ BoundsType

LEMMA TypedSuffices == Typed => TypeOK
<1> SUFFICES ASSUME Typed PROVE TypeOK
  OBVIOUS
<1>1. slot \in [Slots -> SlotType] /\ \A s \in Slots : slot[s].pc \in Path[slot[s].op]
  BY HandlerTypes DEF Typed, SlotsType
<1>2. said \in [op : DOMAIN Path, arg : SUBSET Keys, st : {"none", "ok", "error"}]
  BY PathSteps DEF Typed, HistoryType, Answer, Operation
<1> QED BY <1>1, <1>2 DEF Typed, FilesType, NodeType, HistoryType, BoundsType, TypeOK

LEMMA Faulting ==
  ASSUME BoundsType, Fault
  PROVE  faults' \in 0 .. MaxFaults
BY BoundAssumption DEF BoundsType, Fault

LEMMA Going ==
  ASSUME SlotsType, NEW s \in Slots, NEW pc, Goto(s, pc), pc \in Path[slot[s].op]
  PROVE  /\ SlotsType'
         /\ slot'[s] = [slot[s] EXCEPT !.pc = pc]
         /\ slot'[s].pc = pc /\ slot'[s].op = slot[s].op /\ slot'[s].arg = slot[s].arg
         /\ slot'[s].ino = slot[s].ino /\ slot'[s].read = slot[s].read
         /\ \A o \in Slots : o # s => slot'[o] = slot[o]
<1> DEFINE u == slot[s]
           v == [u EXCEPT !.pc = pc]
<1>1. u \in HandlerType /\ slot' = [slot EXCEPT ![s] = v]
  BY DEF Goto, SlotsType
<1>2. pc \in Steps
  BY <1>1 DEF HandlerType, Operation, Steps
<1>3. v \in HandlerType /\ v.pc = pc /\ v.op = u.op /\ v.arg = u.arg /\ v.ino = u.ino /\ v.read = u.read
  BY <1>1, <1>2 DEF HandlerType
<1> HIDE DEF v
<1> QED BY <1>1, <1>3 DEF SlotsType, v

LEMMA Finishing ==
  ASSUME SlotsType, HistoryType, NEW s \in Slots, NEW st \in {"ok", "error"}, Finish(s, st)
  PROVE  /\ SlotsType' /\ HistoryType'
         /\ slot'[s] = Idle /\ \A o \in Slots : o # s => slot'[o] = slot[o]
<1>1. slot[s].op \in Operation /\ slot[s].arg \in SUBSET Keys
  BY DEF SlotsType, HandlerType
<1>2. said' \in Answer /\ revoked' \subseteq Keys
  BY <1>1 DEF Finish, HistoryType, Answer
<1> QED BY <1>2, IdleType DEF Finish, SlotsType, HistoryType

LEMMA Accepting ==
  ASSUME Typed, NEW s \in Slots, NEW op \in {"apply", "revoke", "remove"}, NEW arg \in SUBSET Keys,
         NEW by \in {"api", "worker"}, Accept(s, op, arg, by)
  PROVE  /\ SlotsType' /\ HistoryType' /\ FilesType' /\ NodeType'
         /\ slot'[s].op = op /\ slot'[s].arg = arg
         /\ slot'[s].pc = CASE op = "apply" -> "backup" [] op = "revoke" -> "set" [] op = "remove" -> "disable"
         /\ \A o \in Slots : o # s => slot'[o] = slot[o]
<1> DEFINE u == [op |-> op, pc |-> FirstStep[op], arg |-> arg, by |-> by, ino |-> None, read |-> {}]
<1>1. slot' = [slot EXCEPT ![s] = u]
  BY DEF Accept
<1>2. FirstStep[op] = CASE op = "apply" -> "backup" [] op = "revoke" -> "set" [] op = "remove" -> "disable"
  BY DEF FirstStep
<1>3. u \in HandlerType
  <2>1. FirstStep[op] \in Path[op] /\ FirstStep[op] \in Steps
    BY <1>2, PathSteps DEF Steps
  <2> QED BY <2>1 DEF HandlerType, Operation, Content
<1>4. HistoryType'
  BY DEF Accept, Typed, HistoryType, NoAnswer, Answer, Operation
<1>5. FilesType' /\ NodeType'
  BY DEF Accept, Typed, FilesType, NodeType, files, node
<1> QED BY <1>1, <1>2, <1>3, <1>4, <1>5 DEF Typed, SlotsType

(* There is a file object for a new temporary or configuration.            *)
LEMMA FreeInodeType ==
  ASSUME Typed, conf = None \/ tmp = None
  PROVE  FreeInode \in Inodes
<1> DEFINE Held == {slot[s].ino : s \in Slots}
           f == [s \in Slots |-> slot[s].ino]
<1>1. IsFiniteSet(Held) /\ Cardinality(Held) =< Cardinality(Slots)
  <2>1. f \in Surjection(Slots, Held)
    BY DEF Surjection
  <2> QED BY <2>1, InodeAssumption, FS_Surjection
<1>2. PICK x : {conf, tmp} \ {None} \subseteq {x}
  OBVIOUS
<1>3. IsFiniteSet(Held \cup {x}) /\ Cardinality(Held \cup {x}) =< Cardinality(Slots) + 1
  <2>1. Cardinality(Held) \in Nat /\ Cardinality(Slots) \in Nat
    BY <1>1, FS_CardinalityType, InodeAssumption
  <2>2. IsFiniteSet(Held \cup {x})
        /\ Cardinality(Held \cup {x}) = IF x \in Held THEN Cardinality(Held) ELSE Cardinality(Held) + 1
    BY <1>1, FS_AddElement
  <2> HIDE DEF Held
  <2> QED BY <1>1, <2>1, <2>2
<1>4. ~ (Inodes \subseteq Held \cup {x})
  <2>1. SUFFICES ASSUME Inodes \subseteq Held \cup {x} PROVE FALSE
    OBVIOUS
  <2>2. Cardinality(Inodes) =< Cardinality(Held \cup {x})
    BY <1>3, <2>1, FS_Subset
  <2> QED BY <1>3, <2>2, InodeAssumption, FS_CardinalityType
<1>5. PICK i \in Inodes : i \notin Held \cup {x}
  BY <1>4
<1>6. i \notin {conf, tmp} /\ \A s \in Slots : slot[s].ino # i
  BY <1>2, <1>5, InodeAssumption
<1> QED BY <1>6 DEF FreeInode

(* The contents that a handler writes and the tools load.                  *)
LEMMA ConfTextType ==
  ASSUME FilesType
  PROVE  ConfText \in Content \cup {None} /\ (conf # None => ConfText = text[conf] /\ ConfText \in Content)
BY DEF FilesType, ConfText

LEMMA LoadableType ==
  ASSUME FilesType, NEW peers \in Loadable
  PROVE  peers \in SUBSET Keys /\ (ConfText \in SUBSET Keys => peers = ConfText)
<1>1. ConfText \in Content \cup {None}
  BY ConfTextType
<1> QED BY <1>1, ValueAssumption DEF Loadable, Content

LEMMA NewTextType ==
  ASSUME SlotsType, NEW s \in Slots
  PROVE  NewText(s) \in Content
<1>1. slot[s] \in HandlerType
  BY DEF SlotsType
<1>2. slot[s].arg \in SUBSET Keys /\ slot[s].read \in Content
  BY <1>1 DEF HandlerType
<1> QED BY <1>2 DEF NewText, Content

LEMMA AtBootType ==
  ASSUME FilesType
  PROVE  AtBoot \in (SUBSET Keys) \cup {None} /\ AtBoot \in {None, ConfText}
BY ConfTextType DEF AtBoot, Refusable, Content

(* What the steps do to their handler.                                     *)
LEMMA Raising ==
  ASSUME Typed, NEW s \in Slots, Raise(s), slot[s].pc \in {"write", "replace"}
  PROVE  /\ SlotsType' /\ HistoryType'
         /\ \/ slot[s].op = "apply" /\ Goto(s, "restore") /\ UNCHANGED history
            \/ slot[s].op = "revoke" /\ Finish(s, "error")
<1>1. slot[s] \in HandlerType
  BY DEF Typed, SlotsType
<1>2. CASE slot[s].op = "apply"
  <2>1. Goto(s, "restore") /\ UNCHANGED history /\ "restore" \in Path[slot[s].op]
    BY <1>2, PathSteps DEF Raise
  <2>2. SlotsType'
    BY <2>1, Going DEF Typed
  <2> QED BY <1>2, <2>1, <2>2 DEF Typed, HistoryType, history
<1>3. CASE slot[s].op # "apply"
  <2>1. Finish(s, "error") /\ slot[s].op = "revoke"
    BY <1>1, <1>3, StepOf DEF Raise
  <2> QED BY <2>1, Finishing DEF Typed
<1> QED BY <1>2, <1>3

LEMMA Opening ==
  ASSUME Typed, NEW s \in Slots, OpenTmp(s)
  PROVE  LET i == IF tmp = None THEN FreeInode ELSE tmp IN
         /\ i \in Inodes /\ tmp' = i /\ text' = [text EXCEPT ![i] = Torn]
         /\ slot'[s] \in HandlerType /\ slot'[s].pc = "write" /\ slot'[s].ino = i
         /\ slot'[s].op = slot[s].op /\ slot'[s].arg = slot[s].arg /\ slot'[s].read = slot[s].read
         /\ \A o \in Slots : o # s => slot'[o] = slot[o]
         /\ SlotsType'
<1> DEFINE i == IF tmp = None THEN FreeInode ELSE tmp
           u == slot[s]
           v == [u EXCEPT !.pc = "write", !.ino = i]
<1>1. i \in Inodes
  BY FreeInodeType DEF Typed, FilesType
<1>2. u \in HandlerType /\ u.op \in {"apply", "revoke"}
  BY StepOf DEF Typed, SlotsType, OpenTmp, At
<1>3. "write" \in Path[u.op] /\ "write" \in Steps
  BY <1>2, PathSteps DEF Steps
<1>4. tmp' = i /\ text' = [text EXCEPT ![i] = Torn] /\ slot' = [slot EXCEPT ![s] = v]
  BY DEF OpenTmp
<1> HIDE DEF i
<1>5. v \in HandlerType /\ v.pc = "write" /\ v.ino = i /\ v.op = u.op /\ v.arg = u.arg /\ v.read = u.read
  BY <1>1, <1>2, <1>3 DEF HandlerType
<1> HIDE DEF v
<1>6. slot'[s] = v /\ (\A o \in Slots : o # s => slot'[o] = slot[o]) /\ SlotsType'
  BY <1>4, <1>5 DEF Typed, SlotsType
<1> QED BY <1>1, <1>4, <1>5, <1>6 DEF i

LEMMA Restoring ==
  ASSUME Typed, NEW s \in Slots, Restore(s), bak # None
  PROVE  LET i == IF conf = None THEN FreeInode ELSE conf IN
         /\ i \in Inodes /\ conf' = i /\ text' = [text EXCEPT ![i] = Torn]
         /\ slot'[s] \in HandlerType /\ slot'[s].pc = "rewrite" /\ slot'[s].ino = i
         /\ slot'[s].op = slot[s].op /\ slot'[s].arg = slot[s].arg /\ slot'[s].read = bak
         /\ \A o \in Slots : o # s => slot'[o] = slot[o]
         /\ SlotsType'
<1> DEFINE i == IF conf = None THEN FreeInode ELSE conf
           u == slot[s]
           v == [u EXCEPT !.pc = "rewrite", !.ino = i, !.read = bak]
<1>1. i \in Inodes
  BY FreeInodeType DEF Typed, FilesType
<1>2. u \in HandlerType /\ u.op = "apply"
  BY StepOf DEF Typed, SlotsType, Restore, At
<1>3. "rewrite" \in Path[u.op] /\ "rewrite" \in Steps
  BY <1>2, PathSteps DEF Steps
<1>4. conf' = i /\ text' = [text EXCEPT ![i] = Torn] /\ slot' = [slot EXCEPT ![s] = v]
  BY DEF Restore, BackupExists
<1>5. bak \in Content
  BY DEF Typed, FilesType
<1> HIDE DEF i
<1>6. v \in HandlerType /\ v.pc = "rewrite" /\ v.ino = i /\ v.op = u.op /\ v.arg = u.arg /\ v.read = bak
  BY <1>1, <1>2, <1>3, <1>5 DEF HandlerType
<1> HIDE DEF v
<1>7. slot'[s] = v /\ (\A o \in Slots : o # s => slot'[o] = slot[o]) /\ SlotsType'
  BY <1>4, <1>6 DEF Typed, SlotsType
<1> QED BY <1>1, <1>4, <1>6, <1>7 DEF i

LEMMA Reading ==
  ASSUME Typed, NEW s \in Slots, ReadConf(s), conf # None
  PROVE  /\ slot'[s] \in HandlerType /\ slot'[s].pc = "open" /\ slot'[s].read = ConfText
         /\ slot'[s].op = slot[s].op /\ slot'[s].arg = slot[s].arg /\ slot'[s].ino = slot[s].ino
         /\ \A o \in Slots : o # s => slot'[o] = slot[o]
         /\ SlotsType'
<1> DEFINE u == slot[s]
           v == [u EXCEPT !.pc = "open", !.read = ConfText]
<1>1. u \in HandlerType /\ u.op = "revoke"
  BY StepOf DEF Typed, SlotsType, ReadConf, At
<1>2. "open" \in Path[u.op] /\ "open" \in Steps
  BY <1>1, PathSteps DEF Steps
<1>3. slot' = [slot EXCEPT ![s] = v]
  BY DEF ReadConf
<1>4. ConfText \in Content
  BY ConfTextType DEF Typed
<1>5. v \in HandlerType /\ v.pc = "open" /\ v.read = ConfText /\ v.op = u.op /\ v.arg = u.arg /\ v.ino = u.ino
  BY <1>1, <1>2, <1>4 DEF HandlerType
<1> HIDE DEF v
<1>6. slot'[s] = v /\ (\A o \in Slots : o # s => slot'[o] = slot[o]) /\ SlotsType'
  BY <1>3, <1>5 DEF Typed, SlotsType
<1> QED BY <1>5, <1>6

LEMMA InitType == Init => Typed
<1> SUFFICES ASSUME Init PROVE Typed
  OBVIOUS
<1>1. SlotsType
  BY IdleType DEF Init, SlotsType
<1>2. HistoryType
  BY DEF Init, HistoryType, NoAnswer, Answer, Operation
<1>3. FilesType /\ NodeType /\ BoundsType
  BY BoundAssumption DEF Init, FilesType, NodeType, BoundsType, Content
<1> QED BY <1>1, <1>2, <1>3 DEF Typed

(* What a handler leaves alone keeps its type.                             *)
LEMMA Untouched ==
  ASSUME Typed
  PROVE  /\ UNCHANGED files => FilesType'
         /\ UNCHANGED node => NodeType'
         /\ UNCHANGED slot => SlotsType'
         /\ UNCHANGED history => HistoryType'
         /\ UNCHANGED <<desired, calls>> /\ (UNCHANGED faults \/ Fault) => BoundsType'
<1>1. ASSUME UNCHANGED <<desired, calls>>, UNCHANGED faults \/ Fault
      PROVE  BoundsType'
  BY <1>1, Faulting DEF Typed, BoundsType
<1> QED BY <1>1 DEF Typed, FilesType, NodeType, SlotsType, HistoryType, files, node, history

LEMMA CallType ==
  ASSUME Typed, NEW s \in Slots, ApiCall(s) \/ WorkerCall(s)
  PROVE  Typed'
<1>1. PICK op \in {"apply", "revoke", "remove"}, arg \in SUBSET Keys, by \in {"api", "worker"} :
        Accept(s, op, arg, by)
  BY DEF ApiCall, WorkerCall, Typed, BoundsType
<1>2. BoundsType'
  <2>1. CASE ApiCall(s)
    BY <2>1, BoundAssumption DEF ApiCall, Counted, Typed, BoundsType
  <2>2. CASE WorkerCall(s)
    BY <2>2, Untouched DEF WorkerCall
  <2> QED BY <2>1, <2>2
<1> QED BY <1>1, <1>2, Accepting DEF Typed

LEMMA ApplyType ==
  ASSUME Typed, NEW s \in Slots, ApplyStep(s)
  PROVE  Typed'
<1>0. slot[s] \in HandlerType /\ FilesType /\ NodeType /\ SlotsType /\ HistoryType
  BY DEF Typed, SlotsType
<1>1. CASE Backup(s)
  <2>1. slot[s].op = "apply"
    BY <1>0, <1>1, StepOf DEF Backup, At
  <2>2. SlotsType'
    BY <1>0, <1>1, <2>1, Going, PathSteps DEF Backup
  <2>3. FilesType'
    BY <1>0, <1>1, ConfTextType DEF Backup, Saved, FilesType, Content
  <2> QED BY <1>1, <2>2, <2>3, Untouched DEF Backup, Typed
<1>2. CASE OpenTmp(s)
  <2>1. SlotsType' /\ \E i \in Inodes : tmp' = i /\ text' = [text EXCEPT ![i] = Torn]
    BY <1>2, Opening
  <2>2. FilesType'
    BY <1>0, <1>2, <2>1 DEF OpenTmp, FilesType, Content
  <2> QED BY <1>2, <2>1, <2>2, Untouched DEF OpenTmp, Typed
<1>3. CASE WriteTmp(s)
  <2>1. slot[s].op \in {"apply", "revoke"}
    BY <1>0, <1>3, StepOf DEF WriteTmp, At
  <2>2. CASE text' = [text EXCEPT ![slot[s].ino] = NewText(s)] /\ Goto(s, "replace") /\ UNCHANGED <<history, faults>>
    <3>1. SlotsType'
      BY <1>0, <2>1, <2>2, Going, PathSteps
    <3>2. FilesType'
      BY <1>0, <1>3, <2>2, NewTextType DEF WriteTmp, FilesType
    <3> QED BY <1>3, <2>2, <3>1, <3>2, Untouched DEF WriteTmp, Typed
  <2>3. CASE Fault /\ Raise(s) /\ UNCHANGED text
    BY <1>3, <2>3, Raising, Untouched DEF WriteTmp, Typed, At, files
  <2> QED BY <1>3, <2>2, <2>3 DEF WriteTmp
<1>4. CASE Replace(s)
  <2>1. slot[s].op \in {"apply", "revoke"}
    BY <1>0, <1>4, StepOf DEF Replace, At
  <2>2. CASE Raise(s) /\ UNCHANGED <<conf, tmp>>
    BY <1>4, <2>2, Raising, Untouched DEF Replace, Typed, At, files
  <2>3. CASE tmp # None /\ conf' = tmp /\ tmp' = None
    <3>1. FilesType'
      BY <1>0, <1>4, <2>3 DEF Replace, FilesType
    <3>2. CASE Goto(s, "look") /\ slot[s].op = "apply" /\ UNCHANGED history
      <4>1. SlotsType'
        BY <1>0, <3>2, Going, PathSteps
      <4> QED BY <1>4, <3>1, <3>2, <4>1, Untouched DEF Replace, Typed
    <3>3. CASE Finish(s, "ok")
      BY <1>0, <1>4, <3>1, <3>3, Finishing, Untouched DEF Replace, Typed
    <3> QED BY <1>4, <2>3, <3>2, <3>3 DEF Replace
  <2> QED BY <1>4, <2>2, <2>3 DEF Replace
<1>5. ASSUME slot[s].op = "apply", NEW pc \in {"sync", "down", "up", "persist", "restore"}, Goto(s, pc),
             UNCHANGED <<files, history, desired, calls>>, NodeType', UNCHANGED faults \/ Fault
      PROVE  Typed'
  <2>1. SlotsType'
    BY <1>0, <1>5, Going, PathSteps
  <2> QED BY <1>5, <2>1, Untouched DEF Typed
<1>6. ASSUME slot[s].pc \in {"look", "sync", "down", "up", "persist", "restore", "rewrite", "unlink"}
      PROVE  slot[s].op = "apply"
  BY <1>0, <1>6, StepOf
<1>7. CASE Look(s)
  <2>1. UNCHANGED <<files, history, desired, calls>> /\ NodeType'
    BY <1>7, Untouched DEF Look
  <2> QED BY <1>5, <1>6, <1>7, <2>1 DEF Look, At
<1>8. Loadable \subseteq SUBSET Keys
  BY <1>0, LoadableType
<1>9. CASE SyncConf(s)
  <2>1. UNCHANGED <<files, history, desired, calls>> /\ NodeType'
    BY <1>0, <1>8, <1>9 DEF SyncConf, NodeType, Synced
  <2> QED BY <1>5, <1>6, <1>9, <2>1 DEF SyncConf, At
<1>10. CASE TakeLinkDown(s)
  <2>1. UNCHANGED <<files, history, desired, calls>> /\ NodeType'
    BY <1>0, <1>10 DEF TakeLinkDown, NodeType
  <2> QED BY <1>5, <1>6, <1>10, <2>1 DEF TakeLinkDown, At
<1>11. CASE BringUp(s)
  <2>1. UNCHANGED <<files, history, desired, calls>> /\ NodeType'
    BY <1>0, <1>8, <1>11 DEF BringUp, NodeType
  <2> QED BY <1>5, <1>6, <1>11, <2>1 DEF BringUp, At
<1>12. CASE Persist(s)
  <2>1. UNCHANGED <<files, desired, calls>> /\ NodeType'
    BY <1>0, <1>12 DEF Persist, NodeType, Enabled
  <2>2. CASE Finish(s, "ok") /\ UNCHANGED faults
    BY <1>0, <2>1, <2>2, Finishing, Untouched DEF Typed
  <2>3. CASE Fault /\ Goto(s, "restore") /\ UNCHANGED history
    BY <1>5, <1>6, <1>12, <2>1, <2>3 DEF Persist, At
  <2> QED BY <1>12, <2>2, <2>3 DEF Persist
<1>13. CASE Restore(s)
  <2>1. CASE bak # None
    <3>1. SlotsType' /\ \E i \in Inodes : conf' = i /\ text' = [text EXCEPT ![i] = Torn]
      BY <1>13, <2>1, Restoring
    <3>2. FilesType'
      BY <1>0, <1>13, <3>1 DEF Restore, FilesType, Content
    <3> QED BY <1>13, <3>1, <3>2, Untouched DEF Restore, Typed
  <2>2. CASE bak = None
    <3>1. SlotsType'
      BY <1>0, <1>6, <1>13, <2>2, Going, PathSteps DEF Restore, BackupExists, At
    <3>2. FilesType'
      BY <1>0, <1>13, <2>2 DEF Restore, BackupExists, FilesType
    <3> QED BY <1>13, <3>1, <3>2, Untouched DEF Restore, Typed
  <2> QED BY <2>1, <2>2
<1>14. CASE Rewrite(s)
  <2>1. slot[s].read \in Content
    BY <1>0 DEF HandlerType
  <2>2. FilesType'
    BY <1>0, <1>14, <2>1 DEF Rewrite, FilesType
  <2>3. SlotsType'
    BY <1>0, <1>6, <1>14, Going, PathSteps DEF Rewrite, At
  <2> QED BY <1>14, <2>2, <2>3, Untouched DEF Rewrite, Typed
<1>15. CASE UnlinkTmp(s)
  <2>1. FilesType'
    BY <1>0, <1>15 DEF UnlinkTmp, FilesType
  <2>2. SlotsType' /\ HistoryType'
    BY <1>0, <1>15, Finishing DEF UnlinkTmp
  <2> QED BY <1>15, <2>1, <2>2, Untouched DEF UnlinkTmp, Typed
<1> QED BY <1>1, <1>2, <1>3, <1>4, <1>7, <1>9, <1>10, <1>11, <1>12, <1>13, <1>14, <1>15 DEF ApplyStep

LEMMA RevokeType ==
  ASSUME Typed, NEW s \in Slots, RevokeStep(s)
  PROVE  Typed'
<1>0. slot[s] \in HandlerType /\ FilesType /\ NodeType /\ SlotsType /\ HistoryType
  BY DEF Typed, SlotsType
<1>1. slot[s].op = "revoke"
  BY <1>0, StepOf DEF RevokeStep, SetPeer, ReadConf, At
<1>2. CASE SetPeer(s)
  <2>1. NodeType'
    <3>1. slot[s].arg \in SUBSET Keys
      BY <1>0 DEF HandlerType
    <3>2. link # None => link \ slot[s].arg \in SUBSET Keys
      BY <1>0, <3>1 DEF NodeType
    <3> QED BY <1>0, <1>2, <3>2 DEF SetPeer, NodeType
  <2>2. CASE Goto(s, "read") /\ UNCHANGED <<history, faults>>
    <3>1. SlotsType'
      BY <1>0, <1>1, <2>2, Going, PathSteps
    <3> QED BY <1>2, <2>1, <2>2, <3>1, Untouched DEF SetPeer, Typed
  <2>3. CASE Finish(s, "error") /\ (UNCHANGED faults \/ Fault)
    BY <1>0, <1>2, <2>1, <2>3, Finishing, Untouched DEF SetPeer, Typed
  <2> QED BY <1>2, <2>2, <2>3 DEF SetPeer
<1>3. CASE ReadConf(s)
  <2>1. CASE conf = None
    BY <1>0, <1>3, <2>1, Finishing, Untouched DEF ReadConf, Typed
  <2>2. CASE conf # None
    BY <1>3, <2>2, Reading, Untouched DEF ReadConf, Typed
  <2> QED BY <2>1, <2>2
<1> QED BY <1>2, <1>3 DEF RevokeStep

LEMMA RemoveType ==
  ASSUME Typed, NEW s \in Slots, RemoveStep(s)
  PROVE  Typed'
<1>0. slot[s] \in HandlerType /\ FilesType /\ NodeType /\ SlotsType /\ HistoryType
  BY DEF Typed, SlotsType
<1>1. slot[s].op = "remove"
  BY <1>0, StepOf, PathSteps DEF RemoveStep, DisableUnit, TakeDown, RemoveConf, RemoveBackup, At
<1>2. ASSUME NEW pc \in {"takedown", "rmconf", "rmbak"}, Goto(s, pc)
      PROVE  SlotsType'
  BY <1>0, <1>1, <1>2, Going, PathSteps
<1>3. DownWithFile \in {link, None}
  BY DEF DownWithFile
<1>4. CASE DisableUnit(s)
  <2>1. NodeType'
    BY <1>0, <1>3, <1>4 DEF DisableUnit, NodeType
  <2>2. CASE Goto(s, "takedown") /\ UNCHANGED history /\ (UNCHANGED faults \/ Fault)
    BY <1>2, <1>4, <2>1, <2>2, Untouched DEF DisableUnit, Typed
  <2>3. CASE Finish(s, "error") /\ Fault
    BY <1>0, <1>4, <2>1, <2>3, Finishing, Untouched DEF DisableUnit, Typed
  <2> QED BY <1>4, <2>2, <2>3 DEF DisableUnit
<1>5. CASE TakeDown(s)
  <2>1. NodeType'
    BY <1>0, <1>3, <1>5 DEF TakeDown, NodeType
  <2>2. CASE Goto(s, "rmconf") /\ UNCHANGED history /\ (UNCHANGED faults \/ Fault)
    BY <1>2, <1>5, <2>1, <2>2, Untouched DEF TakeDown, Typed
  <2>3. CASE Finish(s, "error") /\ Fault
    BY <1>0, <1>5, <2>1, <2>3, Finishing, Untouched DEF TakeDown, Typed
  <2> QED BY <1>5, <2>2, <2>3 DEF TakeDown
<1>6. CASE RemoveConf(s)
  <2>1. FilesType'
    BY <1>0, <1>6 DEF RemoveConf, FilesType
  <2> QED BY <1>2, <1>6, <2>1, Untouched DEF RemoveConf, Typed
<1>7. CASE RemoveBackup(s)
  <2>1. FilesType'
    BY <1>0, <1>7 DEF RemoveBackup, FilesType
  <2> QED BY <1>0, <1>7, <2>1, Finishing, Untouched DEF RemoveBackup, Typed
<1> QED BY <1>4, <1>5, <1>6, <1>7 DEF RemoveStep

LEMMA NextType == Typed /\ [Next]_vars => Typed'
<1> SUFFICES ASSUME Typed, [Next]_vars PROVE Typed'
  OBVIOUS
<1>1. CASE Change
  <2>1. BoundsType'
    BY <1>1, BoundAssumption DEF Change, Counted, Typed, BoundsType
  <2> QED BY <1>1, <2>1, Untouched DEF Change, Typed
<1>2. ASSUME slot' = [s \in Slots |-> Idle]
      PROVE  SlotsType'
  BY <1>2, IdleType DEF SlotsType
<1>3. CASE Crash
  BY <1>2, <1>3, Untouched DEF Crash, Typed
<1>4. CASE Reboot
  <2>1. NodeType'
    BY <1>4, AtBootType DEF Reboot, Typed, NodeType
  <2> QED BY <1>2, <1>4, <2>1, Untouched DEF Reboot, Typed
<1>5. CASE UNCHANGED vars
  BY <1>5, Untouched DEF vars, Typed, files, node, history
<1> QED BY <1>1, <1>3, <1>4, <1>5, CallType, ApplyType, RevokeType, RemoveType DEF Next, Step

(* The variables of NodeAgent have their types, and every handler stays on *)
(* its own path, for any number of threads that share the temporary and    *)
(* the backup, and whatever fails, dies or reboots (TypeOK).               *)
THEOREM TypeCorrect == Spec => []TypeOK
BY InitType, NextType, TypedSuffices, PTL DEF Spec

-----------------------------------------------------------------------------
(* One call at a time: s is the only thread.                               *)

(* The temporary is the file that the handler opened, with what it wrote.  *)
Temporary(s) ==
  /\ At(s, "write") => tmp # None /\ tmp = slot[s].ino
  /\ At(s, "replace") => tmp # None /\ text[tmp] = NewText(s)

(* The configuration an apply has put in place is there until it answers,  *)
(* and the one it answered for is there until the next call.               *)
InForce(s) ==
  /\ said.st # "none" => slot[s] = Idle
  /\ Answered("apply", "ok") => link = said.arg /\ unit = "enabled" /\ ConfText = said.arg
  /\ slot[s].pc \in {"look", "sync", "down", "up", "persist"} => ConfText = slot[s].arg
  /\ At(s, "persist") => link = slot[s].arg

(* Nothing that can still reach the interface has a revoked peer: not the  *)
(* configuration, not the backup an apply will restore, not what a handler *)
(* has read; a backup that an apply finds may, but for a Leftover one.     *)
Avoids(x, peers) == x \notin {None, Torn} => peers \cap x = {}
KeptOut(s) ==
  /\ Avoids(link, revoked) /\ Avoids(ConfText, revoked)
  /\ Leftover => revoked = {}
  /\ slot[s].op = "remove" => revoked = {}
  /\ slot[s].op = "apply" =>
       /\ Avoids(slot[s].arg, revoked)
       /\ ~ At(s, "backup") => Avoids(bak, revoked)
       /\ At(s, "rewrite") => Avoids(slot[s].read, revoked)
  /\ slot[s].op = "revoke" =>
       /\ ~ At(s, "set") => Avoids(link, slot[s].arg)
       /\ slot[s].pc \in {"open", "write", "replace"} => Avoids(slot[s].read, revoked)

Serial(s) == Temporary(s) /\ InForce(s) /\ KeptOut(s)

LEMMA Avoiding ==
  ASSUME NEW x, NEW peers, NEW fewer, Avoids(x, peers), fewer \subseteq peers
  PROVE  Avoids(x, fewer)
BY DEF Avoids

LEMMA LoadableAvoids ==
  ASSUME FilesType, Avoids(ConfText, revoked), NEW peers \in Loadable
  PROVE  Avoids(peers, revoked)
BY DEF Loadable, Avoids

LEMMA NewTextAvoids ==
  ASSUME NEW s, slot[s] \in HandlerType,
         \/ slot[s].op = "apply" /\ Avoids(slot[s].arg, revoked)
         \/ slot[s].op = "revoke" /\ Avoids(slot[s].read, revoked)
  PROVE  /\ Avoids(NewText(s), revoked)
         /\ slot[s].op = "revoke" => Avoids(NewText(s), revoked \cup slot[s].arg)
<1>1. CASE slot[s].op = "apply"
  BY <1>1 DEF NewText
<1>2. CASE slot[s].op = "revoke" /\ slot[s].read = Torn
  BY <1>2 DEF NewText, Avoids
<1>3. CASE slot[s].op = "revoke" /\ slot[s].read # Torn
  <2>1. slot[s].read # None
    BY ValueAssumption DEF HandlerType, Content
  <2>2. revoked \cap slot[s].read = {}
    BY <1>3, <2>1 DEF Avoids
  <2>3. NewText(s) = slot[s].read \ slot[s].arg
    BY <1>3 DEF NewText
  <2> QED BY <2>2, <2>3 DEF Avoids
<1> QED BY <1>1, <1>2, <1>3

(* The end of a handler: what it leaves.                                   *)
LEMMA Ends ==
  ASSUME NEW s, slot'[s] = Idle,
         Answered("apply", "ok")' => link' = said'.arg /\ unit' = "enabled" /\ ConfText' = said'.arg,
         Avoids(link', revoked'), Avoids(ConfText', revoked'), Leftover' => revoked' = {}
  PROVE  Serial(s)'
BY DEF Idle, Serial, Temporary, InForce, KeptOut, At

(* An answer other than a successful apply's or revocation's.              *)
LEMMA EndsOtherwise ==
  ASSUME NEW s \in Slots, SlotsType, HistoryType, NEW st \in {"ok", "error"}, Finish(s, st),
         st = "ok" => slot[s].op = "remove",
         Avoids(link', revoked), Avoids(ConfText', revoked), Leftover' => revoked = {}
  PROVE  Serial(s)'
<1>1. slot'[s] = Idle
  BY Finishing
<1>2. revoked' = revoked /\ ~ Answered("apply", "ok")'
  BY DEF Finish, Answered
<1> QED BY <1>1, <1>2, Ends

(* A handler that goes on has not answered.                                *)
LEMMA GoesOn ==
  ASSUME NEW s, slot[s].pc # "idle", Serial(s), UNCHANGED history,
         slot'[s].op = slot[s].op, slot'[s].arg = slot[s].arg,
         Temporary(s)',
         slot'[s].pc \in {"look", "sync", "down", "up", "persist"} => ConfText' = slot[s].arg,
         slot'[s].pc = "persist" => link' = slot[s].arg,
         Avoids(link', revoked), Avoids(ConfText', revoked), Leftover' => revoked = {},
         slot[s].op = "apply" =>
           /\ slot'[s].pc # "backup" => Avoids(bak', revoked)
           /\ slot'[s].pc = "rewrite" => Avoids(slot'[s].read, revoked),
         slot[s].op = "revoke" =>
           /\ slot'[s].pc # "set" => Avoids(link', slot[s].arg)
           /\ slot'[s].pc \in {"open", "write", "replace"} => Avoids(slot'[s].read, revoked)
  PROVE  Serial(s)'
<1>1. said.st = "none" /\ said' = said /\ revoked' = revoked
  BY DEF Serial, InForce, Idle, history
<1>2. InForce(s)'
  BY <1>1 DEF InForce, At, Answered
<1>3. KeptOut(s)'
  BY <1>1 DEF Serial, KeptOut, At
<1> QED BY <1>2, <1>3 DEF Serial

LEMMA SerialApply ==
  ASSUME NEW s, Slots = {s}, Typed, Serial(s), ApplyStep(s)
  PROVE  Serial(s)'
<1>0. /\ s \in Slots /\ slot[s] \in HandlerType /\ FilesType /\ NodeType /\ SlotsType /\ HistoryType
      /\ Temporary(s) /\ InForce(s) /\ KeptOut(s)
  BY DEF Typed, SlotsType, Serial
<1>1. CASE Backup(s)
  <2>1. slot[s].op = "apply" /\ slot[s].pc = "backup"
    BY <1>0, <1>1, StepOf DEF Backup, At
  <2>2. PICK pc \in {"open", "restore"} : Goto(s, pc)
    BY <1>1 DEF Backup
  <2>3. slot'[s].pc = pc /\ slot'[s].op = slot[s].op /\ slot'[s].arg = slot[s].arg
    BY <1>0, <2>1, <2>2, Going, PathSteps
  <2>4. UNCHANGED <<conf, link, ConfText, history>> /\ bak' \in {Saved, Torn}
    BY <1>1 DEF Backup, ConfText, node
  <2>5. conf = None => bak' = bak
    BY <1>1 DEF Backup, Saved
  <2>6. Avoids(bak', revoked)
    BY <1>0, <2>4, <2>5 DEF Saved, KeptOut, Leftover, Avoids
  <2>7. Leftover' => revoked = {}
    BY <1>0, <2>4, <2>5 DEF KeptOut, Leftover
  <2> QED BY <1>0, <2>1, <2>3, <2>4, <2>6, <2>7, GoesOn DEF Temporary, KeptOut, At
<1>2. CASE OpenTmp(s)
  <2>1. PICK i \in Inodes :
          /\ tmp' = i /\ text' = [text EXCEPT ![i] = Torn]
          /\ slot'[s].pc = "write" /\ slot'[s].ino = i
          /\ slot'[s].op = slot[s].op /\ slot'[s].arg = slot[s].arg /\ slot'[s].read = slot[s].read
    BY <1>0, <1>2, Opening
  <2>2. UNCHANGED <<conf, bak, link, history>> /\ slot[s].pc = "open"
    BY <1>2 DEF OpenTmp, At, node
  <2>3. ConfText' \in {ConfText, Torn}
    BY <1>0, <2>1, <2>2 DEF ConfText, FilesType
  <2>4. Avoids(ConfText', revoked)
    BY <1>0, <2>3 DEF KeptOut, Avoids
  <2>5. Temporary(s)'
    BY <2>1, InodeAssumption DEF Temporary, At
  <2> QED BY <1>0, <2>1, <2>2, <2>4, <2>5, GoesOn DEF KeptOut, Leftover, At
<1>3. CASE WriteTmp(s)
  <2>1. slot[s].op \in {"apply", "revoke"} /\ slot[s].pc = "write" /\ UNCHANGED <<conf, tmp, bak, link>>
    BY <1>0, <1>3, StepOf DEF WriteTmp, At, node
  <2>2. CASE text' = [text EXCEPT ![slot[s].ino] = NewText(s)] /\ Goto(s, "replace") /\ UNCHANGED <<history, faults>>
    <3>1. /\ slot'[s].pc = "replace" /\ slot'[s].op = slot[s].op /\ slot'[s].arg = slot[s].arg
          /\ slot'[s].read = slot[s].read
      BY <1>0, <2>1, <2>2, Going, PathSteps
    <3>2. tmp # None /\ tmp = slot[s].ino /\ tmp \in Inodes
      BY <1>0, <2>1 DEF Temporary, At, FilesType
    <3>3. text'[tmp'] = NewText(s) /\ NewText(s)' = NewText(s)
      BY <1>0, <2>1, <2>2, <3>1, <3>2 DEF FilesType, NewText
    <3>4. Temporary(s)'
      BY <2>1, <3>1, <3>2, <3>3 DEF Temporary, At
    <3>5. Avoids(NewText(s), revoked)
      BY <1>0, <2>1, NewTextAvoids DEF KeptOut
    <3>6. ConfText' \in {ConfText, NewText(s)}
      BY <1>0, <2>1, <2>2 DEF ConfText, FilesType
    <3>7. Avoids(ConfText', revoked)
      BY <1>0, <3>5, <3>6 DEF KeptOut
    <3> QED BY <1>0, <2>1, <2>2, <3>1, <3>4, <3>7, GoesOn DEF KeptOut, Leftover, At
  <2>3. CASE Fault /\ Raise(s) /\ UNCHANGED text
    <3>1. UNCHANGED ConfText
      BY <2>1, <2>3 DEF ConfText
    <3>2. CASE slot[s].op = "apply" /\ Goto(s, "restore") /\ UNCHANGED history
      <4>1. slot'[s].pc = "restore" /\ slot'[s].op = slot[s].op /\ slot'[s].arg = slot[s].arg
        BY <1>0, <3>2, Going, PathSteps
      <4> QED BY <1>0, <2>1, <3>1, <3>2, <4>1, GoesOn DEF Temporary, KeptOut, Leftover, At
    <3>3. CASE slot[s].op = "revoke" /\ Finish(s, "error")
      BY <1>0, <2>1, <3>1, <3>3, EndsOtherwise DEF KeptOut, Leftover
    <3> QED BY <1>0, <2>1, <2>3, <3>2, <3>3, Raising
  <2> QED BY <1>3, <2>2, <2>3 DEF WriteTmp
<1>4. CASE Replace(s)
  <2>1. /\ slot[s].op \in {"apply", "revoke"} /\ slot[s].pc = "replace"
        /\ UNCHANGED <<text, bak, link>> /\ tmp # None /\ tmp \in Inodes /\ text[tmp] = NewText(s)
    BY <1>0, <1>4, StepOf DEF Replace, At, node, Temporary, FilesType
  <2>2. ConfText' = NewText(s) /\ ~ Leftover'
    BY <1>4, <2>1, InodeAssumption DEF Replace, ConfText, Leftover
  <2>3. CASE slot[s].op = "apply"
    <3>1. Goto(s, "look") /\ UNCHANGED history
      BY <1>4, <2>1, <2>3 DEF Replace
    <3>2. slot'[s].pc = "look" /\ slot'[s].op = slot[s].op /\ slot'[s].arg = slot[s].arg
      BY <1>0, <2>3, <3>1, Going, PathSteps
    <3>3. NewText(s) = slot[s].arg
      BY <2>3 DEF NewText
    <3> QED BY <1>0, <2>1, <2>2, <2>3, <3>1, <3>2, <3>3, GoesOn DEF Temporary, KeptOut, At
  <2>4. CASE slot[s].op = "revoke"
    <3>1. Finish(s, "ok") /\ slot'[s] = Idle
      BY <1>0, <1>4, <2>1, <2>4, Finishing DEF Replace
    <3>2. ~ Answered("apply", "ok")' /\ revoked' \subseteq revoked \cup slot[s].arg
      BY <2>4, <3>1 DEF Finish, Answered
    <3>3. Avoids(link, revoked \cup slot[s].arg)
      BY <1>0, <2>1, <2>4 DEF KeptOut, Avoids, At
    <3>4. Avoids(NewText(s), revoked \cup slot[s].arg)
      BY <1>0, <2>1, <2>4, NewTextAvoids DEF KeptOut
    <3>5. Avoids(link', revoked') /\ Avoids(ConfText', revoked')
      BY <2>1, <2>2, <3>2, <3>3, <3>4, Avoiding
    <3> QED BY <2>2, <3>1, <3>2, <3>5, Ends
  <2> QED BY <2>1, <2>3, <2>4
<1>5. ASSUME NEW pc \in {"sync", "down", "up", "persist", "restore", "unlink"}, Goto(s, pc),
             slot[s].op = "apply", slot[s].pc # "idle", slot[s].pc # "backup", UNCHANGED <<conf, bak, history>>,
             Avoids(link', revoked), Avoids(ConfText', revoked),
             pc \notin {"restore", "unlink"} => ConfText' = slot[s].arg,
             pc = "persist" => link' = slot[s].arg
      PROVE  Serial(s)'
  <2>1. slot'[s].pc = pc /\ slot'[s].op = slot[s].op /\ slot'[s].arg = slot[s].arg
    BY <1>0, <1>5, Going, PathSteps
  <2>2. Temporary(s)'
    BY <2>1 DEF Temporary, At
  <2>3. Avoids(bak', revoked)
    BY <1>0, <1>5 DEF KeptOut, At
  <2>4. Leftover' => revoked = {}
    BY <1>0, <1>5 DEF KeptOut, Leftover
  <2>5. /\ slot'[s].pc \in {"look", "sync", "down", "up", "persist"} => ConfText' = slot[s].arg
        /\ slot'[s].pc = "persist" => link' = slot[s].arg
    BY <1>5, <2>1
  <2> QED BY <1>5, <2>1, <2>2, <2>3, <2>4, <2>5, GoesOn
<1>6. ASSUME slot[s].pc \in {"look", "sync", "down", "up", "persist", "restore", "rewrite", "unlink"}
      PROVE  slot[s].op = "apply" /\ slot[s].pc # "idle" /\ slot[s].pc # "backup"
  BY <1>0, <1>6, StepOf
<1>7. Avoids(link, revoked) /\ Avoids(ConfText, revoked) /\ Avoids(None, revoked)
      /\ (UNCHANGED files => UNCHANGED <<conf, bak, ConfText>>)
      /\ \A peers \in Loadable : Avoids(peers, revoked)
  BY <1>0, LoadableAvoids DEF KeptOut, Avoids, ConfText, files
<1>8. ASSUME slot[s].pc \in {"look", "sync", "down", "up", "persist"}
      PROVE  ConfText = slot[s].arg /\ \A peers \in Loadable : peers = slot[s].arg
  <2>1. ConfText = slot[s].arg /\ slot[s].arg \in SUBSET Keys
    BY <1>0, <1>8 DEF InForce, HandlerType
  <2> QED BY <1>0, <2>1, LoadableType
<1>9. CASE Look(s)
  <2>1. PICK pc \in {"sync", "down", "up", "restore"} : Goto(s, pc)
    BY <1>9 DEF Look
  <2>2. UNCHANGED <<files, link, history>> /\ slot[s].pc = "look"
    BY <1>9 DEF Look, At, node
  <2> QED BY <1>5, <1>6, <1>7, <1>8, <2>1, <2>2
<1>10. CASE SyncConf(s)
  <2>1. slot[s].pc = "sync" /\ UNCHANGED <<files, history>>
    BY <1>10 DEF SyncConf, At
  <2>2. Avoids(link', revoked)
    BY <1>7, <1>10 DEF SyncConf, Synced
  <2>3. PICK pc \in {"persist", "down", "restore"} : Goto(s, pc) /\ (pc = "persist" => link' \in Loadable)
    BY <1>10 DEF SyncConf, Synced
  <2> QED BY <1>5, <1>6, <1>7, <1>8, <2>1, <2>2, <2>3
<1>11. CASE TakeLinkDown(s)
  <2>1. slot[s].pc = "down" /\ UNCHANGED <<files, history>>
    BY <1>11 DEF TakeLinkDown, At
  <2>2. Avoids(link', revoked)
    BY <1>7, <1>11 DEF TakeLinkDown
  <2>3. PICK pc \in {"up", "restore"} : Goto(s, pc)
    BY <1>11 DEF TakeLinkDown
  <2> QED BY <1>5, <1>6, <1>7, <1>8, <2>1, <2>2, <2>3
<1>12. CASE BringUp(s)
  <2>1. slot[s].pc = "up" /\ UNCHANGED <<files, history>>
    BY <1>12 DEF BringUp, At
  <2>2. Avoids(link', revoked)
    BY <1>7, <1>12 DEF BringUp
  <2>3. PICK pc \in {"persist", "restore"} : Goto(s, pc) /\ (pc = "persist" => link' \in Loadable)
    BY <1>12 DEF BringUp
  <2> QED BY <1>5, <1>6, <1>7, <1>8, <2>1, <2>2, <2>3
<1>13. CASE Persist(s)
  <2>1. slot[s].pc = "persist" /\ UNCHANGED <<files, link>>
    BY <1>13 DEF Persist, At
  <2>2. CASE unit' = Enabled /\ Finish(s, "ok")
    <3>1. slot'[s] = Idle /\ said'.arg = slot[s].arg /\ revoked' = revoked
      BY <1>0, <1>6, <2>1, <2>2, Finishing DEF Finish
    <3>2. link' = slot[s].arg /\ ConfText' = slot[s].arg /\ unit' = "enabled"
      BY <1>0, <1>7, <1>8, <2>1, <2>2 DEF InForce, At, Enabled
    <3>3. Leftover' => revoked = {}
      BY <1>0, <1>7, <2>1 DEF KeptOut, Leftover
    <3> QED BY <1>7, <2>1, <3>1, <3>2, <3>3, Ends
  <2>3. CASE Goto(s, "restore") /\ UNCHANGED history
    BY <1>5, <1>6, <1>7, <2>1, <2>3
  <2> QED BY <1>13, <2>2, <2>3 DEF Persist
<1>14. CASE Restore(s)
  <2>1. slot[s].pc = "restore" /\ UNCHANGED <<bak, link, history>> /\ Avoids(bak, revoked)
    BY <1>0, <1>6, <1>14 DEF Restore, At, node, KeptOut
  <2>2. CASE bak # None
    <3>1. PICK i \in Inodes :
            /\ conf' = i /\ text' = [text EXCEPT ![i] = Torn]
            /\ slot'[s].pc = "rewrite" /\ slot'[s].read = bak
            /\ slot'[s].op = slot[s].op /\ slot'[s].arg = slot[s].arg
      BY <1>0, <1>14, <2>2, Restoring
    <3>2. ConfText' = Torn /\ ~ Leftover'
      BY <1>0, <3>1, InodeAssumption DEF ConfText, Leftover, FilesType
    <3>3. Avoids(ConfText', revoked)
      BY <3>2 DEF Avoids
    <3>4. Temporary(s)'
      BY <3>1 DEF Temporary, At
    <3> QED BY <1>6, <1>7, <2>1, <3>1, <3>2, <3>3, <3>4, GoesOn
  <2>3. CASE bak = None
    <3>1. Goto(s, "unlink") /\ conf' = None
      BY <1>14, <2>3 DEF Restore, BackupExists
    <3>2. slot'[s].pc = "unlink" /\ slot'[s].op = slot[s].op /\ slot'[s].arg = slot[s].arg
      BY <1>0, <1>6, <2>1, <3>1, Going, PathSteps
    <3>3. Avoids(ConfText', revoked) /\ ~ Leftover'
      BY <2>1, <2>3, <3>1 DEF ConfText, Avoids, Leftover
    <3>4. Temporary(s)'
      BY <3>2 DEF Temporary, At
    <3> QED BY <1>6, <1>7, <2>1, <3>2, <3>3, <3>4, GoesOn
  <2> QED BY <2>2, <2>3
<1>15. CASE Rewrite(s)
  <2>1. slot[s].pc = "rewrite" /\ UNCHANGED <<conf, bak, link, history>> /\ Avoids(slot[s].read, revoked)
    BY <1>0, <1>6, <1>15 DEF Rewrite, At, node, KeptOut
  <2>2. ConfText' \in {ConfText, slot[s].read}
    BY <1>0, <1>15, <2>1 DEF Rewrite, ConfText, FilesType
  <2>3. Avoids(ConfText', revoked)
    BY <1>7, <2>1, <2>2
  <2>4. Goto(s, "unlink")
    BY <1>15 DEF Rewrite
  <2> QED BY <1>5, <1>6, <1>7, <2>1, <2>3, <2>4
<1>16. CASE UnlinkTmp(s)
  <2>1. slot[s].op = "apply" /\ Finish(s, "error") /\ UNCHANGED <<conf, text, bak, link>>
    BY <1>6, <1>16 DEF UnlinkTmp, At, node
  <2>2. UNCHANGED ConfText
    BY <2>1 DEF ConfText
  <2>3. Leftover' => revoked = {}
    BY <1>0, <2>1 DEF KeptOut, Leftover
  <2> QED BY <1>0, <1>7, <2>1, <2>2, <2>3, EndsOtherwise
<1> QED BY <1>1, <1>2, <1>3, <1>4, <1>9, <1>10, <1>11, <1>12, <1>13, <1>14, <1>15, <1>16 DEF ApplyStep

LEMMA SerialRevoke ==
  ASSUME NEW s, Slots = {s}, Typed, Serial(s), RevokeStep(s)
  PROVE  Serial(s)'
<1>0. /\ s \in Slots /\ slot[s] \in HandlerType /\ FilesType /\ SlotsType /\ HistoryType
      /\ Temporary(s) /\ InForce(s) /\ KeptOut(s)
  BY DEF Typed, SlotsType, Serial
<1>1. slot[s].op = "revoke" /\ slot[s].pc \in {"set", "read"} /\ UNCHANGED <<conf, bak, ConfText>>
  BY <1>0, StepOf DEF RevokeStep, SetPeer, ReadConf, At, ConfText, files
<1>2. Avoids(ConfText', revoked) /\ (Leftover' => revoked = {})
  BY <1>0, <1>1 DEF KeptOut, Leftover
<1>3. CASE SetPeer(s)
  <2>1. slot[s].pc = "set" /\ link' \in {link, link \ slot[s].arg} /\ (link = None => link' = None)
    BY <1>3 DEF SetPeer, At
  <2>2. Avoids(link', revoked)
    <3>1. link = None \/ revoked \cap link = {}
      BY <1>0, ValueAssumption DEF KeptOut, Avoids, Typed, NodeType
    <3> QED BY <2>1, <3>1 DEF Avoids
  <2>3. CASE link # None /\ link' = link \ slot[s].arg /\ Goto(s, "read") /\ UNCHANGED history
    <3>1. slot'[s].pc = "read" /\ slot'[s].op = slot[s].op /\ slot'[s].arg = slot[s].arg
      BY <1>0, <1>1, <2>3, Going, PathSteps
    <3>2. Avoids(link', slot[s].arg)
      BY <2>3 DEF Avoids
    <3>3. Temporary(s)'
      BY <3>1 DEF Temporary, At
    <3> QED BY <1>0, <1>1, <1>2, <2>1, <2>2, <2>3, <3>1, <3>2, <3>3, GoesOn
  <2>4. CASE Finish(s, "error")
    BY <1>0, <1>2, <2>2, <2>4, EndsOtherwise
  <2> QED BY <1>3, <2>3, <2>4 DEF SetPeer
<1>4. CASE ReadConf(s)
  <2>1. slot[s].pc = "read" /\ UNCHANGED link /\ Avoids(link, revoked) /\ Avoids(link, slot[s].arg)
    BY <1>0, <1>1, <1>4 DEF ReadConf, At, node, KeptOut
  <2>2. CASE conf = None
    <3>1. Finish(s, "ok") /\ slot'[s] = Idle
      BY <1>0, <1>4, <2>2, Finishing DEF ReadConf
    <3>2. /\ ~ Answered("apply", "ok")' /\ revoked' \subseteq revoked \cup slot[s].arg
          /\ Leftover => revoked' = revoked
      BY <1>1, <3>1 DEF Finish, Answered
    <3>3. Avoids(link, revoked \cup slot[s].arg)
      BY <2>1 DEF Avoids
    <3>4. Avoids(link', revoked') /\ Avoids(ConfText', revoked') /\ (Leftover' => revoked' = {})
      BY <1>1, <1>2, <2>1, <2>2, <3>2, <3>3, Avoiding DEF Leftover, Avoids, ConfText
    <3> QED BY <3>1, <3>2, <3>4, Ends
  <2>3. CASE conf # None
    <3>1. /\ slot'[s].pc = "open" /\ slot'[s].read = ConfText
          /\ slot'[s].op = slot[s].op /\ slot'[s].arg = slot[s].arg
      BY <1>0, <1>4, <2>3, Reading
    <3>2. UNCHANGED history
      BY <1>4, <2>3 DEF ReadConf
    <3>3. Temporary(s)'
      BY <3>1 DEF Temporary, At
    <3>4. Avoids(slot'[s].read, revoked)
      BY <1>0, <3>1 DEF KeptOut
    <3> QED BY <1>0, <1>1, <1>2, <2>1, <3>1, <3>2, <3>3, <3>4, GoesOn
  <2> QED BY <2>2, <2>3
<1> QED BY <1>3, <1>4 DEF RevokeStep

(* A removal starts by forgetting the peers it revokes.                    *)
LEMMA SerialRemove ==
  ASSUME NEW s, Slots = {s}, Typed, Serial(s), RemoveStep(s)
  PROVE  Serial(s)'
<1>0. /\ s \in Slots /\ slot[s] \in HandlerType /\ SlotsType /\ HistoryType /\ KeptOut(s)
  BY DEF Typed, SlotsType, Serial
<1>1. slot[s].op = "remove" /\ slot[s].pc # "idle" /\ revoked = {}
  BY <1>0, StepOf, PathSteps DEF RemoveStep, DisableUnit, TakeDown, RemoveConf, RemoveBackup, At, KeptOut
<1>2. Avoids(link', revoked) /\ Avoids(ConfText', revoked)
  BY <1>1 DEF Avoids
<1>3. ASSUME NEW pc \in {"takedown", "rmconf", "rmbak"}, Goto(s, pc), UNCHANGED history
      PROVE  Serial(s)'
  <2>1. slot'[s].pc = pc /\ slot'[s].op = slot[s].op /\ slot'[s].arg = slot[s].arg
    BY <1>0, <1>1, <1>3, Going, PathSteps
  <2>2. Temporary(s)'
    BY <2>1 DEF Temporary, At
  <2> QED BY <1>1, <1>2, <1>3, <2>1, <2>2, GoesOn
<1>4. ASSUME NEW st \in {"ok", "error"}, Finish(s, st)
      PROVE  Serial(s)'
  BY <1>0, <1>1, <1>2, <1>4, EndsOtherwise
<1> QED BY <1>3, <1>4 DEF RemoveStep, DisableUnit, TakeDown, RemoveConf, RemoveBackup

LEMMA SerialCall ==
  ASSUME NEW s, Slots = {s}, Typed, Serial(s), ApiCall(s) \/ WorkerCall(s)
  PROVE  Serial(s)'
<1>1. PICK op \in {"apply", "revoke", "remove"}, arg \in SUBSET Keys, by \in {"api", "worker"} :
        Accept(s, op, arg, by)
  BY DEF ApiCall, WorkerCall, Typed, BoundsType
<1>2. /\ slot'[s].op = op /\ slot'[s].arg = arg
      /\ slot'[s].pc = CASE op = "apply" -> "backup" [] op = "revoke" -> "set" [] op = "remove" -> "disable"
  BY <1>1, Accepting
<1>3. slot'[s].pc \in {"backup", "set", "disable"}
  BY <1>2
<1>4. Temporary(s)' /\ InForce(s)'
  BY <1>1, <1>3 DEF Accept, NoAnswer, Temporary, InForce, At, Answered
<1>5. /\ revoked' \subseteq revoked /\ (op = "remove" => revoked' = {})
      /\ op = "apply" => revoked' \cap arg = {}
  BY <1>1 DEF Accept
<1>6. UNCHANGED <<link, ConfText, Leftover>>
  BY <1>1 DEF Accept, files, node, ConfText, Leftover
<1>7. Avoids(link', revoked') /\ Avoids(ConfText', revoked') /\ (Leftover' => revoked' = {})
  BY <1>5, <1>6, Avoiding DEF Serial, KeptOut
<1>8. op = "apply" => Avoids(slot'[s].arg, revoked') /\ slot'[s].pc = "backup"
  BY <1>2, <1>5 DEF Avoids
<1>9. op = "revoke" => slot'[s].pc = "set"
  BY <1>2
<1>10. KeptOut(s)'
  BY <1>2, <1>5, <1>7, <1>8, <1>9 DEF KeptOut, At
<1> QED BY <1>4, <1>10 DEF Serial

LEMMA SerialNext ==
  ASSUME NEW s, Slots = {s}
  PROVE  Typed /\ Serial(s) /\ [Next]_vars => Serial(s)'
<1> SUFFICES ASSUME Typed, Serial(s), [Next]_vars PROVE Serial(s)'
  OBVIOUS
<1>1. CASE UNCHANGED <<files, node, slot, history>>
  BY <1>1 DEF Serial, Temporary, InForce, KeptOut, At, NewText, ConfText, Leftover, Answered,
              files, node, history
<1>2. CASE Change
  BY <1>1, <1>2 DEF Change
<1>3. CASE UNCHANGED vars
  BY <1>1, <1>3 DEF vars
<1>4. ASSUME slot' = [o \in Slots |-> Idle], UNCHANGED <<files, unit, history>>, Avoids(link', revoked),
             Answered("apply", "ok") => link' = said.arg
      PROVE  Serial(s)'
  <2>1. slot'[s] = Idle /\ UNCHANGED <<ConfText, Leftover>>
    BY <1>4 DEF files, ConfText, Leftover
  <2>2. Avoids(link', revoked') /\ Avoids(ConfText', revoked') /\ (Leftover' => revoked' = {})
    BY <1>4, <2>1 DEF Serial, KeptOut, history
  <2>3. Answered("apply", "ok")' => link' = said'.arg /\ unit' = "enabled" /\ ConfText' = said'.arg
    BY <1>4, <2>1 DEF Serial, InForce, Answered, history
  <2> QED BY <2>1, <2>2, <2>3, Ends
<1>5. CASE Crash
  <2>1. ~ Answered("apply", "ok")
    BY <1>5 DEF Crash, Serial, InForce, Answered
  <2> QED BY <1>4, <1>5, <2>1 DEF Crash, node, Serial, KeptOut
<1>6. CASE Reboot
  <2>1. AtBoot \in {None, ConfText} /\ link' = AtBoot
    BY <1>6, AtBootType DEF Reboot, Typed
  <2>2. Avoids(link', revoked)
    BY <2>1 DEF Serial, KeptOut, Avoids
  <2>3. ASSUME Answered("apply", "ok")
        PROVE  link' = said.arg
    <3>1. ConfText = said.arg /\ unit = "enabled" /\ said.arg \in SUBSET Keys
      BY <2>3 DEF Serial, InForce, Typed, HistoryType, Answer
    <3>2. ~ Refusable
      BY <3>1, ValueAssumption DEF Refusable
    <3> QED BY <2>1, <3>1, <3>2 DEF AtBoot
  <2> QED BY <1>4, <1>6, <2>2, <2>3 DEF Reboot
<1>7. ASSUME NEW o \in Slots, ApiCall(o) \/ WorkerCall(o) \/ Step(o)
      PROVE  Serial(s)'
  BY <1>7, SerialCall, SerialApply, SerialRevoke, SerialRemove DEF Step
<1> QED BY <1>2, <1>3, <1>5, <1>6, <1>7 DEF Next

LEMMA SerialInit ==
  ASSUME NEW s, Slots = {s}
  PROVE  Init => Serial(s)
BY DEF Init, Serial, Temporary, InForce, KeptOut, At, Answered, NoAnswer, Idle, ConfText, Leftover, Avoids

(* With one call at a time, what an apply answered 200 for is in force     *)
(* until the next call comes in, through any crashes and reboots, whatever *)
(* earlier calls failed or were cut short (Durable).                       *)
THEOREM AppliesAreDurable ==
  ASSUME NEW s, Slots = {s}
  PROVE  Spec => []Durable
<1>1. Serial(s) => Durable
  BY DEF Serial, InForce, Durable
<1> QED BY <1>1, InitType, NextType, SerialInit, SerialNext, PTL DEF Spec

(* With one call at a time, a peer whose revocation was answered 200 is    *)
(* neither served nor brought back by a boot, whatever is restored from a  *)
(* backup and wherever a handler dies, until an apply names it again or a  *)
(* removal starts (RevokedStaysOut).                                       *)
THEOREM RevokedPeersStayOut ==
  ASSUME NEW s, Slots = {s}
  PROVE  Spec => []RevokedStaysOut
<1>1. Typed /\ Serial(s) => RevokedStaysOut
  <2> SUFFICES ASSUME Typed, Serial(s) PROVE RevokedStaysOut
    OBVIOUS
  <2>1. AtBoot \in SUBSET Keys \/ AtBoot = None
    BY AtBootType DEF Typed
  <2>2. Avoids(link, revoked) /\ Avoids(AtBoot, revoked)
    BY AtBootType DEF Serial, KeptOut, Typed, Avoids
  <2>3. link \in SUBSET Keys \/ link = None
    BY DEF Typed, NodeType
  <2>4. revoked \cap Peers(link) = {} /\ revoked \cap Peers(AtBoot) = {}
    BY <2>1, <2>2, <2>3, ValueAssumption DEF Avoids, Peers
  <2> QED BY <2>4 DEF RevokedStaysOut
<1> QED BY <1>1, InitType, NextType, SerialInit, SerialNext, PTL DEF Spec
=============================================================================
