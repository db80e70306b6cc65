------------------------------ MODULE NodesProofs ------------------------------
(* Proofs about Nodes: the types; that CleanupNodes, which calls itself    *)
(* through DeleteNode, nests no deeper than nodes and faults allow; that   *)
(* the watcher writes again what is outdated.                              *)
EXTENDS Nodes, FiniteSetTheorems, SequenceTheorems, TLAPS

-----------------------------------------------------------------------------
(* Nodes and mirrors                                                       *)

(* A node that is there.                                                   *)
LEMMA Present ==
  ASSUME TypeOK, NEW t \in Tasks, Exists(t)
  PROVE  node[t] \in [ready : Ready, unsched : BOOLEAN]
  BY DEF TypeOK, Exists, Node

(* The effect of a write of the nodes of T.                                *)
LEMMA Written ==
  ASSUME TypeOK, NEW T \in SUBSET Tasks, NEW new, \A t \in T : new[t] \in Node,
         WriteAll(T, new)
  PROVE  /\ node' \in [Tasks -> Node] /\ mirror' \in [Tasks -> Copy] /\ dirty' \subseteq Tasks
         /\ watcher' \in [task : Tasks \cup {NoTask}, copy : Copy]
         /\ \A t \in Tasks : node'[t] = IF t \in T THEN new[t] ELSE node[t]
<1>1. \A copy \in Copy : Outdated(copy) \in Copy
  BY DEF Outdated, Copy
<1>2. node' \in [Tasks -> Node]
      /\ \A t \in Tasks : node'[t] = IF t \in T THEN new[t] ELSE node[t]
  BY DEF WriteAll, TypeOK
<1>3. mirror' \in [Tasks -> Copy]
  BY <1>1 DEF WriteAll, TypeOK
<1>4. dirty' \subseteq Tasks
  BY DEF WriteAll, TypeOK
<1>5. watcher' \in [task : Tasks \cup {NoTask}, copy : Copy]
  <2>1. CASE watcher' = watcher
    BY <2>1 DEF TypeOK
  <2>2. CASE watcher' = [watcher EXCEPT !.copy = Outdated(watcher.copy)]
    BY <1>1, <2>2 DEF TypeOK
  <2> QED
    BY <2>1, <2>2 DEF WriteAll
<1> QED
  BY <1>2, <1>3, <1>4, <1>5

(* ... and of one node.                                                    *)
LEMMA WrittenOne ==
  ASSUME TypeOK, NEW t \in Tasks, NEW obj \in Node, Write(t, obj)
  PROVE  /\ node' \in [Tasks -> Node] /\ mirror' \in [Tasks -> Copy] /\ dirty' \subseteq Tasks
         /\ watcher' \in [task : Tasks \cup {NoTask}, copy : Copy]
         /\ \A u \in Tasks : node'[u] = IF u = t THEN obj ELSE node[u]
<1>1. \A u \in {t} : [node EXCEPT ![t] = obj][u] = obj
  BY DEF TypeOK
<1> HIDE DEF TypeOK
<1>2. /\ node' \in [Tasks -> Node] /\ mirror' \in [Tasks -> Copy] /\ dirty' \subseteq Tasks
      /\ watcher' \in [task : Tasks \cup {NoTask}, copy : Copy]
      /\ \A u \in Tasks : node'[u] = IF u \in {t} THEN [node EXCEPT ![t] = obj][u] ELSE node[u]
  <2> DEFINE new == [node EXCEPT ![t] = obj]
  <2>1. \A u \in {t} : new[u] \in Node
    BY <1>1
  <2>2. WriteAll({t}, new)
    BY DEF Write
  <2> HIDE DEF new
  <2>3. /\ node' \in [Tasks -> Node] /\ mirror' \in [Tasks -> Copy] /\ dirty' \subseteq Tasks
        /\ watcher' \in [task : Tasks \cup {NoTask}, copy : Copy]
        /\ \A u \in Tasks : node'[u] = IF u \in {t} THEN new[u] ELSE node[u]
    <3>1. {t} \in SUBSET Tasks
      OBVIOUS
    <3> QED
      BY <2>1, <2>2, <3>1, Written, Zenon
  <2> QED
    BY <2>3 DEF new
<1> QED
  BY <1>1, <1>2

(* A fault counts.                                                         *)
LEMMA FaultCounts ==
  ASSUME TypeOK, NEW what, Fault(what)
  PROVE  faults' \in 0 .. MaxFaults /\ faults' = faults + 1
  BY ConstantsAssumption DEF Fault, TypeOK

(* No node comes into being, and what the Kubernetes API and the watcher   *)
(* have keeps its types.                                                   *)
KubeTyped ==
  /\ node' \in [Tasks -> Node] /\ mirror' \in [Tasks -> Copy] /\ dirty' \subseteq Tasks
  /\ watcher' \in [task : Tasks \cup {NoTask}, copy : Copy]
NoneNew == \A t \in Tasks : node'[t] # NoNode => node[t] # NoNode

(* The deletion of a node.                                                 *)
LEMMA DeleteTyped ==
  ASSUME TypeOK, NEW t \in Tasks \cup {NoTask}, Delete(t)
  PROVE  /\ KubeTyped /\ NoneNew /\ faults' \in 0 .. MaxFaults
         /\ \/ faults' = faults /\ (t # NoTask => node'[t] = NoNode)
            \/ faults' = faults + 1
<1>1. CASE t # NoTask /\ Exists(t) /\ Write(t, NoNode) /\ UNCHANGED faults
  <2>1. t \in Tasks /\ NoNode \in Node
    BY <1>1 DEF Node
  <2>2. KubeTyped /\ \A u \in Tasks : node'[u] = IF u = t THEN NoNode ELSE node[u]
    BY <1>1, <2>1, WrittenOne DEF KubeTyped
  <2> QED
    BY <1>1, <2>1, <2>2 DEF NoneNew, TypeOK
<1>2. CASE t # NoTask /\ Fault("delete fails") /\ UNCHANGED <<kube, mirror, watcher>>
  BY <1>2, FaultCounts DEF TypeOK, KubeTyped, NoneNew, kube
<1>3. CASE (t # NoTask => ~Exists(t)) /\ UNCHANGED <<kube, mirror, watcher, faults>>
  BY <1>3 DEF TypeOK, KubeTyped, NoneNew, kube, Exists
<1> QED
  BY <1>1, <1>2, <1>3 DEF Delete

(* SetUnschedule and SetSchedule.                                          *)
LEMMA SetNodesTyped ==
  ASSUME TypeOK, NEW cordon \in BOOLEAN, SetNodes(cordon)
  PROVE  KubeTyped /\ NoneNew
<1> DEFINE T == {t \in Tasks : /\ Mirrored(t) /\ mirror[t].obj.unsched # cordon
                               /\ mirror[t].current /\ Exists(t)}
           new == [t \in Tasks |-> [node[t] EXCEPT !.unsched = cordon]]
<1>1. \A t \in T : new[t] \in Node /\ node[t] # NoNode
  BY Present DEF Node, Exists
<1>2. T \subseteq Tasks /\ WriteAll(T, new)
  BY DEF SetNodes
<1> HIDE DEF T, new
<1>3. /\ KubeTyped
      /\ \A t \in Tasks : node'[t] = IF t \in T THEN new[t] ELSE node[t]
  BY <1>1, <1>2, Written DEF KubeTyped
<1> QED
  BY <1>1, <1>3 DEF NoneNew

-----------------------------------------------------------------------------
(* Stacks of calls                                                         *)

(* A process has a stack just while it cleans up.                          *)
Cleaning == {"list", "clean"}
Stacked == \A p \in Procs : proc[p].at \in Cleaning <=> proc[p].stack # <<>>

LEMMA FrontTyped ==
  ASSUME NEW s \in Seq(Frame), s # <<>>
  PROVE  /\ Len(s) \in Nat \ {0} /\ s[Len(s)] \in Frame
         /\ Front(s) \in Seq(Frame) /\ Len(Front(s)) = Len(s) - 1
         /\ \A i \in 1 .. Len(s) - 1 : Front(s)[i] = s[i]
<1>1. Len(s) \in Nat \ {0} /\ \A i \in 1 .. Len(s) : s[i] \in Frame
  BY EmptySeq, ElementOfSeq
<1> DEFINE n == Len(s) - 1
<1>2. n \in Nat /\ n \in Int /\ 1 \in Int /\ Front(s) = SubSeq(s, 1, n)
  BY <1>1 DEF Front
<1>3. \A i \in 1 .. n : s[i] \in Frame
  BY <1>1
<1> HIDE DEF n
<1>4. SubSeq(s, 1, n) \in Seq(Frame)
  BY ONLY <1>2, <1>3, SubSeqProperties, SMT
<1>5. Len(SubSeq(s, 1, n)) = n
  BY ONLY <1>2, <1>3, SubSeqProperties, SMT
<1>6. \A i \in 1 .. n : SubSeq(s, 1, n)[i] = s[i]
  BY ONLY <1>2, <1>3, SubSeqProperties, SMT
<1> QED
  BY <1>1, <1>2, <1>4, <1>5, <1>6 DEF n

LEMMA StackTyped ==
  ASSUME TypeOK, Stacked, NEW p \in Procs, proc[p].at \in Cleaning
  PROVE  /\ Frames(p) \in Seq(Frame) /\ Len(Frames(p)) \in Nat \ {0}
         /\ Top(p) \in Frame /\ Top(p) = Frames(p)[Len(Frames(p))]
         /\ Front(Frames(p)) \in Seq(Frame) /\ Len(Front(Frames(p))) = Len(Frames(p)) - 1
         /\ \A i \in 1 .. Len(Frames(p)) - 1 : Front(Frames(p))[i] = Frames(p)[i]
<1> DEFINE s == Frames(p)
<1>1. s \in Seq(Frame) /\ s # <<>>
  BY DEF TypeOK, Stacked, Process, Frames
<1>2. Top(p) = s[Len(s)] /\ Front(s) = SubSeq(s, 1, Len(s) - 1)
  BY DEF Top, Last, Front
<1>3. s[Len(s)] \in Frame
  BY <1>1, FrontTyped
<1> QED
  BY <1>1, <1>2, <1>3, FrontTyped

(* The list of a call, and a stack with one call more.                     *)
Call(T) == [NewCall EXCEPT !.todo = T]
LEMMA CallTyped ==
  /\ NewCall \in Frame /\ NewCall.todo = {} /\ NewCall = Call({})
  /\ \A T \in SUBSET Tasks : Call(T) \in Frame /\ Call(T).todo = T
  BY DEF Call, NewCall, Frame

LEMMA Pushed ==
  ASSUME NEW s \in Seq(Frame), NEW f \in Frame, NEW g \in Frame
  PROVE  /\ s \o <<f, g>> \in Seq(Frame) /\ Len(s \o <<f, g>>) = Len(s) + 2
         /\ \A i \in 1 .. Len(s) : (s \o <<f, g>>)[i] = s[i]
         /\ (s \o <<f, g>>)[Len(s) + 1] = f /\ (s \o <<f, g>>)[Len(s) + 2] = g
<1>1. <<f, g>> \in Seq(Frame) /\ Len(<<f, g>>) = 2
  OBVIOUS
<1> QED
  BY <1>1

-----------------------------------------------------------------------------
(* Types                                                                   *)

TInv == TypeOK /\ Stacked

(* What may change beside the stacks: no node comes into being, a task     *)
(* that has had a node does not go back, faults are not taken back.        *)
Old  == {"joined", "dead"}
Calm == /\ NoneNew
        /\ \A t \in Tasks : life[t] \in Old => life'[t] \in Old
        /\ faults' \in Nat /\ faults <= faults'

MesosTyped ==
  /\ life' \in [Tasks -> {"new", "up", "joined", "dead"}]
  /\ record' \subseteq Tasks /\ ended' \subseteq Tasks
RestTyped ==
  /\ beat' \in {"idle", "cordon", "open"}
  /\ config' \in Config /\ scale' \in ScaleCall
  /\ client' \in Clients /\ uploaded' \in BOOLEAN
  /\ faults' \in 0 .. MaxFaults

LEMMA Types ==
  ASSUME KubeTyped, MesosTyped, RestTyped, proc' \in [Procs -> Process]
  PROVE  TypeOK'
  BY DEF KubeTyped, MesosTyped, RestTyped, TypeOK

LEMMA FaultTyped ==
  ASSUME TypeOK, NEW what, Fault(what)
  PROVE  faults' \in 0 .. MaxFaults /\ faults' \in Nat /\ faults <= faults' /\ faults' = faults + 1
  BY FaultCounts, ConstantsAssumption DEF TypeOK

LEMMA KillTyped ==
  ASSUME TypeOK, NEW t \in Tasks, Kill(t)
  PROVE  /\ MesosTyped /\ record' = record /\ uploaded' = uploaded
         /\ \A u \in Tasks : life[u] \in Old => life'[u] \in Old
         /\ faults' \in 0 .. MaxFaults /\ faults' \in Nat /\ faults <= faults'
<1>1. CASE Running(t) /\ Ends(t) /\ UNCHANGED faults
  BY <1>1, ConstantsAssumption DEF Ends, TypeOK, MesosTyped, Old
<1>2. CASE Running(t) /\ Fault("kill lost") /\ UNCHANGED mesos
  <2>1. MesosTyped /\ record' = record /\ uploaded' = uploaded /\ life' = life
    BY <1>2 DEF mesos, TypeOK, MesosTyped
  <2>2. faults' \in 0 .. MaxFaults /\ faults' \in Nat /\ faults <= faults'
    BY <1>2, FaultTyped
  <2> QED
    BY <2>1, <2>2
<1>3. CASE ~Running(t) /\ UNCHANGED <<mesos, faults>>
  BY <1>3, ConstantsAssumption DEF mesos, TypeOK, MesosTyped
<1> QED
  BY <1>1, <1>2, <1>3 DEF Kill

(* Steps that leave the processes alone.                                   *)
LEMMA KeepsStacks ==
  ASSUME TInv, UNCHANGED proc, KubeTyped, MesosTyped, RestTyped
  PROVE  TInv'
<1>1. TypeOK'
  BY Types DEF TInv, TypeOK
<1>2. Stacked'
  BY DEF TInv, Stacked
<1> QED
  BY <1>1, <1>2 DEF TInv

LEMMA MesosSteps ==
  ASSUME TInv, NEW t, Upload \/ (t \in Tasks /\ (AgentStarts(t) \/ AgentEnds(t)))
  PROVE  TInv' /\ Calm
<1>1. KubeTyped /\ NoneNew /\ UNCHANGED <<proc, beat, config, scale, client>>
  BY DEF TInv, TypeOK, KubeTyped, NoneNew, kube, Upload, AgentStarts, AgentEnds
<1>2. MesosTyped
  BY DEF TInv, TypeOK, MesosTyped, Upload, AgentStarts, AgentEnds, Ends
<1>3. \A u \in Tasks : life[u] \in Old => life'[u] \in Old
  BY DEF TInv, TypeOK, Old, Upload, AgentStarts, AgentEnds, Ends
<1>4. faults' \in 0 .. MaxFaults /\ faults' \in Nat /\ faults <= faults'
  <2>1. CASE AgentEnds(t)
    BY <2>1, FaultTyped DEF TInv, AgentEnds
  <2>2. CASE Upload \/ AgentStarts(t)
    BY <2>2, ConstantsAssumption DEF TInv, TypeOK, Upload, AgentStarts
  <2> QED
    BY <2>1, <2>2
<1>5. uploaded' \in BOOLEAN
  BY DEF TInv, TypeOK, Upload, AgentStarts, AgentEnds, Ends
<1>6. RestTyped
  BY <1>1, <1>4, <1>5 DEF TInv, TypeOK, RestTyped
<1> QED
  BY <1>1, <1>2, <1>3, <1>4, <1>6, KeepsStacks DEF Calm

LEMMA NodeSteps ==
  ASSUME TInv, NEW t \in Tasks,
         GetsReady(t) \/ GetsUnready(t) \/ GetsUnknown(t) \/ Reports(t)
  PROVE  TInv' /\ Calm
<1> USE DEF TInv
<1>1. Exists(t) /\ UNCHANGED <<mesos, proc, beat, config, scale, client>>
  BY DEF GetsReady, GetsUnready, GetsUnknown, Reports
<1>2. \A r \in Ready : [node[t] EXCEPT !.ready = r] \in Node
  BY <1>1, Present DEF Node
<1>3. node[t] \in Node /\ node[t] # NoNode
  BY <1>1 DEF TypeOK, Exists
<1>4. PICK obj \in Node : Write(t, obj)
  <2>1. CASE GetsReady(t)
    BY <1>2, <2>1 DEF GetsReady, Ready
  <2>2. CASE GetsUnready(t)
    BY <1>2, <2>2 DEF GetsUnready, Ready
  <2>3. CASE GetsUnknown(t)
    BY <1>2, <2>3 DEF GetsUnknown, Ready
  <2>4. CASE Reports(t)
    BY <1>3, <2>4 DEF Reports
  <2> QED
    BY <2>1, <2>2, <2>3, <2>4
<1>5. KubeTyped /\ \A u \in Tasks : node'[u] = IF u = t THEN obj ELSE node[u]
  BY <1>4, WrittenOne DEF KubeTyped
<1>6. NoneNew
  BY <1>3, <1>5 DEF NoneNew
<1>7. faults' \in 0 .. MaxFaults /\ faults' \in Nat /\ faults <= faults'
  <2>1. CASE GetsUnready(t)
    BY <2>1, FaultTyped DEF GetsUnready
  <2>2. CASE UNCHANGED faults
    BY <2>2, ConstantsAssumption DEF TypeOK
  <2> QED
    BY <2>1, <2>2 DEF GetsReady, GetsUnknown, Reports
<1>8. MesosTyped /\ RestTyped /\ life' = life
  BY <1>1, <1>7 DEF TypeOK, MesosTyped, RestTyped, mesos
<1> QED
  BY <1>1, <1>5, <1>6, <1>7, <1>8, KeepsStacks DEF Calm

LEMMA JoinsStep ==
  ASSUME TInv, NEW t \in Tasks, Joins(t)
  PROVE  /\ TInv' /\ \A u \in Tasks : u # t => node'[u] = node[u]
         /\ life' \in [Tasks -> {"new", "up", "joined", "dead"}]
         /\ faults' \in Nat /\ faults <= faults' /\ UNCHANGED proc
         /\ \/ life[t] = "up" /\ life' = [life EXCEPT ![t] = "joined"] /\ faults' = faults
            \/ life[t] = "joined" /\ life' = life /\ faults' = faults + 1
<1> USE DEF TInv
<1> DEFINE obj == [ready |-> "False", unsched |-> FALSE]
<1>1. obj \in Node /\ Write(t, obj)
  BY DEF Joins, Node, Ready
<1> HIDE DEF obj
<1>2. KubeTyped /\ \A u \in Tasks : node'[u] = IF u = t THEN obj ELSE node[u]
  BY <1>1, WrittenOne DEF KubeTyped
<1>3. /\ faults' \in 0 .. MaxFaults /\ faults' \in Nat /\ faults <= faults'
      /\ \/ life[t] = "up" /\ life' = [life EXCEPT ![t] = "joined"] /\ faults' = faults
         \/ life[t] = "joined" /\ life' = life /\ faults' = faults + 1
  <2>1. CASE life[t] = "up" /\ life' = [life EXCEPT ![t] = "joined"] /\ UNCHANGED faults
    BY <2>1, ConstantsAssumption DEF TypeOK
  <2>2. CASE life[t] = "joined" /\ Fault("node back") /\ UNCHANGED life
    BY <2>2, FaultTyped
  <2> QED
    BY <2>1, <2>2 DEF Joins
<1>4. MesosTyped /\ UNCHANGED proc
  BY <1>3 DEF TypeOK, MesosTyped, Joins
<1>5. RestTyped
  BY <1>3 DEF TypeOK, RestTyped, Joins
<1>6. TInv'
  BY <1>2, <1>4, <1>5, KeepsStacks
<1>7. \A u \in Tasks : u # t => node'[u] = node[u]
  BY <1>2
<1> QED
  BY <1>3, <1>4, <1>6, <1>7 DEF MesosTyped

LEMMA WatcherSteps ==
  ASSUME TInv, Watching
  PROVE  TInv' /\ Calm
<1> USE DEF TInv
<1>1. UNCHANGED <<mesos, node, proc, beat, config, scale, faults>> /\ client' \in Clients
  BY DEF TypeOK, Clients, Watching, CreateController, WatchSet, WatchGet, kube
<1>2. mirror' \in [Tasks -> Copy] /\ dirty' \subseteq Tasks
      /\ watcher' \in [task : Tasks \cup {NoTask}, copy : Copy]
  <2>1. CASE WatchSet
    <3>1. watcher' \in [task : Tasks \cup {NoTask}, copy : Copy]
      BY <2>1 DEF WatchSet, IdleWatcher, NoCopy, Copy, Node
    <3>2. watcher.copy \in Copy
      BY DEF TypeOK
    <3>3. mirror' \in [Tasks -> Copy] /\ dirty' \subseteq Tasks
      BY <2>1, <3>2 DEF WatchSet, TypeOK, kube
    <3> QED
      BY <3>1, <3>3
  <2>2. ASSUME NEW t \in Tasks, WatchGet(t)
        PROVE  mirror' \in [Tasks -> Copy] /\ dirty' \subseteq Tasks
               /\ watcher' \in [task : Tasks \cup {NoTask}, copy : Copy]
    <3>1. node[t] \in Node
      BY DEF TypeOK
    <3>2. [task |-> t, copy |-> [obj |-> node[t], current |-> TRUE]]
            \in [task : Tasks \cup {NoTask}, copy : Copy]
      BY <3>1 DEF Copy
    <3>3. watcher' \in [task : Tasks \cup {NoTask}, copy : Copy]
      BY <2>2, <3>2 DEF WatchGet, TypeOK
    <3>4. mirror' \in [Tasks -> Copy] /\ dirty' \subseteq Tasks
      BY <2>2 DEF WatchGet, TypeOK
    <3> QED
      BY <3>3, <3>4
  <2>3. CASE CreateController
    BY <2>3 DEF CreateController, TypeOK
  <2> QED
    BY <2>1, <2>2, <2>3 DEF Watching
<1>3. KubeTyped /\ NoneNew
  BY <1>1, <1>2 DEF KubeTyped, NoneNew, TypeOK
<1>4. MesosTyped /\ RestTyped /\ life' = life /\ UNCHANGED proc
  BY <1>1 DEF TypeOK, MesosTyped, RestTyped, mesos
<1>5. faults' \in Nat /\ faults <= faults'
  BY <1>1, ConstantsAssumption DEF TypeOK
<1> QED
  BY <1>3, <1>4, <1>5, KeepsStacks DEF Calm

LEMMA HeartbeatSteps ==
  ASSUME TInv, Heartbeat \/ CreateControllerFails \/ Cordon
  PROVE  TInv' /\ Calm
<1> USE DEF TInv
<1>1. UNCHANGED <<mesos, proc>>
  BY DEF Heartbeat, ClientReady, BeatDecide, BeatSet, CreateControllerFails, Cordon
<1>2. KubeTyped /\ NoneNew
  <2>1. CASE BeatSet
    <3>1. (beat = "cordon") \in BOOLEAN /\ SetNodes(beat = "cordon")
      BY <2>1 DEF BeatSet
    <3> QED
      BY <3>1, SetNodesTyped
  <2>2. CASE ClientReady \/ CreateControllerFails
    BY <2>2 DEF ClientReady, CreateControllerFails, TypeOK, KubeTyped, NoneNew, kube
  <2>3. CASE BeatDecide \/ Cordon
    BY <2>3 DEF BeatDecide, Cordon, TypeOK, KubeTyped, NoneNew, kube
  <2> QED
    BY <2>1, <2>2, <2>3 DEF Heartbeat
<1>3. faults' \in 0 .. MaxFaults /\ faults' \in Nat /\ faults <= faults'
  <2>1. CASE CreateControllerFails \/ Cordon
    BY <2>1, FaultTyped DEF CreateControllerFails, Cordon
  <2>2. CASE Heartbeat
    BY <2>2, ConstantsAssumption DEF TypeOK, Heartbeat, ClientReady, BeatDecide, BeatSet
  <2> QED
    BY <2>1, <2>2
<1>4. beat' \in {"idle", "cordon", "open"}
  BY DEF TypeOK, Heartbeat, ClientReady, BeatDecide, BeatSet, CreateControllerFails, Cordon
<1>5. /\ config' \in Config /\ scale' \in ScaleCall
      /\ client' \in Clients /\ uploaded' \in BOOLEAN
  <2>1. CASE Cordon
    BY <2>1 DEF TypeOK, mesos, Config, Cordon
  <2>2. CASE Heartbeat
    BY <2>2 DEF TypeOK, mesos, Clients, Heartbeat, ClientReady, BeatDecide, BeatSet
  <2>3. CASE CreateControllerFails
    BY <2>3 DEF TypeOK, mesos, Clients, CreateControllerFails
  <2> QED
    BY <2>1, <2>2, <2>3
<1>6. MesosTyped /\ life' = life
  BY <1>1 DEF TypeOK, MesosTyped, mesos
<1>7. RestTyped
  BY <1>3, <1>4, <1>5 DEF RestTyped
<1> QED
  BY <1>1, <1>2, <1>3, <1>6, <1>7, KeepsStacks DEF Calm

LEMMA RemoveSteps ==
  ASSUME TInv, NEW t \in Tasks, RemoveNotExisting(t) \/ KillUnready(t)
  PROVE  TInv' /\ Calm
<1> USE DEF TInv
<1>1. UNCHANGED <<node, dirty, watcher, proc, beat, config, scale, client>>
  BY DEF RemoveNotExisting, KillUnready, kube
<1>2. NoCopy \in Copy
  BY DEF NoCopy, Copy, Node
<1>3. mirror' \in [Tasks -> Copy]
  BY <1>2 DEF RemoveNotExisting, KillUnready, TypeOK
<1>4. KubeTyped /\ NoneNew
  BY <1>1, <1>3 DEF KubeTyped, NoneNew, TypeOK
<1>5. /\ MesosTyped /\ uploaded' = uploaded
      /\ \A u \in Tasks : life[u] \in Old => life'[u] \in Old
      /\ faults' \in 0 .. MaxFaults /\ faults' \in Nat /\ faults <= faults'
  <2>1. CASE UNCHANGED <<mesos, faults>>
    BY <2>1, ConstantsAssumption DEF mesos, TypeOK, MesosTyped
  <2>2. CASE Kill(t)
    BY <2>2, KillTyped
  <2> QED
    BY <2>1, <2>2 DEF RemoveNotExisting, KillUnready
<1>6. RestTyped
  BY <1>1, <1>5 DEF TypeOK, RestTyped
<1> QED
  BY <1>1, <1>4, <1>5, <1>6, KeepsStacks DEF Calm

(* Steps of the processes: a stack is kept, gets empty, or is a first call *)
(* with nodes that there are.                                              *)
There(T) == T \in SUBSET Tasks /\ \A t \in T : node'[t] # NoNode
Resets == \A p \in Procs :
            \/ proc'[p].stack = proc[p].stack
            \/ proc'[p].stack = <<>>
            \/ \E T : There(T) /\ proc'[p].stack = <<Call(T)>>

LEMMA Processes ==
  ASSUME TInv, KubeTyped, MesosTyped, RestTyped,
         proc' \in [Procs -> Process],
         NEW p \in Procs, \A r \in Procs : r # p => proc'[r] = proc[r],
         proc'[p].at \in Cleaning <=> proc'[p].stack # <<>>
  PROVE  TInv'
<1>1. TypeOK'
  BY Types
<1>2. Stacked'
  BY DEF TInv, Stacked
<1> QED
  BY <1>1, <1>2 DEF TInv

LEMMA Idle == IdleProc \in Process /\ IdleProc.at = "idle" /\ IdleProc.stack = <<>>
<1>1. <<>> \in Seq(Frame)
  BY EmptySeq
<1> QED
  BY <1>1 DEF IdleProc, Process

LEMMA NoScale == IdleScale \in ScaleCall
  BY ConstantsAssumption DEF IdleScale, ScaleCall

LEMMA LoseTyped ==
  ASSUME TInv, Lose, record' \subseteq Tasks,
         faults' \in 0 .. MaxFaults /\ faults' \in Nat /\ faults <= faults'
  PROVE  TInv' /\ Calm /\ Resets
<1> USE DEF TInv
<1>1. proc' = [p \in Procs |-> IdleProc]
  BY DEF Lose
<1>2. proc' \in [Procs -> Process] /\ \A p \in Procs : proc'[p].at = "idle" /\ proc'[p].stack = <<>>
  BY <1>1, Idle
<1>3. IdleWatcher \in [task : Tasks \cup {NoTask}, copy : Copy]
  BY DEF IdleWatcher, NoCopy, Copy, Node
<1>4. KubeTyped /\ NoneNew
  BY <1>3 DEF Lose, KubeTyped, NoneNew, TypeOK
<1>5. MesosTyped /\ life' = life
  BY DEF Lose, MesosTyped, TypeOK
<1>6. /\ beat' = "idle" /\ client' = "none" /\ uploaded' = uploaded
      /\ config' = config /\ scale' = IdleScale
  BY DEF Lose
<1>7. RestTyped
  BY <1>6, NoScale DEF RestTyped, TypeOK, Clients
<1>8. TypeOK'
  BY <1>2, <1>4, <1>5, <1>7, Types
<1>9. Stacked' /\ Resets
  BY <1>2 DEF Stacked, Cleaning, Resets
<1> QED
  BY <1>4, <1>5, <1>8, <1>9 DEF Calm

LEMMA RestartSteps ==
  ASSUME TInv, NEW t, UpdatePanic(t) \/ ClientFails \/ Restart
  PROVE  TInv' /\ Calm /\ Resets
<1>1. Lose /\ record' \subseteq Tasks
  BY DEF TInv, TypeOK, UpdatePanic, ClientFails, Restart
<1>2. faults' \in 0 .. MaxFaults /\ faults' \in Nat /\ faults <= faults'
  <2>1. CASE ClientFails \/ Restart
    BY <2>1, FaultTyped DEF TInv, ClientFails, Restart
  <2>2. CASE UpdatePanic(t)
    BY <2>2, ConstantsAssumption DEF TInv, TypeOK, UpdatePanic
  <2> QED
    BY <2>1, <2>2
<1> QED
  BY <1>1, <1>2, LoseTyped

LEMMA FirstTyped ==
  ASSUME NEW T \in SUBSET Tasks
  PROVE  <<Call(T)>> \in Seq(Frame) /\ <<Call(T)>> # <<>>
  BY CallTyped

(* ... of a call that has no list yet.                                     *)
LEMMA NewTyped ==
  /\ <<NewCall>> \in Seq(Frame) /\ <<NewCall>> # <<>>
  /\ \E T : There(T) /\ <<NewCall>> = <<Call(T)>>
<1>1. {} \in SUBSET Tasks /\ There({})
  BY DEF There
<1> QED
  BY <1>1, FirstTyped, CallTyped

(* A list: nodes that there are.                                           *)
LEMMA ListsTyped ==
  ASSUME TypeOK, NEW T \in SUBSET Tasks, Lists(T)
  PROVE  /\ \A t \in T : node[t] # NoNode
         /\ faults' \in 0 .. MaxFaults /\ faults' \in Nat /\ faults <= faults'
<1>1. CASE T = {t \in Tasks : Exists(t) /\ node[t].ready # "True"} /\ UNCHANGED faults
  BY <1>1, ConstantsAssumption DEF TypeOK, Exists
<1>2. CASE T = {} /\ Fault("list fails")
  BY <1>2, FaultTyped
<1> QED
  BY <1>1, <1>2 DEF Lists

LEMMA CleanupBeginStep ==
  ASSUME TInv, CleanupBegin
  PROVE  TInv' /\ Calm /\ Resets
<1> USE DEF TInv
<1>1. UNCHANGED <<mesos, kube, mirror, watcher, beat, config, scale, client>>
  BY DEF CleanupBegin
<1>2. PICK T \in SUBSET Tasks :
        /\ Lists(T)
        /\ proc' = [proc EXCEPT !["Cleanup"].at = "clean", !["Cleanup"].stack = <<Call(T)>>]
  BY DEF CleanupBegin, Call
<1>3. /\ \A t \in T : node[t] # NoNode
      /\ faults' \in 0 .. MaxFaults /\ faults' \in Nat /\ faults <= faults'
  BY <1>2, ListsTyped
<1>4. KubeTyped /\ NoneNew /\ MesosTyped /\ RestTyped /\ life' = life
  BY <1>1, <1>3 DEF TypeOK, KubeTyped, NoneNew, MesosTyped, RestTyped, mesos, kube
<1> DEFINE first == <<Call(T)>>
<1>5. first \in Seq(Frame) /\ first # <<>> /\ "Cleanup" \in Procs
  BY FirstTyped DEF Procs
<1>6. proc' = [proc EXCEPT !["Cleanup"].at = "clean", !["Cleanup"].stack = first]
  BY <1>2
<1>7. There(T)
  BY <1>1, <1>3 DEF There, kube
<1>8. \E U : There(U) /\ first = <<Call(U)>>
  BY <1>7
<1> HIDE DEF first
<1>9. /\ proc' \in [Procs -> Process]
      /\ \A r \in Procs : r # "Cleanup" => proc'[r] = proc[r]
      /\ proc'["Cleanup"].at = "clean" /\ proc'["Cleanup"].stack = first
  <2>1. proc \in [Procs -> Process]
    BY DEF TypeOK
  <2>2. proc' \in [Procs -> Process]
    BY ONLY <1>5, <1>6, <2>1 DEF Process
  <2>3. \A r \in Procs : r # "Cleanup" => proc'[r] = proc[r]
    BY ONLY <1>5, <1>6, <2>1 DEF Process
  <2>4. proc'["Cleanup"].at = "clean" /\ proc'["Cleanup"].stack = first
    BY ONLY <1>5, <1>6, <2>1 DEF Process
  <2> QED
    BY <2>2, <2>3, <2>4
<1>10. Resets
  BY <1>8, <1>9 DEF Resets
<1>11. proc'["Cleanup"].at \in Cleaning <=> proc'["Cleanup"].stack # <<>>
  BY <1>5, <1>9 DEF Cleaning
<1>12. TInv'
  BY <1>4, <1>5, <1>9, <1>11, Processes
<1> QED
  BY <1>3, <1>4, <1>10, <1>12 DEF Calm

LEMMA UpdateEndStep ==
  ASSUME TInv, NEW t \in Tasks, UpdateEnd(t)
  PROVE  TInv' /\ Calm /\ Resets
<1> USE DEF TInv
<1> DEFINE name == IF Mirrored(t) THEN t ELSE NoTask
           first == <<NewCall>>
<1>1. name \in Tasks \cup {NoTask} /\ Delete(name)
  BY DEF UpdateEnd
<1>2. proc' = [proc EXCEPT !["EventLoop"] =
                  [at |-> "list", stack |-> first, task |-> t, name |-> name]]
  BY DEF UpdateEnd
<1>3. KubeTyped /\ NoneNew /\ faults' \in 0 .. MaxFaults /\ (faults' = faults \/ faults' = faults + 1)
  BY <1>1, DeleteTyped
<1>4. faults' \in Nat /\ faults <= faults'
  BY <1>3, ConstantsAssumption DEF TypeOK
<1>5. MesosTyped /\ life' = life
  BY DEF UpdateEnd, TypeOK, MesosTyped
<1>6. RestTyped
  BY <1>3 DEF UpdateEnd, TypeOK, RestTyped
<1>7. first \in Seq(Frame) /\ first # <<>> /\ "EventLoop" \in Procs
  BY NewTyped DEF Procs
<1> HIDE DEF first, name
<1>8. /\ proc' \in [Procs -> Process]
      /\ \A r \in Procs : r # "EventLoop" => proc'[r] = proc[r]
      /\ proc'["EventLoop"].at = "list" /\ proc'["EventLoop"].stack = first
  <2>1. proc \in [Procs -> Process]
    BY DEF TypeOK
  <2>2. [at |-> "list", stack |-> first, task |-> t, name |-> name] \in Process
    BY <1>1, <1>7 DEF Process
  <2> QED
    BY ONLY <1>2, <1>7, <2>1, <2>2
<1>9. proc'["EventLoop"].at \in Cleaning <=> proc'["EventLoop"].stack # <<>>
  BY <1>7, <1>8 DEF Cleaning
<1>10. TInv'
  BY <1>3, <1>5, <1>6, <1>7, <1>8, <1>9, Processes
<1>11. \E T : There(T) /\ first = <<Call(T)>>
  BY NewTyped DEF first
<1>12. Resets
  BY <1>8, <1>11 DEF Resets
<1> QED
  BY <1>3, <1>4, <1>5, <1>10, <1>12 DEF Calm

(* UpdateUnknown, UpdateCordon, UpdateForget.                              *)
LEMMA UpdateSteps ==
  ASSUME TInv, NEW t, UpdateUnknown(t) \/ UpdateCordon \/ UpdateForget
  PROVE  TInv' /\ Calm /\ Resets
<1> USE DEF TInv
<1> DEFINE e == proc["EventLoop"]
<1>1. "EventLoop" \in Procs /\ e \in Process /\ proc \in [Procs -> Process] /\ e.at \notin Cleaning
  BY DEF TypeOK, Procs, Cleaning, UpdateUnknown, Handles, UpdateCordon, UpdateForget
<1>2. e.stack = <<>>
  BY <1>1 DEF Stacked
<1>3. KubeTyped /\ NoneNew
  <2>1. CASE UpdateUnknown(t)
    BY <2>1 DEF UpdateUnknown, TypeOK, KubeTyped, NoneNew, kube
  <2>2. CASE UpdateCordon
    <3>1. SetNodes(TRUE)
      BY <2>2 DEF UpdateCordon
    <3> QED
      BY <3>1, SetNodesTyped
  <2>3. CASE UpdateForget
    <3>1. NoCopy \in Copy
      BY DEF NoCopy, Copy, Node
    <3>2. mirror' \in [Tasks -> Copy]
      BY <2>3, <3>1 DEF UpdateForget, TypeOK
    <3> QED
      BY <2>3, <3>2 DEF UpdateForget, TypeOK, KubeTyped, NoneNew, kube
  <2> QED
    BY <2>1, <2>2, <2>3
<1>4. faults' \in 0 .. MaxFaults /\ faults' \in Nat /\ faults <= faults'
  <2>1. CASE Fault("ack lost")
    BY <2>1, FaultTyped
  <2>2. CASE UNCHANGED faults
    BY <2>2, ConstantsAssumption DEF TypeOK
  <2> QED
    BY <2>1, <2>2 DEF UpdateUnknown, UpdateCordon, UpdateForget
<1>5. MesosTyped /\ life' = life
  BY DEF UpdateUnknown, UpdateCordon, UpdateForget, TypeOK, MesosTyped, mesos
<1>6. RestTyped
  BY <1>4 DEF UpdateUnknown, UpdateCordon, UpdateForget, TypeOK, RestTyped, mesos
<1>7. /\ proc' \in [Procs -> Process]
      /\ \A r \in Procs : r # "EventLoop" => proc'[r] = proc[r]
      /\ proc'["EventLoop"].at \notin Cleaning /\ proc'["EventLoop"].stack = <<>>
  <2> HIDE DEF TInv
  <2>1. CASE UpdateUnknown(t)
    <3>1. proc' = [proc EXCEPT !["EventLoop"].at = "forget", !["EventLoop"].task = t]
      BY <2>1 DEF UpdateUnknown
    <3>2. proc' \in [Procs -> Process]
      <4>1. t \in Tasks
        BY <2>1 DEF UpdateUnknown, Handles, TInv, TypeOK
      <4> QED
        BY ONLY <1>1, <3>1, <4>1 DEF Process
    <3>3. \A r \in Procs : r # "EventLoop" => proc'[r] = proc[r]
      BY ONLY <1>1, <3>1 DEF Process
    <3>4. proc'["EventLoop"].at = "forget" /\ proc'["EventLoop"].stack = <<>>
      BY ONLY <1>1, <1>2, <3>1 DEF Process
    <3> QED
      BY <3>2, <3>3, <3>4 DEF Cleaning
  <2>2. CASE UpdateCordon
    <3>1. proc' = [proc EXCEPT !["EventLoop"].at = "forget"]
      BY <2>2 DEF UpdateCordon
    <3>2. proc' \in [Procs -> Process]
      BY ONLY <1>1, <3>1 DEF Process
    <3>3. \A r \in Procs : r # "EventLoop" => proc'[r] = proc[r]
      BY ONLY <1>1, <3>1 DEF Process
    <3>4. proc'["EventLoop"].at = "forget" /\ proc'["EventLoop"].stack = <<>>
      BY ONLY <1>1, <1>2, <3>1 DEF Process
    <3> QED
      BY <3>2, <3>3, <3>4 DEF Cleaning
  <2>3. CASE UpdateForget
    <3>1. proc' = [proc EXCEPT !["EventLoop"] = IdleProc]
      BY <2>3 DEF UpdateForget
    <3> QED
      BY <1>1, <3>1, Idle DEF Cleaning
  <2> QED
    BY <2>1, <2>2, <2>3
<1>8. proc'["EventLoop"].at \in Cleaning <=> proc'["EventLoop"].stack # <<>>
  BY <1>7
<1>9. TInv'
  BY <1>1, <1>3, <1>5, <1>6, <1>7, <1>8, Processes
<1>10. Resets
  BY <1>7 DEF Resets
<1> QED
  BY <1>3, <1>4, <1>5, <1>9, <1>10 DEF Calm

LEMMA CleanupEndStep ==
  ASSUME TInv, NEW p \in Procs, CleanupEnd(p)
  PROVE  TInv' /\ Calm /\ Resets
<1> USE DEF TInv
<1>1. UNCHANGED <<mesos, kube, mirror, watcher, beat, config, scale, client, faults>>
  BY DEF CleanupEnd
<1>2. KubeTyped /\ NoneNew /\ MesosTyped /\ RestTyped /\ life' = life
  BY <1>1 DEF TypeOK, KubeTyped, NoneNew, MesosTyped, RestTyped, mesos, kube
<1>3. faults' \in Nat /\ faults <= faults'
  BY <1>1, ConstantsAssumption DEF TypeOK
<1> DEFINE q == [proc[p] EXCEPT !.at = GoesOn[p], !.stack = <<>>]
<1>4. proc \in [Procs -> Process] /\ proc[p] \in Process /\ <<>> \in Seq(Frame)
  BY EmptySeq DEF TypeOK
<1>5. q \in Process /\ q.at \notin Cleaning /\ q.stack = <<>>
  <2>1. GoesOn[p] \in {"idle", "cordon", "kill"}
    BY DEF GoesOn, Procs
  <2> QED
    BY <1>4, <2>1 DEF Process, Cleaning
<1>6. proc' = [proc EXCEPT ![p] = q]
  BY <1>4 DEF CleanupEnd
<1> HIDE DEF q
<1>7. /\ proc' \in [Procs -> Process]
      /\ \A r \in Procs : r # p => proc'[r] = proc[r]
      /\ proc'[p] = q
  BY <1>4, <1>5, <1>6
<1>8. proc'[p].at \in Cleaning <=> proc'[p].stack # <<>>
  BY <1>5, <1>7
<1>9. TInv'
  BY <1>2, <1>7, <1>8, Processes
<1>10. Resets
  BY <1>5, <1>7 DEF Resets
<1> QED
  BY <1>2, <1>3, <1>9, <1>10 DEF Calm

(* Steps of Scale outside CleanupNodes: the process has no calls.          *)
LEMMA ScaleProcess ==
  ASSUME TInv, KubeTyped, MesosTyped, RestTyped, NEW q \in Process,
         proc' = [proc EXCEPT !["Scale"] = q],
         (q.at = "list" /\ q.stack = <<NewCall>>) \/ (q.at \notin Cleaning /\ q.stack = <<>>)
  PROVE  TInv' /\ Resets
<1>1. "Scale" \in Procs /\ proc \in [Procs -> Process]
  BY DEF TInv, TypeOK, Procs
<1>2. /\ proc' \in [Procs -> Process]
      /\ \A r \in Procs : r # "Scale" => proc'[r] = proc[r]
      /\ proc'["Scale"] = q
  BY <1>1
<1>3. proc'["Scale"].at \in Cleaning <=> proc'["Scale"].stack # <<>>
  BY <1>2, NewTyped DEF Cleaning
<1>4. TInv'
  BY <1>1, <1>2, <1>3, Processes
<1>5. Resets
  BY <1>2, NewTyped DEF Resets
<1> QED
  BY <1>4, <1>5

(* ScaleRequest, ScaleSurplus.                                             *)
LEMMA ScaleBeginStep ==
  ASSUME TInv, NEW to \in 0 .. MaxAgents, NEW old \in Int, ScaleBegin(to, old),
         faults' \in 0 .. MaxFaults /\ faults' \in Nat /\ faults <= faults'
  PROVE  TInv' /\ Calm /\ Resets
<1> USE DEF TInv
<1>1. UNCHANGED <<mesos, kube, mirror, watcher, beat, config, client>>
  BY DEF ScaleBegin
<1>2. KubeTyped /\ NoneNew /\ MesosTyped /\ life' = life
  BY <1>1 DEF TypeOK, KubeTyped, NoneNew, MesosTyped, mesos, kube
<1>3. scale' \in ScaleCall
  BY ConstantsAssumption DEF ScaleBegin, ScaleCall, TypeOK
<1>4. RestTyped
  BY <1>1, <1>3 DEF TypeOK, RestTyped, mesos
<1> DEFINE q == [proc["Scale"] EXCEPT !.at = "walk"]
<1>5. /\ "Scale" \in Procs /\ proc["Scale"] \in Process /\ proc["Scale"].at = "idle"
      /\ proc \in [Procs -> Process]
  BY DEF TypeOK, Procs, ScaleBegin
<1>6. q \in Process /\ q.at = "walk" /\ q.stack = proc["Scale"].stack
  BY <1>5 DEF Process
<1>7. proc["Scale"].stack = <<>>
  BY <1>5 DEF Stacked, Cleaning
<1>8. proc' = [proc EXCEPT !["Scale"] = q]
  BY <1>5 DEF ScaleBegin
<1> HIDE DEF q
<1>9. TInv' /\ Resets
  BY <1>2, <1>4, <1>6, <1>7, <1>8, ScaleProcess DEF Cleaning
<1> QED
  BY <1>2, <1>9 DEF Calm

LEMMA ScaleStarts ==
  ASSUME TInv, ScaleRequest \/ ScaleSurplus
  PROVE  TInv' /\ Calm /\ Resets
<1>1. config.agents \in 0 .. MaxAgents /\ config.agents \in Int
  BY ConstantsAssumption DEF TInv, TypeOK, Config
<1>2. CASE ScaleRequest
  <2>1. faults' \in 0 .. MaxFaults /\ faults' \in Nat /\ faults <= faults'
    BY <1>2, FaultTyped DEF TInv, ScaleRequest
  <2>2. PICK to \in 0 .. MaxAgents : ScaleBegin(to, config.agents)
    BY <1>2 DEF ScaleRequest
  <2> QED
    BY <1>1, <2>1, <2>2, ScaleBeginStep
<1>3. CASE ScaleSurplus
  <2>1. faults' \in 0 .. MaxFaults /\ faults' \in Nat /\ faults <= faults'
    BY <1>3, ConstantsAssumption DEF TInv, TypeOK, ScaleSurplus
  <2>2. IsFiniteSet(Tasks) /\ record \in SUBSET Tasks
    BY ConstantsAssumption DEF TInv, TypeOK
  <2>3. IsFiniteSet(record)
    BY <2>2, FS_Subset
  <2>4. Cardinality(record) \in Int
    BY <2>3, FS_CardinalityType
  <2>5. ScaleBegin(config.agents, Cardinality(record))
    BY <1>3 DEF ScaleSurplus
  <2> QED
    BY <1>1, <2>1, <2>4, <2>5, ScaleBeginStep
<1> QED
  BY <1>2, <1>3

LEMMA ScaleNodeStep ==
  ASSUME TInv, NEW t \in Tasks, ScaleNode(t)
  PROVE  TInv' /\ Calm /\ Resets
<1> USE DEF TInv
<1> DEFINE first == <<NewCall>>
           q == IF Mirrored(t) THEN [at |-> "list", stack |-> first, task |-> t, name |-> t]
                               ELSE [at |-> "kill", stack |-> <<>>, task |-> t, name |-> t]
<1>1. UNCHANGED <<mesos, beat, config, client>> /\ scale.left \in Int
  BY DEF ScaleNode, TypeOK, ScaleCall
<1>2. proc' = [proc EXCEPT !["Scale"] = q]
  BY DEF ScaleNode
<1>3. KubeTyped /\ NoneNew /\ faults' \in 0 .. MaxFaults /\ (faults' = faults \/ faults' = faults + 1)
  <2>1. CASE Mirrored(t)
    BY <2>1, DeleteTyped DEF ScaleNode
  <2>2. CASE ~Mirrored(t)
    BY <2>2 DEF ScaleNode, TypeOK, KubeTyped, NoneNew, kube
  <2> QED
    BY <2>1, <2>2
<1>4. faults' \in Nat /\ faults <= faults'
  BY <1>3, ConstantsAssumption DEF TypeOK
<1>5. MesosTyped /\ life' = life
  BY <1>1 DEF mesos, TypeOK, MesosTyped
<1>6. scale' \in ScaleCall
  <2>1. scale' = [scale EXCEPT !.todo = scale.todo \ {t}, !.left = scale.left - 1]
    BY DEF ScaleNode, Walked
  <2>2. /\ scale \in [todo : SUBSET Tasks, left : Int, to : 0 .. MaxAgents]
        /\ scale.todo \ {t} \in SUBSET Tasks /\ scale.left - 1 \in Int
    BY DEF TypeOK, ScaleCall
  <2> QED
    BY ONLY <2>1, <2>2 DEF ScaleCall
<1>7. RestTyped
  BY <1>1, <1>3, <1>6 DEF TypeOK, RestTyped, mesos
<1>8. first \in Seq(Frame) /\ <<>> \in Seq(Frame) /\ first = <<NewCall>>
  BY NewTyped, EmptySeq
<1> HIDE DEF first
<1>9. /\ q \in Process
      /\ (q.at = "list" /\ q.stack = first) \/ (q.at \notin Cleaning /\ q.stack = <<>>)
  BY <1>8 DEF Process, Cleaning
<1> HIDE DEF q
<1>10. TInv' /\ Resets
  BY <1>2, <1>3, <1>5, <1>7, <1>8, <1>9, ScaleProcess
<1> QED
  BY <1>3, <1>4, <1>5, <1>10 DEF Calm

LEMMA ScaleGoneStep ==
  ASSUME TInv, NEW t \in Tasks, ScaleGone(t)
  PROVE  TInv' /\ Calm /\ UNCHANGED proc
<1> USE DEF TInv
<1>1. UNCHANGED <<mesos, kube, mirror, watcher, proc, beat, config, client, faults>>
  BY DEF ScaleGone
<1>2. KubeTyped /\ NoneNew /\ MesosTyped /\ life' = life
  BY <1>1 DEF TypeOK, KubeTyped, NoneNew, MesosTyped, mesos, kube
<1>3. scale' \in ScaleCall
  <2>1. scale' = [scale EXCEPT !.todo = scale.todo \ {t}, !.left = scale.left - 1]
    BY DEF ScaleGone, Walked
  <2>2. /\ scale \in [todo : SUBSET Tasks, left : Int, to : 0 .. MaxAgents]
        /\ scale.todo \ {t} \in SUBSET Tasks /\ scale.left - 1 \in Int
    BY DEF TypeOK, ScaleCall
  <2> QED
    BY ONLY <2>1, <2>2 DEF ScaleCall
<1>4. RestTyped /\ faults' \in Nat /\ faults <= faults'
  BY <1>1, <1>3, ConstantsAssumption DEF TypeOK, RestTyped, mesos
<1> QED
  BY <1>1, <1>2, <1>4, KeepsStacks DEF Calm

(* ScaleKill.                                                              *)
LEMMA ScaleKillStep ==
  ASSUME TInv, NEW t \in Tasks, ScaleKill(t)
  PROVE  TInv' /\ Calm /\ Resets
<1> USE DEF TInv
<1> DEFINE q == [IdleProc EXCEPT !.at = "walk"]
<1>1. /\ UNCHANGED <<kube, mirror, watcher, beat, config, scale, client>>
      /\ Kill(t) /\ proc' = [proc EXCEPT !["Scale"] = q]
  BY DEF ScaleKill
<1>2. q \in Process /\ q.at = "walk" /\ q.stack = <<>>
  BY Idle DEF Process
<1>3. /\ MesosTyped /\ uploaded' = uploaded
      /\ \A u \in Tasks : life[u] \in Old => life'[u] \in Old
      /\ faults' \in 0 .. MaxFaults /\ faults' \in Nat /\ faults <= faults'
  BY <1>1, KillTyped
<1>4. KubeTyped /\ NoneNew
  BY <1>1 DEF TypeOK, KubeTyped, NoneNew, kube
<1>5. RestTyped
  BY <1>1, <1>3 DEF TypeOK, RestTyped
<1> HIDE DEF q
<1>6. TInv' /\ Resets
  BY <1>1, <1>2, <1>3, <1>4, <1>5, ScaleProcess DEF Cleaning
<1> QED
  BY <1>3, <1>4, <1>6 DEF Calm

(* ScaleEnd, and a request that dies of a nil pointer.                     *)
LEMMA ScaleEndStep ==
  ASSUME TInv, proc' = [proc EXCEPT !["Scale"] = IdleProc], scale' = IdleScale,
         UNCHANGED <<mesos, kube, mirror, watcher, beat, client, faults>>,
         config' \in Config
  PROVE  TInv' /\ Calm /\ Resets
<1> USE DEF TInv
<1>1. KubeTyped /\ NoneNew /\ MesosTyped /\ life' = life
  BY DEF TypeOK, KubeTyped, NoneNew, MesosTyped, mesos, kube
<1>2. RestTyped /\ faults' \in Nat /\ faults <= faults'
  BY NoScale, ConstantsAssumption DEF TypeOK, RestTyped, mesos
<1>3. TInv' /\ Resets
  BY <1>1, <1>2, Idle, ScaleProcess DEF Cleaning
<1> QED
  BY <1>1, <1>2, <1>3 DEF Calm

LEMMA ScaleStops ==
  ASSUME TInv, NEW t, ScaleEnd \/ ScalePanic(t)
  PROVE  TInv' /\ Calm /\ Resets
<1>1. CASE ScaleEnd
  <2>1. [config EXCEPT !.agents = scale.to] \in Config
    BY DEF TInv, TypeOK, Config, ScaleCall
  <2> QED
    BY <1>1, <2>1, ScaleEndStep DEF ScaleEnd
<1>2. CASE ScalePanic(t) /\ Lose /\ UNCHANGED record
  <2>1. record' \subseteq Tasks
    BY <1>2 DEF TInv, TypeOK
  <2>2. faults' \in 0 .. MaxFaults /\ faults' \in Nat /\ faults <= faults'
    BY <1>2, ConstantsAssumption DEF TInv, TypeOK, ScalePanic
  <2> QED
    BY <1>2, <2>1, <2>2, LoseTyped
<1>3. CASE ScalePanic(t) /\ proc' = [proc EXCEPT !["Scale"] = IdleProc] /\ scale' = IdleScale
           /\ UNCHANGED <<mesos, kube, mirror, watcher, beat, config, client>>
  <2>1. UNCHANGED faults /\ config' \in Config
    BY <1>3 DEF TInv, TypeOK, ScalePanic
  <2> QED
    BY <1>3, <2>1, ScaleEndStep
<1> QED
  BY <1>1, <1>2, <1>3 DEF ScalePanic

(* A deletion by CleanupNodes: one call more.                              *)
Calls(p, t) ==
  LET s == proc[p].stack
      n == Len(s)
      r == proc'[p].stack
  IN /\ s \in Seq(Frame) /\ n \in Nat \ {0} /\ t \in s[n].todo
     /\ r \in Seq(Frame) /\ Len(r) = n + 1
     /\ \A i \in 1 .. n - 1 : r[i] = s[i]
     /\ r[n] = [todo |-> s[n].todo \ {t}, now |-> t] /\ r[n + 1] = NewCall

LEMMA CleanupDeleteStep ==
  ASSUME TInv, NEW p \in Procs, NEW t \in Tasks, CleanupDelete(p, t)
  PROVE  /\ TInv' /\ Calm /\ Calls(p, t)
         /\ \A r \in Procs : r # p => proc'[r] = proc[r]
         /\ (faults' = faults /\ node'[t] = NoNode) \/ faults' = faults + 1
<1> USE DEF TInv
<1>1. Delete(t) /\ t \in Tasks \cup {NoTask} /\ t # NoTask
  BY ConstantsAssumption DEF CleanupDelete
<1>2. /\ KubeTyped /\ NoneNew /\ faults' \in 0 .. MaxFaults
      /\ (faults' = faults /\ node'[t] = NoNode) \/ faults' = faults + 1
  BY <1>1, DeleteTyped
<1>3. faults' \in Nat /\ faults <= faults'
  BY <1>2, ConstantsAssumption DEF TypeOK
<1>4. UNCHANGED <<mesos, beat, config, scale, client>> /\ proc[p].at = "clean"
  BY DEF CleanupDelete
<1>5. MesosTyped /\ life' = life
  BY <1>4 DEF TypeOK, MesosTyped, mesos
<1>6. RestTyped
  BY <1>2, <1>4 DEF TypeOK, RestTyped, mesos
<1> DEFINE s == Frames(p)
           n == Len(s)
           f == [todo |-> Top(p).todo \ {t}, now |-> t]
           g == NewCall
           new == Front(s) \o <<f, g>>
<1>7. /\ s \in Seq(Frame) /\ n \in Nat \ {0} /\ Top(p) = s[n] /\ Top(p) \in Frame
      /\ Front(s) \in Seq(Frame) /\ Len(Front(s)) = n - 1
      /\ \A i \in 1 .. n - 1 : Front(s)[i] = s[i]
  BY <1>4, StackTyped DEF Cleaning
<1>8. f \in Frame /\ g \in Frame
  BY <1>2, <1>7, CallTyped DEF Frame
<1>9. t \in s[n].todo /\ s = proc[p].stack
  BY <1>7 DEF CleanupDelete, Frames
<1>10. proc' = [proc EXCEPT ![p].at = "list", ![p].stack = new]
  <2>1. proc[p].stack = Frames(p)
    BY DEF Frames
  <2> QED
    BY <2>1 DEF CleanupDelete
<1>11. f = [todo |-> s[n].todo \ {t}, now |-> t]
  BY <1>7
<1> HIDE DEF s, n, f, g
<1>12. /\ new \in Seq(Frame) /\ Len(new) = n + 1
       /\ \A i \in 1 .. n - 1 : new[i] = s[i]
       /\ new[n] = f /\ new[n + 1] = g
  <2> DEFINE fr == Front(s)
  <2>1. fr \in Seq(Frame) /\ Len(fr) = n - 1 /\ (\A i \in 1 .. n - 1 : fr[i] = s[i]) /\ new = fr \o <<f, g>>
    BY <1>7
  <2> HIDE DEF fr, new
  <2>2. /\ fr \o <<f, g>> \in Seq(Frame) /\ Len(fr \o <<f, g>>) = Len(fr) + 2
        /\ \A i \in 1 .. Len(fr) : (fr \o <<f, g>>)[i] = fr[i]
        /\ (fr \o <<f, g>>)[Len(fr) + 1] = f /\ (fr \o <<f, g>>)[Len(fr) + 2] = g
    BY <1>8, <2>1, Pushed
  <2>3. Len(fr) + 1 = n /\ Len(fr) + 2 = n + 1
    BY <1>7, <2>1
  <2> QED
    BY <2>1, <2>2, <2>3
<1> HIDE DEF new
<1>13. /\ proc' \in [Procs -> Process]
       /\ \A r \in Procs : r # p => proc'[r] = proc[r]
       /\ proc'[p].at = "list" /\ proc'[p].stack = new
  <2>1. proc \in [Procs -> Process]
    BY DEF TypeOK
  <2>2. proc' \in [Procs -> Process]
    BY ONLY <1>10, <1>12, <2>1 DEF Process
  <2>3. \A r \in Procs : r # p => proc'[r] = proc[r]
    BY ONLY <1>10, <2>1
  <2>4. proc'[p].at = "list" /\ proc'[p].stack = new
    BY ONLY <1>10, <2>1, p \in Procs DEF Process
  <2> QED
    BY <2>2, <2>3, <2>4
<1>14. new # <<>>
  <2>1. n + 1 # 0
    BY <1>7
  <2> QED
    BY <1>12, <2>1, EmptySeq
<1>15. proc'[p].at \in Cleaning <=> proc'[p].stack # <<>>
  BY <1>13, <1>14 DEF Cleaning
<1>16. TInv'
  BY <1>2, <1>5, <1>6, <1>13, <1>15, Processes
<1>17. Calls(p, t)
  BY <1>7, <1>9, <1>11, <1>12, <1>13 DEF Calls, n, g
<1> QED
  BY <1>2, <1>3, <1>5, <1>13, <1>16, <1>17 DEF Calm

(* A call by DeleteNode gets its list.                                     *)
Gets(p, T) ==
  LET s == proc[p].stack
      n == Len(s)
      r == proc'[p].stack
  IN /\ s \in Seq(Frame) /\ n \in Nat \ {0}
     /\ r \in Seq(Frame) /\ Len(r) = n
     /\ \A i \in 1 .. n - 1 : r[i] = s[i]
     /\ r[n] = Call(T)

LEMMA Replaced ==
  ASSUME NEW s \in Seq(Frame), NEW f \in Frame
  PROVE  /\ s \o <<f>> \in Seq(Frame) /\ Len(s \o <<f>>) = Len(s) + 1
         /\ \A i \in 1 .. Len(s) : (s \o <<f>>)[i] = s[i]
         /\ (s \o <<f>>)[Len(s) + 1] = f
<1>1. <<f>> \in Seq(Frame) /\ Len(<<f>>) = 1
  OBVIOUS
<1> QED
  BY <1>1

LEMMA CleanupListStep ==
  ASSUME TInv, NEW p \in Procs, CleanupList(p)
  PROVE  /\ TInv' /\ Calm /\ UNCHANGED node
         /\ \E T \in SUBSET Tasks : (\A t \in T : node[t] # NoNode) /\ Gets(p, T)
         /\ \A r \in Procs : r # p => proc'[r] = proc[r]
<1> USE DEF TInv
<1>1. UNCHANGED <<mesos, kube, mirror, watcher, beat, config, scale, client>> /\ proc[p].at = "list"
  BY DEF CleanupList
<1> DEFINE s == Frames(p)
           n == Len(s)
<1>2. PICK T \in SUBSET Tasks :
        /\ Lists(T)
        /\ proc' = [proc EXCEPT ![p].at = "clean", ![p].stack = Front(s) \o <<Call(T)>>]
  <2>1. proc[p].stack = s
    BY DEF Frames
  <2> QED
    BY <2>1 DEF CleanupList, Call
<1>3. /\ \A t \in T : node[t] # NoNode
      /\ faults' \in 0 .. MaxFaults /\ faults' \in Nat /\ faults <= faults'
  BY <1>2, ListsTyped
<1>4. KubeTyped /\ NoneNew /\ MesosTyped /\ RestTyped /\ life' = life /\ node' = node
  BY <1>1, <1>3 DEF TypeOK, KubeTyped, NoneNew, MesosTyped, RestTyped, mesos, kube
<1>5. /\ s \in Seq(Frame) /\ n \in Nat \ {0}
      /\ Front(s) \in Seq(Frame) /\ Len(Front(s)) = n - 1
      /\ \A i \in 1 .. n - 1 : Front(s)[i] = s[i]
  BY <1>1, StackTyped DEF Cleaning
<1>6. Call(T) \in Frame
  BY CallTyped
<1>7. s = proc[p].stack
  BY DEF Frames
<1> DEFINE new == Front(s) \o <<Call(T)>>
<1> HIDE DEF s, n
<1>8. /\ new \in Seq(Frame) /\ Len(new) = n
      /\ \A i \in 1 .. n - 1 : new[i] = s[i]
      /\ new[n] = Call(T)
  <2> DEFINE fr == Front(s)
             g == Call(T)
  <2>1. fr \in Seq(Frame) /\ Len(fr) = n - 1 /\ (\A i \in 1 .. n - 1 : fr[i] = s[i]) /\ new = fr \o <<g>>
    BY <1>5
  <2>2. g \in Frame
    BY <1>6
  <2> HIDE DEF fr, new, g
  <2>3. /\ fr \o <<g>> \in Seq(Frame) /\ Len(fr \o <<g>>) = Len(fr) + 1
        /\ \A i \in 1 .. Len(fr) : (fr \o <<g>>)[i] = fr[i]
        /\ (fr \o <<g>>)[Len(fr) + 1] = g
    BY <2>1, <2>2, Replaced
  <2>4. Len(fr) + 1 = n
    BY <1>5, <2>1
  <2>5. new[n] = g
    BY <2>1, <2>3, <2>4
  <2>6. new \in Seq(Frame) /\ Len(new) = n /\ \A i \in 1 .. n - 1 : new[i] = s[i]
    BY <2>1, <2>3, <2>4
  <2> QED
    BY <2>5, <2>6 DEF g
<1>9. proc' = [proc EXCEPT ![p].at = "clean", ![p].stack = new]
  BY <1>2
<1> HIDE DEF new
<1>10. /\ proc' \in [Procs -> Process]
       /\ \A r \in Procs : r # p => proc'[r] = proc[r]
       /\ proc'[p].at = "clean" /\ proc'[p].stack = new
  <2>1. proc \in [Procs -> Process]
    BY DEF TypeOK
  <2>2. proc' \in [Procs -> Process]
    BY ONLY <1>8, <1>9, <2>1 DEF Process
  <2>3. \A r \in Procs : r # p => proc'[r] = proc[r]
    BY ONLY <1>9, <2>1
  <2>4. proc'[p].at = "clean" /\ proc'[p].stack = new
    BY ONLY <1>9, <2>1, p \in Procs DEF Process
  <2> QED
    BY <2>2, <2>3, <2>4
<1>11. new # <<>>
  <2>1. n # 0
    BY <1>5
  <2> QED
    BY <1>8, <2>1, EmptySeq
<1>12. proc'[p].at \in Cleaning <=> proc'[p].stack # <<>>
  BY <1>10, <1>11 DEF Cleaning
<1>13. TInv'
  BY <1>4, <1>10, <1>12, Processes
<1>14. Gets(p, T)
  BY <1>5, <1>7, <1>8, <1>10 DEF Gets, n
<1> QED
  BY <1>3, <1>4, <1>10, <1>13, <1>14 DEF Calm

(* The return of a call that is not the first: one call less.              *)
Returns(p) ==
  LET s == proc[p].stack
      n == Len(s)
      r == proc'[p].stack
  IN /\ s \in Seq(Frame) /\ n \in Nat /\ n >= 2
     /\ r \in Seq(Frame) /\ Len(r) = n - 1
     /\ \A i \in 1 .. n - 2 : r[i] = s[i]
     /\ r[n - 1].todo = s[n - 1].todo /\ r[n - 1].now = NoTask

LEMMA CleanupReturnStep ==
  ASSUME TInv, NEW p \in Procs, CleanupReturn(p),
         \A i \in 1 .. Len(Frames(p)) - 1 : Frames(p)[i].now \in Tasks
  PROVE  /\ TInv' /\ Calm /\ Returns(p)
         /\ \A r \in Procs : r # p => proc'[r] = proc[r]
<1> USE DEF TInv
<1> DEFINE s == Frames(p)
           n == Len(s)
           outer == Front(s)
           t == Last(outer).now
           new == [outer EXCEPT ![Len(outer)].now = NoTask]
<1>1. /\ proc[p].at = "clean" /\ outer # <<>> /\ proc' = [proc EXCEPT ![p].stack = new]
      /\ mirror' = [mirror EXCEPT ![t] = NoCopy]
      /\ IF t \in record THEN Kill(t) ELSE UNCHANGED <<mesos, faults>>
      /\ UNCHANGED <<kube, watcher, beat, config, scale, client>>
  BY DEF CleanupReturn
<1>2. /\ s \in Seq(Frame) /\ n \in Nat \ {0} /\ outer \in Seq(Frame) /\ Len(outer) = n - 1
      /\ \A i \in 1 .. n - 1 : outer[i] = s[i]
  BY <1>1, StackTyped DEF Cleaning
<1>3. n >= 2 /\ n - 1 \in 1 .. n - 1 /\ outer[n - 1] = s[n - 1]
  <2>1. Len(outer) # 0
    BY <1>1, <1>2, EmptySeq
  <2> QED
    BY <1>2, <2>1
<1>4. t \in Tasks
  <2>1. t = outer[n - 1].now
    BY <1>2 DEF Last
  <2> QED
    BY <1>3, <2>1
<1>5. s = proc[p].stack
  BY DEF Frames
<1> HIDE DEF s, n, outer
<1>6. /\ new \in Seq(Frame) /\ Len(new) = n - 1
      /\ \A i \in 1 .. n - 2 : new[i] = s[i]
      /\ new[n - 1].todo = s[n - 1].todo /\ new[n - 1].now = NoTask
  <2>1. outer \in [1 .. n - 1 -> Frame] /\ Len(outer) = n - 1
    BY <1>2
  <2> DEFINE f == [s[n - 1] EXCEPT !.now = NoTask]
  <2>2. s[n - 1] \in Frame
    BY <1>3, <2>1
  <2>3. f \in Frame /\ f.todo = s[n - 1].todo /\ f.now = NoTask
    BY <2>2 DEF Frame
  <2>4. new = [outer EXCEPT ![n - 1] = f]
    BY <1>3, <2>1
  <2> HIDE DEF f, new
  <2>5. new \in [1 .. n - 1 -> Frame] /\ new[n - 1] = f /\ \A i \in 1 .. n - 2 : new[i] = outer[i]
    BY <1>2, <1>3, <2>1, <2>3, <2>4
  <2>6. new \in Seq(Frame) /\ Len(new) = n - 1
    BY <1>2, <2>5
  <2>7. \A i \in 1 .. n - 2 : i \in 1 .. n - 1
    BY <1>2
  <2> QED
    BY <1>2, <2>3, <2>5, <2>6, <2>7
<1>7. /\ MesosTyped /\ uploaded' = uploaded
      /\ \A u \in Tasks : life[u] \in Old => life'[u] \in Old
      /\ faults' \in 0 .. MaxFaults /\ faults' \in Nat /\ faults <= faults'
  <2>1. CASE Kill(t)
    BY <1>4, <2>1, KillTyped
  <2>2. CASE UNCHANGED <<mesos, faults>>
    BY <2>2, ConstantsAssumption DEF mesos, TypeOK, MesosTyped
  <2> QED
    BY <1>1, <2>1, <2>2
<1>8. KubeTyped /\ NoneNew
  <2>1. NoCopy \in Copy
    BY DEF NoCopy, Copy, Node
  <2>2. mirror' \in [Tasks -> Copy]
    BY <1>1, <2>1 DEF TypeOK
  <2> QED
    BY <1>1, <2>2 DEF TypeOK, KubeTyped, NoneNew, kube
<1>9. RestTyped
  BY <1>1, <1>7 DEF TypeOK, RestTyped
<1> HIDE DEF new
<1>10. /\ proc' \in [Procs -> Process]
       /\ \A r \in Procs : r # p => proc'[r] = proc[r]
       /\ proc'[p].at = "clean" /\ proc'[p].stack = new
  <2>1. proc \in [Procs -> Process]
    BY DEF TypeOK
  <2>2. proc' \in [Procs -> Process]
    <3>1. proc' = [proc EXCEPT ![p].stack = new] /\ new \in Seq(Frame)
      BY <1>1, <1>6
    <3> QED
      BY ONLY <2>1, <3>1 DEF Process
  <2>3. \A r \in Procs : r # p => proc'[r] = proc[r]
    BY ONLY <1>1, <2>1
  <2>4. proc'[p].at = "clean" /\ proc'[p].stack = new
    BY ONLY <1>1, <2>1, p \in Procs DEF Process
  <2> QED
    BY <2>2, <2>3, <2>4
<1>11. new # <<>>
  <2>1. n - 1 # 0
    BY <1>2, <1>3
  <2> QED
    BY <1>6, <2>1, EmptySeq
<1>12. proc'[p].at \in Cleaning <=> proc'[p].stack # <<>>
  BY <1>10, <1>11 DEF Cleaning
<1>13. TInv'
  BY <1>7, <1>8, <1>9, <1>10, <1>12, Processes
<1>14. Returns(p)
  BY <1>2, <1>3, <1>5, <1>6, <1>10 DEF Returns, n
<1> QED
  BY <1>7, <1>8, <1>10, <1>13, <1>14 DEF Calm

-----------------------------------------------------------------------------
(* The depth of the calls                                                  *)

(* The calls of a stack that may come upon their node again, because it is *)
(* there, or a later call has it in its list or deletes it once more: only *)
(* a deletion that failed and a node that came back make such calls.  All  *)
(* other calls have different nodes, so a stack of n + 1 calls has no more *)
(* than n - Cardinality(Tasks) of them.                                    *)
Sees(f, t)  == t \in f.todo \/ t = f.now
Reopened(s) == {i \in 1 .. Len(s) - 1 : \/ Exists(s[i].now)
                                        \/ \E j \in i + 1 .. Len(s) : Sees(s[j], s[i].now)}

(* A node comes back for a fault, unless it is the first time; calls know  *)
(* only of nodes that have been there.                                     *)
StackOK(s) ==
  /\ s \in Seq(Frame)
  /\ \A i \in 1 .. Len(s) - 1 : s[i].now \in Tasks
  /\ \A i \in 1 .. Len(s) : \A t \in Tasks : Sees(s[i], t) => life[t] \in Old
  /\ Cardinality(Reopened(s)) <= faults

HadLife == \A t \in Tasks : Exists(t) => life[t] \in Old

IInv == TInv /\ HadLife /\ \A p \in Procs : StackOK(proc[p].stack)

LEMMA Interval ==
  ASSUME NEW n \in Nat, NEW R \in SUBSET (1 .. n)
  PROVE  IsFiniteSet(R) /\ Cardinality(R) \in Nat /\ IsFiniteSet(1 .. n) /\ Cardinality(1 .. n) = n
<1>1. IsFiniteSet(1 .. n) /\ Cardinality(1 .. n) = n
  BY FS_Interval
<1>2. IsFiniteSet(R)
  BY <1>1, FS_Subset
<1> QED
  BY <1>1, <1>2, FS_CardinalityType

LEMMA OneMore ==
  ASSUME NEW n \in Nat, NEW R \in SUBSET (1 .. n), NEW S, NEW k, S \subseteq R \cup {k},
         NEW f \in Nat, Cardinality(R) <= f
  PROVE  Cardinality(S) <= f + 1
<1>1. IsFiniteSet(R) /\ Cardinality(R) \in Nat
  BY Interval
<1>2. IsFiniteSet(R \cup {k}) /\ Cardinality(R \cup {k}) \in Nat /\ Cardinality(R \cup {k}) <= Cardinality(R) + 1
  <2>1. IsFiniteSet(R \cup {k})
        /\ Cardinality(R \cup {k}) = IF k \in R THEN Cardinality(R) ELSE Cardinality(R) + 1
    BY <1>1, FS_AddElement
  <2> QED
    BY <1>1, <2>1
<1>3. S \in SUBSET (R \cup {k})
  OBVIOUS
<1>4. Cardinality(S) <= Cardinality(R \cup {k}) /\ IsFiniteSet(S)
  BY <1>2, <1>3, FS_Subset
<1>5. Cardinality(S) \in Nat
  BY <1>4, FS_CardinalityType
<1> QED
  BY <1>1, <1>2, <1>4, <1>5

LEMMA NoMore ==
  ASSUME NEW n \in Nat, NEW R \in SUBSET (1 .. n), NEW S, S \subseteq R,
         NEW f \in Nat, Cardinality(R) <= f, NEW g \in Nat, f <= g
  PROVE  Cardinality(S) <= g
<1>1. IsFiniteSet(R) /\ Cardinality(R) \in Nat
  BY Interval
<1>2. S \in SUBSET R
  OBVIOUS
<1>3. Cardinality(S) <= Cardinality(R) /\ IsFiniteSet(S)
  BY <1>1, <1>2, FS_Subset
<1>4. Cardinality(S) \in Nat
  BY <1>3, FS_CardinalityType
<1> QED
  BY <1>1, <1>3, <1>4

LEMMA Depth ==
  ASSUME NEW s, StackOK(s), faults \in Nat
  PROVE  Len(s) <= Cardinality(Tasks) + faults + 1
<1> DEFINE n == Len(s)
           R == Reopened(s)
           C == (1 .. n - 1) \ R
<1>0. s \in Seq(Frame) /\ n \in Nat /\ Cardinality(R) <= faults
  BY DEF StackOK
<1>1. IsFiniteSet(Tasks) /\ Cardinality(Tasks) \in Nat
  BY ConstantsAssumption, FS_CardinalityType
<1>2. CASE n = 0
  BY <1>1, <1>2
<1>3. CASE n # 0
  <2>1. n - 1 \in Nat /\ R \in SUBSET (1 .. n - 1)
    BY <1>0, <1>3 DEF Reopened
  <2> DEFINE g == [i \in C |-> s[i].now]
  <2>2. g \in [C -> Tasks]
    BY DEF StackOK
  <2>3. ASSUME NEW i \in C, NEW j \in C, i < j
        PROVE  s[i].now # s[j].now
    <3>1. i \in 1 .. n - 1 /\ i \notin R /\ j \in i + 1 .. n
      BY <1>0, <2>3
    <3>2. ~Sees(s[j], s[i].now)
      BY <3>1 DEF Reopened
    <3> QED
      BY <3>2 DEF Sees
  <2>4. ASSUME NEW i \in C, NEW j \in C, g[i] = g[j]
        PROVE  i = j
    <3>1. i \in Nat /\ j \in Nat /\ s[i].now = s[j].now
      BY <1>0, <2>4
    <3> HIDE DEF C
    <3>2. ~(i < j) /\ ~(j < i)
      BY <2>3, <3>1
    <3> QED
      BY <3>1, <3>2
  <2>5. g \in Injection(C, Tasks)
    <3> HIDE DEF C
    <3>1. g \in [C -> Tasks] /\ DOMAIN g = C
      BY <2>2
    <3> HIDE DEF g
    <3> QED
      BY <2>4, <3>1 DEF Injection, IsInjective
  <2> HIDE DEF C, g, R, n
  <2>6. Cardinality(C) <= Cardinality(Tasks)
    BY <1>1, <2>5, FS_Injection
  <2>7. IsFiniteSet(R) /\ Cardinality(R) \in Nat /\ IsFiniteSet(1 .. n - 1) /\ Cardinality(1 .. n - 1) = n - 1
    BY <2>1, Interval
  <2>8. Cardinality(C) = Cardinality(1 .. n - 1) - Cardinality((1 .. n - 1) \cap R)
    BY <2>7, FS_Difference DEF C
  <2>9. (1 .. n - 1) \cap R = R
    BY <2>1
  <2>10. Cardinality(C) = n - 1 - Cardinality(R)
    BY <2>7, <2>8, <2>9
  <2>11. n <= Cardinality(Tasks) + faults + 1
    BY <1>0, <1>1, <2>6, <2>7, <2>10
  <2> QED
    BY <2>11 DEF n
<1> QED
  BY <1>2, <1>3

(* StackOK in the state after a step, of a stack of that state.            *)
NextReopened(s) == {i \in 1 .. Len(s) - 1 : \/ node'[s[i].now] # NoNode
                                            \/ \E j \in i + 1 .. Len(s) : Sees(s[j], s[i].now)}
NextOK(s) ==
  /\ s \in Seq(Frame)
  /\ \A i \in 1 .. Len(s) - 1 : s[i].now \in Tasks
  /\ \A i \in 1 .. Len(s) : \A t \in Tasks : Sees(s[i], t) => life'[t] \in Old
  /\ Cardinality(NextReopened(s)) <= faults'

(* A stack that a step leaves alone.                                       *)
LEMMA Kept ==
  ASSUME NEW s, StackOK(s), faults \in Nat, Calm
  PROVE  NextOK(s)
<1>1. CASE Len(s) = 0
  <2>1. NextReopened(s) = {} /\ Cardinality({}) = 0
    BY <1>1, FS_EmptySet DEF NextReopened
  <2> QED
    BY <1>1, <2>1 DEF StackOK, NextOK, Calm
<1>2. CASE Len(s) # 0
  <2> DEFINE n == Len(s) - 1
             R == Reopened(s)
             Q == NextReopened(s)
  <2>1. n \in Nat /\ R \in SUBSET (1 .. n) /\ Cardinality(R) <= faults
    BY <1>2 DEF StackOK, Reopened
  <2>2. \A i \in 1 .. n : s[i].now \in Tasks
    BY DEF StackOK
  <2>3. Q \subseteq R
    BY <2>2 DEF Reopened, NextReopened, Exists, Calm, NoneNew
  <2> HIDE DEF n, R, Q
  <2>4. Cardinality(Q) <= faults'
    BY <2>1, <2>3, NoMore DEF Calm
  <2> QED
    BY <2>4 DEF StackOK, NextOK, Calm, Q
<1> QED
  BY <1>1, <1>2

(* No call, and a first call.                                              *)
LEMMA FirstCall ==
  ASSUME Calm, HadLife, NEW s, s = <<>> \/ \E T : There(T) /\ s = <<Call(T)>>
  PROVE  NextOK(s)
<1>1. Cardinality({}) = 0 /\ faults' \in Nat /\ <<>> \in Seq(Frame) /\ Len(<<>>) = 0
  BY FS_EmptySet, EmptySeq DEF Calm
<1>2. CASE s = <<>>
  <2>1. NextReopened(s) = {}
    BY <1>1, <1>2 DEF NextReopened
  <2>2. s \in Seq(Frame) /\ 1 .. Len(s) = {} /\ 1 .. Len(s) - 1 = {}
    BY <1>1, <1>2
  <2>3. Cardinality(NextReopened(s)) <= faults'
    BY <1>1, <2>1
  <2> QED
    BY <2>2, <2>3, Zenon DEF NextOK
<1>3. ASSUME NEW T, There(T), s = <<Call(T)>>
      PROVE  NextOK(s)
  <2> DEFINE l == Call(T)
  <2>1. l \in Frame /\ l.now = NoTask /\ \A t \in l.todo : t \in Tasks /\ node'[t] # NoNode
    BY <1>3, CallTyped DEF There, Call, NewCall
  <2>2. \A t \in Tasks : Sees(l, t) => life'[t] \in Old
    BY <2>1, ConstantsAssumption DEF Sees, Calm, NoneNew, HadLife, Exists
  <2> HIDE DEF l
  <2>3. s \in Seq(Frame) /\ Len(s) = 1 /\ s[1] = l
    BY <1>3, <2>1 DEF l
  <2>4. NextReopened(s) = {}
    <3>1. 1 .. Len(s) - 1 = {}
      BY <2>3
    <3> QED
      BY <3>1 DEF NextReopened
  <2> QED
    BY <1>1, <2>2, <2>3, <2>4 DEF NextOK
<1> QED
  BY <1>2, <1>3

(* One call more: it counts if the deletion failed.                        *)
LEMMA Called ==
  ASSUME Calm, NEW p \in Procs, NEW t \in Tasks, Calls(p, t),
         StackOK(proc[p].stack), faults \in Nat,
         (faults' = faults /\ node'[t] = NoNode) \/ faults' = faults + 1
  PROVE  NextOK(proc'[p].stack)
<1> DEFINE s == proc[p].stack
           n == Len(s)
           r == proc'[p].stack
           R == Reopened(s)
           Q == NextReopened(r)
<1>1. /\ s \in Seq(Frame) /\ n \in Nat \ {0} /\ t \in s[n].todo
      /\ r \in Seq(Frame) /\ Len(r) = n + 1
      /\ \A i \in 1 .. n - 1 : r[i] = s[i]
      /\ r[n] = [todo |-> s[n].todo \ {t}, now |-> t] /\ r[n + 1] = NewCall
  BY DEF Calls
<1>2. /\ \A i \in 1 .. n - 1 : s[i].now \in Tasks
      /\ \A i \in 1 .. n : \A u \in Tasks : Sees(s[i], u) => life[u] \in Old
      /\ Cardinality(R) <= faults /\ R \in SUBSET (1 .. n)
  <2>1. R \in SUBSET (1 .. n)
    BY <1>1 DEF Reopened
  <2> QED
    BY <2>1, Zenon DEF StackOK
<1>3. \A u \in Tasks : ~Sees(NewCall, u)
  BY ConstantsAssumption DEF Sees, NewCall
<1>4. \A u \in Tasks : Sees(r[n], u) => Sees(s[n], u)
  BY <1>1 DEF Sees
<1> HIDE DEF s, n, r
<1>5. \A i \in 1 .. Len(r) - 1 : r[i].now \in Tasks
  <2>1. ASSUME NEW i \in 1 .. Len(r) - 1
        PROVE  r[i].now \in Tasks
    <3>1. i \in 1 .. n - 1 \/ i = n
      BY <1>1
    <3> QED
      BY <1>1, <1>2, <3>1
  <2> QED
    BY <2>1
<1>6. \A i \in 1 .. Len(r) : \A u \in Tasks : Sees(r[i], u) => life'[u] \in Old
  <2>1. ASSUME NEW i \in 1 .. Len(r), NEW u \in Tasks, Sees(r[i], u)
        PROVE  life[u] \in Old
    <3>1. CASE i \in 1 .. n - 1
      BY <1>1, <1>2, <2>1, <3>1
    <3>2. CASE i = n
      <4>1. n \in 1 .. n
        BY <1>1
      <4>2. Sees(r[n], u)
        BY <2>1, <3>2
      <4>3. Sees(s[n], u)
        BY <1>4, <4>2
      <4> QED
        BY <1>2, <4>1, <4>3, Zenon
    <3>3. CASE i = n + 1
      BY <1>1, <1>3, <2>1, <3>3
    <3> QED
      BY <1>1, <3>1, <3>2, <3>3
  <2> QED
    BY <2>1 DEF Calm
<1>7. \A i \in 1 .. n - 1 : i \in Q => i \in R
  <2>1. ASSUME NEW i \in 1 .. n - 1, i \in Q
        PROVE  i \in R
    <3>1. r[i] = s[i] /\ s[i].now \in Tasks
      BY <1>1, <1>2
    <3>2. node'[s[i].now] # NoNode \/ \E j \in i + 1 .. n + 1 : Sees(r[j], s[i].now)
      BY <1>1, <2>1, <3>1 DEF NextReopened
    <3>3. CASE node'[s[i].now] # NoNode
      BY <1>1, <3>1, <3>3 DEF Reopened, n, Exists, Calm, NoneNew
    <3>4. ASSUME NEW j \in i + 1 .. n + 1, Sees(r[j], s[i].now)
          PROVE  \E k \in i + 1 .. n : Sees(s[k], s[i].now)
      <4>1. CASE j \in i + 1 .. n - 1
        <5>1. j \in 1 .. n - 1 /\ j \in i + 1 .. n
          BY <1>1, <4>1
        <5> QED
          BY <1>1, <3>4, <5>1
      <4>2. CASE j = n
        <5>1. n \in i + 1 .. n
          BY <1>1
        <5> QED
          BY <1>4, <3>1, <3>4, <4>2, <5>1
      <4>3. CASE j = n + 1
        BY <1>1, <1>3, <3>1, <3>4, <4>3
      <4> QED
        BY <1>1, <4>1, <4>2, <4>3
    <3> QED
      BY <1>1, <3>2, <3>3, <3>4 DEF Reopened, n
  <2> QED
    BY <2>1
<1>8. Q \subseteq 1 .. n
  BY <1>1 DEF NextReopened
<1>9. Cardinality(Q) <= faults'
  <2>1. CASE faults' = faults + 1
    <3>1. Q \subseteq R \cup {n}
      <4>1. \A i \in 1 .. n : i \in 1 .. n - 1 \/ i = n
        BY <1>1
      <4> HIDE DEF Q, R
      <4> QED
        BY <1>7, <1>8, <4>1
    <3> HIDE DEF Q, R
    <3>2. n \in Nat
      BY <1>1
    <3>3. Cardinality(Q) <= faults + 1
      BY <1>2, <3>1, <3>2, OneMore
    <3> QED
      BY <2>1, <3>3
  <2>2. CASE faults' = faults /\ node'[t] = NoNode
    <3>1. n \notin Q
      <4>1. r[n].now = t /\ ~Sees(r[n + 1], t)
        BY <1>1, <1>3
      <4>2. \A j \in n + 1 .. Len(r) : j = n + 1
        BY <1>1
      <4> QED
        BY <2>2, <4>1, <4>2 DEF NextReopened
    <3>2. Q \subseteq R
      <4>1. \A i \in 1 .. n : i \in 1 .. n - 1 \/ i = n
        BY <1>1
      <4> HIDE DEF Q, R
      <4> QED
        BY <1>7, <1>8, <3>1, <4>1
    <3> HIDE DEF Q, R
    <3>3. n \in Nat /\ faults <= faults /\ faults' = faults
      BY <1>1, <2>2
    <3>4. Cardinality(Q) <= faults
      BY <1>2, <3>2, <3>3, NoMore
    <3> QED
      BY <3>3, <3>4
  <2> QED
    BY <2>1, <2>2
<1> QED
  BY <1>1, <1>5, <1>6, <1>9 DEF NextOK, r

(* A list of nodes that there are: a call that sees one of them counts     *)
(* already.                                                                *)
LEMMA Listed ==
  ASSUME Calm, HadLife, UNCHANGED node, NEW p \in Procs, NEW T \in SUBSET Tasks,
         \A t \in T : node[t] # NoNode,
         Gets(p, T), StackOK(proc[p].stack), faults \in Nat
  PROVE  NextOK(proc'[p].stack)
<1> DEFINE s == proc[p].stack
           n == Len(s)
           r == proc'[p].stack
           R == Reopened(s)
           Q == NextReopened(r)
<1>1. /\ s \in Seq(Frame) /\ n \in Nat \ {0}
      /\ r \in Seq(Frame) /\ Len(r) = n
      /\ \A i \in 1 .. n - 1 : r[i] = s[i]
      /\ r[n] = Call(T)
  BY DEF Gets
<1>2. /\ \A i \in 1 .. n - 1 : s[i].now \in Tasks
      /\ \A i \in 1 .. n : \A u \in Tasks : Sees(s[i], u) => life[u] \in Old
      /\ Cardinality(R) <= faults /\ R \in SUBSET (1 .. n)
  BY <1>1 DEF StackOK, Reopened
<1>3. \A u \in Tasks : Sees(Call(T), u) => Exists(u)
  BY ConstantsAssumption DEF Sees, Call, NewCall, Exists
<1> HIDE DEF s, n, r
<1>4. \A i \in 1 .. Len(r) - 1 : r[i].now \in Tasks
  BY <1>1, <1>2
<1>5. \A i \in 1 .. Len(r) : \A u \in Tasks : Sees(r[i], u) => life'[u] \in Old
  <2>1. ASSUME NEW i \in 1 .. Len(r), NEW u \in Tasks, Sees(r[i], u)
        PROVE  life[u] \in Old
    <3>1. CASE i \in 1 .. n - 1
      BY <1>1, <1>2, <2>1, <3>1
    <3>2. CASE i = n
      BY <1>1, <1>3, <2>1, <3>2 DEF HadLife
    <3> QED
      BY <1>1, <3>1, <3>2
  <2> QED
    BY <2>1 DEF Calm
<1>6. \A i \in Q : i \in R
  <2>1. ASSUME NEW i \in Q
        PROVE  i \in R
    <3>1. i \in 1 .. n - 1 /\ r[i] = s[i] /\ s[i].now \in Tasks
      BY <1>1, <1>2 DEF NextReopened
    <3>2. Exists(s[i].now) \/ \E j \in i + 1 .. n : Sees(r[j], s[i].now)
      BY <1>1, <3>1 DEF NextReopened, Exists
    <3>3. ASSUME NEW j \in i + 1 .. n, Sees(r[j], s[i].now)
          PROVE  Exists(s[i].now) \/ \E k \in i + 1 .. n : Sees(s[k], s[i].now)
      <4>1. CASE j \in 1 .. n - 1
        BY <1>1, <3>3, <4>1
      <4>2. CASE j = n
        BY <1>1, <1>3, <3>1, <3>3, <4>2
      <4> QED
        BY <1>1, <3>1, <4>1, <4>2
    <3> QED
      BY <1>1, <3>1, <3>2, <3>3 DEF Reopened, n
  <2> HIDE DEF Q, R
  <2> QED
    BY <2>1
<1> HIDE DEF Q, R
<1>7. Q \subseteq R /\ n \in Nat /\ faults' \in Nat /\ faults <= faults'
  BY <1>1, <1>6 DEF Calm
<1>8. Cardinality(Q) <= faults'
  BY <1>2, <1>7, NoMore
<1> QED
  BY <1>1, <1>4, <1>5, <1>8 DEF NextOK, r, Q

(* One call less.                                                          *)
LEMMA Returned ==
  ASSUME Calm, NEW p \in Procs, Returns(p), StackOK(proc[p].stack), faults \in Nat
  PROVE  NextOK(proc'[p].stack)
<1> DEFINE s == proc[p].stack
           n == Len(s)
           r == proc'[p].stack
           R == Reopened(s)
           Q == NextReopened(r)
<1>1. /\ s \in Seq(Frame) /\ n \in Nat /\ n >= 2
      /\ r \in Seq(Frame) /\ Len(r) = n - 1
      /\ \A i \in 1 .. n - 2 : r[i] = s[i]
      /\ r[n - 1].todo = s[n - 1].todo /\ r[n - 1].now = NoTask
  BY DEF Returns
<1>2. /\ \A i \in 1 .. n - 1 : s[i].now \in Tasks
      /\ \A i \in 1 .. n : \A u \in Tasks : Sees(s[i], u) => life[u] \in Old
      /\ Cardinality(R) <= faults /\ R \in SUBSET (1 .. n)
  BY <1>1 DEF StackOK, Reopened
<1>3. \A u \in Tasks : Sees(r[n - 1], u) => Sees(s[n - 1], u)
  BY <1>1, ConstantsAssumption DEF Sees
<1> HIDE DEF s, n, r
<1>4. \A i \in 1 .. n - 1 : i \in 1 .. n /\ \A u \in Tasks : Sees(r[i], u) => Sees(s[i], u)
  <2>1. ASSUME NEW i \in 1 .. n - 1, NEW u \in Tasks, Sees(r[i], u)
        PROVE  Sees(s[i], u)
    <3>1. CASE i \in 1 .. n - 2
      BY <1>1, <2>1, <3>1
    <3>2. CASE i = n - 1
      BY <1>3, <2>1, <3>2
    <3> QED
      BY <1>1, <3>1, <3>2
  <2>2. \A i \in 1 .. n - 1 : i \in 1 .. n
    BY <1>1
  <2> QED
    BY <2>1, <2>2
<1>5. \A i \in 1 .. Len(r) - 1 : r[i].now \in Tasks
  <2>1. Len(r) - 1 = n - 2 /\ \A i \in 1 .. n - 2 : i \in 1 .. n - 1
    BY <1>1
  <2> QED
    BY <1>1, <1>2, <2>1
<1>6. \A i \in 1 .. Len(r) : \A u \in Tasks : Sees(r[i], u) => life'[u] \in Old
  BY <1>1, <1>2, <1>4 DEF Calm
<1>7. Q \subseteq R
  <2>1. ASSUME NEW i \in Q
        PROVE  i \in R
    <3>1. i \in 1 .. n - 2 /\ i \in 1 .. n - 1 /\ r[i] = s[i] /\ s[i].now \in Tasks
      <4>1. i \in 1 .. Len(r) - 1
        BY DEF NextReopened
      <4>2. i \in 1 .. n - 2 /\ i \in 1 .. n - 1
        BY <1>1, <4>1
      <4> QED
        BY <1>1, <1>2, <4>2
    <3>2. node'[s[i].now] # NoNode \/ \E j \in i + 1 .. n - 1 : Sees(r[j], s[i].now)
      BY <1>1, <3>1 DEF NextReopened
    <3>3. CASE node'[s[i].now] # NoNode
      BY <3>1, <3>3 DEF Reopened, n, Exists, Calm, NoneNew
    <3>4. ASSUME NEW j \in i + 1 .. n - 1, Sees(r[j], s[i].now)
          PROVE  \E k \in i + 1 .. n : Sees(s[k], s[i].now)
      <4>1. j \in 1 .. n - 1 /\ j \in i + 1 .. n
        BY <1>1, <3>1
      <4> QED
        BY <1>4, <3>1, <3>4, <4>1
    <3> QED
      BY <3>1, <3>2, <3>3, <3>4 DEF Reopened, n
  <2> HIDE DEF Q, R
  <2> QED
    BY <2>1
<1> HIDE DEF Q, R
<1>8. n \in Nat /\ faults' \in Nat /\ faults <= faults'
  BY <1>1 DEF Calm
<1>9. Cardinality(Q) <= faults'
  BY <1>2, <1>7, <1>8, NoMore
<1> QED
  BY <1>1, <1>5, <1>6, <1>9 DEF NextOK, r, Q

(* A node joins.  The first time no call knows of it; another time it is a *)
(* fault, and of the calls for that node the last one counts only now.     *)
LEMMA Joined ==
  ASSUME TInv, NEW t \in Tasks, Joins(t), NEW s, StackOK(s), faults \in Nat
  PROVE  NextOK(s)
<1> DEFINE n == Len(s)
           R == Reopened(s)
           Q == NextReopened(s)
<1>1. /\ \A u \in Tasks : u # t => node'[u] = node[u]
      /\ \/ life[t] = "up" /\ life' = [life EXCEPT ![t] = "joined"] /\ faults' = faults
         \/ life[t] = "joined" /\ life' = life /\ faults' = faults + 1
  BY JoinsStep
<1>2. /\ s \in Seq(Frame) /\ n \in Nat /\ Cardinality(R) <= faults /\ R \in SUBSET (1 .. n)
      /\ \A i \in 1 .. n - 1 : s[i].now \in Tasks
      /\ \A i \in 1 .. n : \A u \in Tasks : Sees(s[i], u) => life[u] \in Old
  BY DEF StackOK, Reopened
<1> HIDE DEF n
<1>3. \A u \in Tasks : life[u] \in Old => life'[u] \in Old
  BY <1>1 DEF TInv, TypeOK, Old
<1>4. \A i \in Q : i \in 1 .. n - 1 /\ (i \in R \/ s[i].now = t)
  <2>1. ASSUME NEW i \in 1 .. n - 1, i \in Q, s[i].now # t
        PROVE  i \in R
    <3>1. node'[s[i].now] = node[s[i].now]
      BY <1>1, <1>2, <2>1
    <3> QED
      BY <2>1, <3>1 DEF Reopened, NextReopened, Exists, n
  <2> QED
    BY <2>1 DEF NextReopened, n
<1>5. Cardinality(Q) <= faults'
  <2>1. CASE life[t] = "up" /\ faults' = faults
    <3>1. \A i \in 1 .. n - 1 : s[i].now # t
      <4>1. \A i \in 1 .. n - 1 : i \in 1 .. n /\ Sees(s[i], s[i].now)
        BY <1>2 DEF Sees
      <4>2. life[t] \notin Old
        BY <2>1 DEF Old
      <4> QED
        BY <1>2, <4>1, <4>2
    <3>2. Q \subseteq R
      <4> HIDE DEF Q, R
      <4> QED
        BY <1>4, <3>1
    <3> HIDE DEF Q, R
    <3>3. faults <= faults
      OBVIOUS
    <3>4. Cardinality(Q) <= faults
      BY <1>2, <3>2, <3>3, NoMore
    <3> QED
      BY <2>1, <3>4
  <2>2. CASE faults' = faults + 1
    <3>1. \A i, j \in 1 .. n - 1 : s[i].now = t /\ s[j].now = t /\ i < j => i \in R
      <4>1. ASSUME NEW i \in 1 .. n - 1, NEW j \in 1 .. n - 1, s[i].now = t, s[j].now = t, i < j
            PROVE  i \in R
        <5>1. j \in i + 1 .. n /\ Sees(s[j], s[i].now)
          BY <1>2, <4>1 DEF Sees
        <5> QED
          BY <5>1 DEF Reopened, n
      <4> QED
        BY <4>1
    <3>2. \E k : Q \subseteq R \cup {k}
      <4>1. CASE Q \subseteq R
        <5> HIDE DEF Q, R
        <5>1. Q \subseteq R \cup {0}
          BY <4>1
        <5> QED
          BY <5>1
      <4>2. CASE ~(Q \subseteq R)
        <5> HIDE DEF Q, R
        <5>1. PICK k \in Q : k \notin R
          BY <4>2
        <5>2. k \in 1 .. n - 1 /\ s[k].now = t
          BY <1>4, <5>1
        <5>3. ASSUME NEW i \in Q, i \notin R
              PROVE  i = k
          <6>1. i \in 1 .. n - 1 /\ s[i].now = t
            BY <1>4, <5>3
          <6>2. ~(i < k) /\ ~(k < i)
            BY <3>1, <5>1, <5>2, <5>3, <6>1
          <6>3. i \in Int /\ k \in Int
            BY <5>2, <6>1
          <6> HIDE DEF n
          <6> QED
            BY <6>2, <6>3
        <5>4. Q \subseteq R \cup {k}
          BY <5>3
        <5> QED
          BY <5>4
      <4> QED
        BY <4>1, <4>2
    <3> HIDE DEF Q, R
    <3>3. PICK k : Q \subseteq R \cup {k}
      BY <3>2
    <3>4. Cardinality(Q) <= faults + 1
      BY <1>2, <3>3, OneMore
    <3> QED
      BY <2>2, <3>4
  <2> QED
    BY <1>1, <2>1, <2>2
<1>6. \A i \in 1 .. n : \A u \in Tasks : Sees(s[i], u) => life'[u] \in Old
  BY <1>2, <1>3
<1> QED
  BY <1>2, <1>5, <1>6 DEF NextOK, n

-----------------------------------------------------------------------------
(* The invariant                                                           *)

LEMMA StacksNext ==
  ASSUME TInv', HadLife', \A p \in Procs : NextOK(proc'[p].stack)
  PROVE  IInv'
<1>1. \A p \in Procs : StackOK(proc[p].stack)'
  BY DEF NextOK, NextReopened, StackOK, Reopened, Exists
<1> QED
  BY <1>1 DEF IInv

LEMMA Lives ==
  ASSUME TInv, HadLife, Calm
  PROVE  HadLife' /\ faults \in Nat
  BY ConstantsAssumption DEF HadLife, Calm, NoneNew, Exists, TInv, TypeOK

LEMMA ResetInv ==
  ASSUME IInv, TInv', Calm, Resets
  PROVE  IInv'
<1>1. TInv /\ HadLife /\ \A p \in Procs : StackOK(proc[p].stack)
  BY DEF IInv
<1>2. HadLife' /\ faults \in Nat
  BY <1>1, Lives
<1>3. ASSUME NEW p \in Procs
      PROVE  NextOK(proc'[p].stack)
  <2>1. CASE proc'[p].stack = proc[p].stack
    <3>1. NextOK(proc[p].stack)
      BY <1>1, <1>2, Kept
    <3> QED
      BY <2>1, <3>1
  <2>2. CASE proc'[p].stack = <<>> \/ \E T : There(T) /\ proc'[p].stack = <<Call(T)>>
    BY <1>1, <2>2, FirstCall
  <2> QED
    BY <2>1, <2>2 DEF Resets
<1> QED
  BY <1>2, <1>3, StacksNext

LEMMA Starts == Init => IInv
<1> SUFFICES ASSUME Init
             PROVE  IInv
  OBVIOUS
<1>1. NoNode \in Node /\ NoCopy \in Copy
  BY DEF Node, NoCopy, Copy
<1>2. IdleWatcher \in [task : Tasks \cup {NoTask}, copy : Copy]
  BY <1>1 DEF IdleWatcher
<1>3. proc \in [Procs -> Process] /\ \A p \in Procs : proc[p].at = "idle" /\ proc[p].stack = <<>>
  BY Idle DEF Init
<1>4. faults = 0 /\ faults \in 0 .. MaxFaults
  BY ConstantsAssumption DEF Init
<1>5. TypeOK
  <2>1. config \in Config /\ scale \in ScaleCall
    BY NoScale, ConstantsAssumption DEF Init, Config
  <2> QED
    BY <1>1, <1>2, <1>3, <1>4, <2>1 DEF Init, TypeOK, Clients
<1>6. TInv /\ HadLife
  BY <1>3, <1>5 DEF TInv, Stacked, Cleaning, HadLife, Exists, Init
<1>7. StackOK(<<>>)
  <2>1. <<>> \in Seq(Frame) /\ 1 .. Len(<<>>) = {} /\ 1 .. Len(<<>>) - 1 = {}
    BY EmptySeq
  <2>2. Reopened(<<>>) = {}
    BY <2>1 DEF Reopened
  <2>3. Cardinality(Reopened(<<>>)) <= faults
    BY <1>4, <2>2, FS_EmptySet
  <2> QED
    BY <2>1, <2>3, Zenon DEF StackOK
<1> QED
  BY <1>3, <1>6, <1>7 DEF IInv

LEMMA Steps == IInv /\ [Next]_vars => IInv'
<1> SUFFICES ASSUME IInv, [Next]_vars
             PROVE  IInv'
  OBVIOUS
<1>1. TInv /\ HadLife /\ (\A p \in Procs : StackOK(proc[p].stack)) /\ faults \in Nat
  BY ConstantsAssumption DEF IInv, TInv, TypeOK
<1>2. ASSUME UNCHANGED proc
      PROVE  Resets
  BY <1>2 DEF Resets
<1>3. ASSUME NEW t \in Tasks, AgentStarts(t) \/ AgentEnds(t)
      PROVE  IInv'
  <2>1. TInv' /\ Calm /\ UNCHANGED proc
    BY <1>1, <1>3, MesosSteps DEF AgentStarts, AgentEnds
  <2> QED
    BY <1>2, <2>1, ResetInv
<1>4. ASSUME NEW t \in Tasks, GetsReady(t) \/ GetsUnready(t) \/ GetsUnknown(t) \/ Reports(t)
      PROVE  IInv'
  <2>1. TInv' /\ Calm /\ UNCHANGED proc
    BY <1>1, <1>4, NodeSteps DEF GetsReady, GetsUnready, GetsUnknown, Reports
  <2> QED
    BY <1>2, <2>1, ResetInv
<1>5. ASSUME NEW t \in Tasks, Joins(t)
      PROVE  IInv'
  <2>1. TInv' /\ UNCHANGED proc
    BY <1>1, <1>5, JoinsStep
  <2>2. HadLife'
    <3>1. /\ \A u \in Tasks : u # t => node'[u] = node[u]
          /\ life' \in [Tasks -> {"new", "up", "joined", "dead"}]
          /\ \/ life[t] = "up" /\ life' = [life EXCEPT ![t] = "joined"]
             \/ life[t] = "joined" /\ life' = life
      BY <1>1, <1>5, JoinsStep
    <3> QED
      BY <1>1, <3>1 DEF HadLife, Exists, Old, TInv, TypeOK
  <2>3. ASSUME NEW p \in Procs
        PROVE  NextOK(proc'[p].stack)
    <3>1. NextOK(proc[p].stack)
      BY <1>1, <1>5, Joined
    <3> QED
      BY <2>1, <3>1
  <2> QED
    BY <2>1, <2>2, <2>3, StacksNext
<1>6. ASSUME NEW t \in Tasks, RemoveNotExisting(t) \/ KillUnready(t)
      PROVE  IInv'
  <2>1. TInv' /\ Calm /\ UNCHANGED proc
    BY <1>1, <1>6, RemoveSteps DEF RemoveNotExisting, KillUnready
  <2> QED
    BY <1>2, <2>1, ResetInv
<1>7. CASE Upload
  <2>1. TInv' /\ Calm /\ UNCHANGED proc
    BY <1>1, <1>7, MesosSteps DEF Upload
  <2> QED
    BY <1>2, <2>1, ResetInv
<1>8. CASE Watching
  <2>1. TInv' /\ Calm /\ UNCHANGED proc
    BY <1>1, <1>8, WatcherSteps DEF Watching, CreateController, WatchSet, WatchGet
  <2> QED
    BY <1>2, <2>1, ResetInv
<1>9. CASE Heartbeat \/ CreateControllerFails \/ Cordon
  <2>1. UNCHANGED proc
    BY <1>9 DEF Heartbeat, ClientReady, BeatDecide, BeatSet, CreateControllerFails, Cordon
  <2>2. TInv' /\ Calm
    BY <1>1, <1>9, HeartbeatSteps
  <2> QED
    BY <1>2, <2>1, <2>2, ResetInv
<1>10. CASE CleanupBegin
  BY <1>1, <1>10, CleanupBeginStep, ResetInv
<1>11. ASSUME NEW p \in Procs, CleanupStep(p)
       PROVE  IInv'
  <2>1. CASE CleanupEnd(p)
    BY <1>1, <2>1, CleanupEndStep, ResetInv
  <2>2. CASE CleanupReturn(p)
    <3>1. \A i \in 1 .. Len(Frames(p)) - 1 : Frames(p)[i].now \in Tasks
      BY <1>1 DEF Frames, StackOK
    <3>2. TInv' /\ Calm /\ Returns(p) /\ \A r \in Procs : r # p => proc'[r] = proc[r]
      BY <1>1, <2>2, <3>1, CleanupReturnStep
    <3>3. NextOK(proc'[p].stack)
      BY <1>1, <3>2, Returned
    <3>4. \A r \in Procs : r # p => NextOK(proc'[r].stack)
      BY <1>1, <3>2, Kept
    <3>5. HadLife'
      BY <1>1, <3>2, Lives
    <3> QED
      BY <3>2, <3>3, <3>4, <3>5, StacksNext
  <2>3. ASSUME NEW t \in Tasks, CleanupDelete(p, t)
        PROVE  IInv'
    <3>1. /\ TInv' /\ Calm /\ Calls(p, t)
          /\ \A r \in Procs : r # p => proc'[r] = proc[r]
          /\ (faults' = faults /\ node'[t] = NoNode) \/ faults' = faults + 1
      BY <1>1, <2>3, CleanupDeleteStep
    <3>2. NextOK(proc'[p].stack)
      BY <1>1, <3>1, Called
    <3>3. \A r \in Procs : r # p => NextOK(proc'[r].stack)
      BY <1>1, <3>1, Kept
    <3>4. HadLife'
      BY <1>1, <3>1, Lives
    <3> QED
      BY <3>1, <3>2, <3>3, <3>4, StacksNext
  <2>4. CASE CleanupList(p)
    <3>1. TInv' /\ Calm /\ UNCHANGED node /\ \A r \in Procs : r # p => proc'[r] = proc[r]
      BY <1>1, <2>4, CleanupListStep
    <3>2. PICK T \in SUBSET Tasks : (\A t \in T : node[t] # NoNode) /\ Gets(p, T)
      BY <1>1, <2>4, CleanupListStep
    <3>3. NextOK(proc'[p].stack)
      BY <1>1, <3>1, <3>2, Listed
    <3>4. \A r \in Procs : r # p => NextOK(proc'[r].stack)
      BY <1>1, <3>1, Kept
    <3>5. HadLife'
      BY <1>1, <3>1, Lives
    <3> QED
      BY <3>1, <3>3, <3>4, <3>5, StacksNext
  <2> QED
    BY <1>11, <2>1, <2>2, <2>3, <2>4 DEF CleanupStep
<1>12. ASSUME NEW t \in Tasks, UpdateUnknown(t) \/ UpdateEnd(t) \/ UpdatePanic(t)
       PROVE  IInv'
  <2>1. TInv' /\ Calm /\ Resets
    BY <1>1, <1>12, UpdateSteps, UpdateEndStep, RestartSteps
  <2> QED
    BY <2>1, ResetInv
<1>13. CASE UpdateCordon \/ UpdateForget \/ ClientFails \/ Restart
  <2>1. TInv' /\ Calm /\ Resets
    BY <1>1, <1>13, UpdateSteps, RestartSteps
  <2> QED
    BY <2>1, ResetInv
<1>14. CASE ScaleRequest \/ ScaleSurplus \/ ScaleEnd
  <2>1. TInv' /\ Calm /\ Resets
    BY <1>1, <1>14, ScaleStarts, ScaleStops
  <2> QED
    BY <2>1, ResetInv
<1>15. ASSUME NEW t \in Tasks, ScaleNode(t) \/ ScalePanic(t) \/ ScaleKill(t)
       PROVE  IInv'
  <2>1. TInv' /\ Calm /\ Resets
    BY <1>1, <1>15, ScaleNodeStep, ScaleStops, ScaleKillStep
  <2> QED
    BY <2>1, ResetInv
<1>16. ASSUME NEW t \in Tasks, ScaleGone(t)
       PROVE  IInv'
  <2>1. TInv' /\ Calm /\ UNCHANGED proc
    BY <1>1, <1>16, ScaleGoneStep
  <2> QED
    BY <1>2, <2>1, ResetInv
<1>17. CASE UNCHANGED vars
  <2>1. Calm /\ TInv' /\ UNCHANGED proc
    BY <1>1, <1>17 DEF vars, Calm, NoneNew, TInv, TypeOK, Stacked
  <2> QED
    BY <1>2, <2>1, ResetInv
<1>18. "EventLoop" \in Procs /\ "Cleanup" \in Procs /\ "Scale" \in Procs
  BY DEF Procs
<1> QED
  BY <1>3, <1>4, <1>5, <1>6, <1>7, <1>8, <1>9, <1>10, <1>11, <1>12, <1>13, <1>14, <1>15,
     <1>16, <1>17, <1>18
     DEF Next, ReconcileLoop, EventLoop, Scale

(* All of the state of the node controller keeps its types.                *)
THEOREM TypeCorrect == Spec => []TypeOK
<1>1. IInv => TypeOK
  BY DEF IInv, TInv
<1> QED
  BY <1>1, Starts, Steps, PTL DEF Spec

(* CleanupNodes, which calls itself through DeleteNode                     *)
(* (controller.go:155 and 211), comes to an end: however many nodes there  *)
(* are, and whatever fails, the calls nest no deeper than one for each     *)
(* node, one for each deletion that failed or node that came back, and the *)
(* first.                                                                  *)
THEOREM CleanupNestingBounded == Spec => []NestingBounded
<1>1. IInv => NestingBounded
  BY Depth, ConstantsAssumption DEF IInv, NestingBounded, Frames, TInv, TypeOK
<1> QED
  BY <1>1, Starts, Steps, PTL DEF Spec

-----------------------------------------------------------------------------
(* What is outdated is written again                                       *)

(* Copies that count as current are: in Redis, and with the watcher.       *)
Honest ==
  /\ \A t \in Tasks : mirror[t].current => mirror[t].obj = node[t]
  /\ \A t \in Tasks : watcher.task = t /\ watcher.copy.current => watcher.copy.obj = node[t]

(* What the watcher has read and is outdated by now is in its queue again. *)
Requeued ==
  Watches => \A t \in Tasks :
    watcher.task = t /\ ~watcher.copy.current /\ Exists(t) => t \in dirty

FInv == Honest /\ Requeued /\ MirrorsFollow

(* A copy that counts as current is the node as it is.                     *)
LEMMA Current ==
  ASSUME NEW c \in Copy, NEW t, c.current, c.obj = node[t]
  PROVE  c = AsItIs(t)
  BY DEF Copy, AsItIs

(* A write of some nodes: the watcher is told.                             *)
LEMMA WriteFollows ==
  ASSUME TypeOK, FInv, NEW T \in SUBSET Tasks, NEW new, WriteAll(T, new), UNCHANGED client
  PROVE  FInv'
<1>1. ASSUME NEW t \in Tasks, t \in T
      PROVE  ~mirror'[t].current /\ (Watches => t \in dirty')
             /\ (watcher.task = t => watcher' = [watcher EXCEPT !.copy = Outdated(@)])
  BY <1>1 DEF WriteAll, TypeOK, Outdated, Copy
<1>2. ASSUME NEW t \in Tasks, t \notin T
      PROVE  /\ mirror'[t] = mirror[t] /\ node'[t] = node[t] /\ (t \in dirty => t \in dirty')
             /\ watcher.task = t => watcher' = watcher
  BY <1>2 DEF WriteAll
<1>3. watcher'.task = watcher.task
  BY DEF WriteAll, TypeOK
<1>4. ASSUME watcher' = [watcher EXCEPT !.copy = Outdated(@)]
      PROVE  ~watcher'.copy.current
  BY <1>4 DEF TypeOK, Outdated, Copy
<1>5. Honest'
  BY <1>1, <1>2, <1>3, <1>4 DEF FInv, Honest
<1>6. Requeued'
  BY <1>1, <1>2, <1>3 DEF FInv, Requeued, Exists, Watches
<1>7. MirrorsFollow'
  <2> SUFFICES ASSUME Watches, NEW t \in Tasks, t \notin T, node'[t] # NoNode,
                      mirror'[t].obj # NoNode, mirror'[t] # AsItIs(t)'
               PROVE  t \in dirty' \/ watcher' = [task |-> t, copy |-> AsItIs(t)']
    BY <1>1 DEF MirrorsFollow, Exists, Mirrored, Watches
  <2>1. AsItIs(t)' = AsItIs(t)
    BY <1>2 DEF AsItIs
  <2>2. t \in dirty \/ watcher = [task |-> t, copy |-> AsItIs(t)]
    BY <1>2, <2>1 DEF FInv, MirrorsFollow, Exists, Mirrored
  <2> QED
    BY <1>2, <2>1, <2>2
<1> QED
  BY <1>5, <1>6, <1>7 DEF FInv

(* Steps that change none of the copies, or delete a mirror.               *)
LEMMA MirrorGone ==
  ASSUME TypeOK, FInv, UNCHANGED <<kube, watcher, client>>, NEW t,
         mirror' = mirror \/ mirror' = [mirror EXCEPT ![t] = NoCopy]
  PROVE  FInv'
<1>1. \A u \in Tasks : mirror'[u] = mirror[u] \/ mirror'[u] = NoCopy
  BY DEF TypeOK
<1>2. node' = node /\ dirty' = dirty /\ watcher' = watcher /\ client' = client
  BY DEF kube
<1>3. Honest'
  BY <1>1, <1>2 DEF FInv, Honest, NoCopy
<1>4. Requeued'
  BY <1>2 DEF FInv, Requeued, Exists, Watches
<1>5. MirrorsFollow'
  BY <1>1, <1>2 DEF FInv, MirrorsFollow, Exists, Mirrored, AsItIs, NoCopy, Watches
<1> QED
  BY <1>3, <1>4, <1>5 DEF FInv

(* Without a watch there is nothing to follow.                             *)
LEMMA LoseFollows ==
  ASSUME TypeOK, FInv, Lose
  PROVE  FInv'
<1>1. mirror' = mirror /\ node' = node /\ watcher' = IdleWatcher /\ ~Watches'
  BY DEF Lose, Watches
<1> QED
  BY <1>1, ConstantsAssumption
     DEF FInv, Honest, Requeued, MirrorsFollow, IdleWatcher, NoCopy

LEMMA NoWatchFollows ==
  ASSUME FInv, UNCHANGED <<mirror, node, watcher>>, ~Watches'
  PROVE  FInv'
  BY DEF FInv, Honest, Requeued, MirrorsFollow

LEMMA DeleteFollows ==
  ASSUME TypeOK, FInv, NEW t \in Tasks \cup {NoTask}, Delete(t), UNCHANGED client
  PROVE  FInv'
<1>1. CASE t # NoTask /\ Write(t, NoNode)
  BY <1>1, WriteFollows DEF Write
<1>2. CASE UNCHANGED <<kube, mirror, watcher>>
  BY <1>2, MirrorGone
<1> QED
  BY <1>1, <1>2 DEF Delete

LEMMA SetFollows ==
  ASSUME TypeOK, FInv, NEW cordon, SetNodes(cordon), UNCHANGED client
  PROVE  FInv'
  BY WriteFollows DEF SetNodes

LEMMA WatchGetFollows ==
  ASSUME TypeOK, FInv, NEW t \in Tasks, WatchGet(t)
  PROVE  FInv'
<1>1. /\ mirror' = mirror /\ node' = node /\ client' = client /\ dirty' = dirty \ {t}
      /\ watcher.task = NoTask
      /\ watcher' = IF Exists(t) THEN [task |-> t, copy |-> AsItIs(t)] ELSE watcher
  BY DEF WatchGet, AsItIs
<1>2. \A u \in Tasks : watcher.task # u
  BY <1>1, ConstantsAssumption
<1>3. ASSUME NEW u \in Tasks, watcher'.task = u
      PROVE  u = t /\ Exists(t) /\ watcher'.copy = AsItIs(t)
  BY <1>1, <1>2, <1>3
<1>4. Honest'
  BY <1>1, <1>3 DEF FInv, Honest, AsItIs
<1>5. Requeued'
  BY <1>1, <1>3 DEF FInv, Requeued, AsItIs, Watches
<1>6. MirrorsFollow'
  <2> SUFFICES ASSUME Watches, NEW u \in Tasks, Exists(u), Mirrored(u), mirror[u] # AsItIs(u)
               PROVE  u \in dirty' \/ watcher' = [task |-> u, copy |-> AsItIs(u)]
    BY <1>1 DEF MirrorsFollow, Exists, Mirrored, AsItIs, Watches
  <2>1. u \in dirty
    BY <1>2 DEF FInv, MirrorsFollow
  <2> QED
    BY <1>1, <2>1
<1> QED
  BY <1>4, <1>5, <1>6 DEF FInv

LEMMA WatchSetFollows ==
  ASSUME TypeOK, FInv, WatchSet
  PROVE  FInv'
<1> DEFINE w == watcher.task
<1>1. /\ w \in Tasks /\ watcher.copy \in Copy
      /\ mirror' = [mirror EXCEPT ![w] = watcher.copy] /\ watcher' = IdleWatcher
      /\ node' = node /\ dirty' = dirty /\ client' = client
  BY DEF WatchSet, TypeOK, kube
<1>2. \A u \in Tasks : mirror'[u] = IF u = w THEN watcher.copy ELSE mirror[u]
  BY <1>1 DEF TypeOK
<1>3. \A u \in Tasks : watcher'.task # u
  BY <1>1, ConstantsAssumption DEF IdleWatcher
<1> HIDE DEF w
<1>4. Honest'
  BY <1>1, <1>2, <1>3 DEF FInv, Honest, w
<1>5. Requeued'
  BY <1>3 DEF Requeued
<1>6. MirrorsFollow'
  <2> SUFFICES ASSUME Watches, NEW u \in Tasks, Exists(u), mirror'[u].obj # NoNode,
                      mirror'[u] # AsItIs(u)
               PROVE  u \in dirty
    BY <1>1 DEF MirrorsFollow, Exists, Mirrored, AsItIs, Watches
  <2>1. CASE u = w
    <3>1. ~watcher.copy.current
      BY <1>1, <1>2, <2>1, Current DEF FInv, Honest, w
    <3> QED
      BY <2>1, <3>1 DEF FInv, Requeued, w
  <2>2. CASE u # w
    BY <1>2, <2>2 DEF FInv, MirrorsFollow, Mirrored, w
  <2> QED
    BY <2>1, <2>2
<1> QED
  BY <1>4, <1>5, <1>6 DEF FInv

(* With the watch comes the list of all the nodes.                         *)
LEMMA WatchFollows ==
  ASSUME TypeOK, FInv, CreateController
  PROVE  FInv'
<1>1. /\ mirror' = mirror /\ node' = node /\ watcher' = watcher
      /\ \A t \in Tasks : Exists(t) => t \in dirty'
  BY DEF CreateController
<1> QED
  BY <1>1 DEF FInv, Honest, Requeued, MirrorsFollow, Exists

LEMMA StartsFollowing == Init => FInv
  BY ConstantsAssumption
     DEF Init, FInv, Honest, Requeued, MirrorsFollow, IdleWatcher, NoCopy, Watches

LEMMA CleanupFollows ==
  ASSUME TInv, FInv, NEW p \in Procs, CleanupStep(p)
  PROVE  FInv'
<1>1. TypeOK
  BY DEF TInv
<1>2. ASSUME NEW t \in Tasks, CleanupDelete(p, t)
      PROVE  FInv'
  BY <1>1, <1>2, DeleteFollows DEF CleanupDelete
<1>3. CASE CleanupList(p) \/ CleanupReturn(p) \/ CleanupEnd(p)
  BY <1>1, <1>3, MirrorGone DEF CleanupList, CleanupReturn, CleanupEnd
<1> QED
  BY <1>2, <1>3 DEF CleanupStep

LEMMA StepsFollow == TInv /\ FInv /\ [Next]_vars => FInv'
<1> SUFFICES ASSUME TInv, FInv, [Next]_vars
             PROVE  FInv'
  OBVIOUS
<1>1. TypeOK
  BY DEF TInv
<1>2. ASSUME UNCHANGED <<kube, mirror, watcher, client>>
      PROVE  FInv'
  BY <1>1, <1>2, MirrorGone
<1>3. ASSUME NEW t \in Tasks,
             \/ AgentStarts(t) \/ AgentEnds(t) \/ KillUnready(t) \/ UpdateUnknown(t)
             \/ ScaleGone(t) \/ ScaleKill(t)
      PROVE  FInv'
  BY <1>2, <1>3 DEF AgentStarts, AgentEnds, KillUnready, UpdateUnknown, ScaleGone, ScaleKill
<1>4. ASSUME NEW t \in Tasks,
             Joins(t) \/ GetsReady(t) \/ GetsUnready(t) \/ GetsUnknown(t) \/ Reports(t)
      PROVE  FInv'
  <2>1. client' = client /\ \E obj : Write(t, obj)
    BY <1>4 DEF Joins, GetsReady, GetsUnready, GetsUnknown, Reports
  <2> QED
    BY <1>1, <2>1, WriteFollows DEF Write
<1>5. ASSUME NEW t \in Tasks, RemoveNotExisting(t)
      PROVE  FInv'
  BY <1>1, <1>5, MirrorGone DEF RemoveNotExisting
<1>6. CASE Watching
  BY <1>1, <1>6, WatchFollows, WatchGetFollows, WatchSetFollows DEF Watching
<1>7. ASSUME NEW p \in Procs, CleanupStep(p)
      PROVE  FInv'
  BY <1>7, CleanupFollows
<1>8. ASSUME NEW t \in Tasks, UpdateEnd(t) \/ ScaleNode(t)
      PROVE  FInv'
  <2>1. client' = client
    BY <1>8 DEF UpdateEnd, ScaleNode
  <2>2. (\E u \in Tasks \cup {NoTask} : Delete(u)) \/ UNCHANGED <<kube, mirror, watcher>>
    BY <1>8 DEF UpdateEnd, ScaleNode
  <2> QED
    BY <1>1, <1>2, <2>1, <2>2, DeleteFollows
<1>9. ASSUME NEW t \in Tasks, UpdatePanic(t) \/ ScalePanic(t) \/ Restart
      PROVE  FInv'
  <2>1. Lose \/ UNCHANGED <<kube, mirror, watcher, client>>
    BY <1>9 DEF UpdatePanic, ScalePanic, Restart
  <2> QED
    BY <1>1, <1>2, <2>1, LoseFollows
<1>10. CASE UpdateCordon \/ BeatSet
  <2>1. client' = client /\ \E cordon : SetNodes(cordon)
    BY <1>10 DEF UpdateCordon, BeatSet
  <2> QED
    BY <1>1, <2>1, SetFollows
<1>11. CASE UpdateForget
  BY <1>1, <1>11, MirrorGone DEF UpdateForget
<1>12. CASE ClientReady \/ CreateControllerFails
  BY <1>12, NoWatchFollows DEF ClientReady, CreateControllerFails, Watches, kube
<1>13. CASE Upload \/ CleanupBegin \/ ScaleRequest \/ ScaleSurplus \/ ScaleEnd \/ BeatDecide
            \/ Cordon \/ UNCHANGED vars
  BY <1>2, <1>13 DEF Upload, CleanupBegin, ScaleRequest, ScaleSurplus, ScaleBegin, ScaleEnd,
     BeatDecide, Cordon, vars, kube
<1>14. CASE ClientFails \/ Restart
  BY <1>1, <1>14, LoseFollows DEF ClientFails, Restart
<1>15. "EventLoop" \in Procs /\ "Cleanup" \in Procs /\ "Scale" \in Procs
  BY DEF Procs
<1> QED
  BY <1>3, <1>4, <1>5, <1>6, <1>7, <1>8, <1>9, <1>10, <1>11, <1>12, <1>13, <1>14, <1>15
     DEF Next, ReconcileLoop, EventLoop, Scale, Heartbeat

(* The mirrors that SetUnschedule, SetSchedule and CheckReadyState go by   *)
(* (controller.go:246, 270, 221) are as the nodes are, or will be written  *)
(* again by the watcher: for any number of agents and faults.              *)
THEOREM OutdatedIsWritten == Spec => []MirrorsFollow
<1>1. IInv => TInv
  BY DEF IInv
<1>2. FInv => MirrorsFollow
  BY DEF FInv
<1> QED
  BY <1>1, <1>2, Starts, Steps, StartsFollowing, StepsFollow, PTL DEF Spec

=============================================================================
