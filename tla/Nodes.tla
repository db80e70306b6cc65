-------------------------------- MODULE Nodes --------------------------------
(***************************************************************************)
(* The Kubernetes nodes of the K3s agents: src/controller/controller.go    *)
(* and reconcile.go, with the parts of the scheduler that touch nodes      *)
(* (the end of an agent in HandleUpdate, removeNotExistingAgents).         *)
(*                                                                         *)
(* A node is seen in two places.  The Kubernetes API has it; Redis has a   *)
(* mirror that a watcher writes and that everything but CleanupNodes       *)
(* decides on.  The watcher, the controller's heartbeat, CleanupNodes      *)
(* passes, calls of Scale, the ReconcileLoop and the event loop all run    *)
(* beside each other.                                                      *)
(*                                                                         *)
(* An agent passes its task identifier to its node as a label, so a node   *)
(* is named by its task here.  The nodes of servers are not modelled.      *)
(***************************************************************************)
EXTENDS Integers, Sequences, FiniteSets, SequencesExt

CONSTANTS Tasks,      \* agent tasks: identifiers
          NoTask,
          MaxAgents,  \* bound, and first value, of K3SAgentMax
          Faulty,     \* what may go wrong in a run, and
          MaxFaults,  \* bound: how often
          Followed    \* the tasks that a liveness property follows: tasks are
                      \* interchangeable

Faults == {"agent ends", "kill lost", "node back", "node unready", "delete fails",
           "list fails", "no client", "no watch", "ack lost", "cordon", "scale", "restart"}

ASSUME ConstantsAssumption ==
  /\ IsFiniteSet(Tasks) /\ NoTask \notin Tasks
  /\ MaxAgents \in Nat /\ MaxFaults \in Nat
  /\ Faulty \subseteq Faults /\ Followed \subseteq Tasks

VARIABLES life,      \* Mesos: each agent task
          record,    \* Redis: the tasks that have a record
          ended,     \* terminal updates that are not acknowledged
          node,      \* the Kubernetes API: the node of each task
          mirror,    \* Redis: the copy of each node
          dirty,     \* the watcher's queue of nodes that have changed
          watcher,   \* the node that the watcher has read
          proc,      \* the event loop, and a CleanupNodes pass beside it
          beat,      \* the controller's heartbeat
          config,    \* K3SDisableScheduling, K3SAgentMax
          scale,     \* what a call of Scale has still to do
          client,    \* how far the controller is with Kubernetes
          uploaded,  \* Redis: kubernetes_config
          faults

vars == <<life, record, ended, node, mirror, dirty, watcher, proc, beat,
          config, scale, client, uploaded, faults>>
mesos == <<life, record, ended, uploaded>>
kube  == <<node, dirty>>

-----------------------------------------------------------------------------
(* State                                                                   *)

Ready == {"True", "False", "Unknown"}
NoNode == [ready |-> "none", unsched |-> FALSE]
Node   == [ready : Ready, unsched : BOOLEAN] \cup {NoNode}

(* A copy of a node remembers whether the node has changed since: an       *)
(* Update with an outdated resourceVersion is refused.                     *)
Copy == [obj : Node, current : BOOLEAN]
NoCopy == [obj |-> NoNode, current |-> FALSE]

(* CleanupNodes calls itself: each call has its list, empty until it has   *)
(* got it ("list"), and the node it is deleting while the inner call runs. *)
Frame == [todo : SUBSET Tasks, now : Tasks \cup {NoTask}]
Process == [at : {"idle", "list", "clean", "cordon", "forget", "walk", "kill"}, stack : Seq(Frame),
            task : Tasks \cup {NoTask}, name : Tasks \cup {NoTask}]
Procs == {"EventLoop", "Cleanup", "Scale"}

Config == [disabled : BOOLEAN, agents : 0 .. MaxAgents]

(* No client; a client, but no watch yet; with the watch; and without one  *)
(* for good.                                                               *)
Clients == {"none", "creates", "watches", "blind"}

(* Scale has records to walk through, and so many agents to kill, before   *)
(* the new number counts.                                                  *)
ScaleCall == [todo : SUBSET Tasks, left : Int, to : 0 .. MaxAgents]

TypeOK ==
  /\ life \in [Tasks -> {"new", "up", "joined", "dead"}]
  /\ record \subseteq Tasks /\ ended \subseteq Tasks
  /\ node \in [Tasks -> Node] /\ mirror \in [Tasks -> Copy]
  /\ dirty \subseteq Tasks
  /\ watcher \in [task : Tasks \cup {NoTask}, copy : Copy]
  /\ proc \in [Procs -> Process]
  /\ beat \in {"idle", "cordon", "open"}
  /\ config \in Config /\ scale \in ScaleCall
  /\ client \in Clients /\ uploaded \in BOOLEAN
  /\ faults \in 0 .. MaxFaults

Exists(t)   == node[t] # NoNode
Mirrored(t) == mirror[t].obj # NoNode
HasClient   == client # "none"
Watches     == client = "watches"

IdleProc    == [at |-> "idle", stack |-> <<>>, task |-> NoTask, name |-> NoTask]
IdleWatcher == [task |-> NoTask, copy |-> NoCopy]
IdleScale   == [todo |-> {}, left |-> 0, to |-> 0]

Init ==
  /\ life = [t \in Tasks |-> "new"]
  /\ record = {} /\ ended = {}
  /\ node = [t \in Tasks |-> NoNode] /\ mirror = [t \in Tasks |-> NoCopy]
  /\ dirty = {} /\ watcher = IdleWatcher
  /\ proc = [p \in Procs |-> IdleProc]
  /\ beat = "idle"
  /\ config = [disabled |-> FALSE, agents |-> MaxAgents] /\ scale = IdleScale
  /\ client = "none" /\ uploaded = FALSE
  /\ faults = 0

Fault(what) == what \in Faulty /\ faults < MaxFaults /\ faults' = faults + 1

(* The nodes of T change: all copies of them are outdated, and the         *)
(* watcher, if there is one, has them in its queue.                        *)
Outdated(copy) == [copy EXCEPT !.current = FALSE]
WriteAll(T, new) ==
  /\ node' = [t \in Tasks |-> IF t \in T THEN new[t] ELSE node[t]]
  /\ dirty' = IF Watches THEN dirty \cup T ELSE dirty
  /\ mirror' = [t \in Tasks |-> IF t \in T THEN Outdated(mirror[t]) ELSE mirror[t]]
  /\ watcher' = IF watcher.task \in T THEN [watcher EXCEPT !.copy = Outdated(@)] ELSE watcher
Write(t, obj) == WriteAll({t}, [node EXCEPT ![t] = obj])

-----------------------------------------------------------------------------
(* Mesos, and the agents themselves (external)                             *)

(* In the container of the K3s server the m3s controller (controller_bin)  *)
(* tries until its kubeconfig is in Redis.                                 *)
Upload ==
  /\ ~uploaded
  /\ uploaded' = TRUE
  /\ UNCHANGED <<life, record, ended, kube, mirror, watcher, proc, beat, config, scale, client, faults>>

(* Heartbeat and CheckState have had an agent launched, which takes a      *)
(* healthy server.                                                         *)
AgentStarts(t) ==
  /\ life[t] = "new" /\ Cardinality(record) < config.agents /\ uploaded
  /\ life' = [life EXCEPT ![t] = "up"]
  /\ record' = record \cup {t}
  /\ UNCHANGED <<ended, uploaded, kube, mirror, watcher, proc, beat, config, scale, client, faults>>

Running(t) == life[t] \in {"up", "joined"}
Ends(t) ==
  /\ life' = [life EXCEPT ![t] = "dead"]
  /\ ended' = ended \cup {t}
  /\ UNCHANGED <<record, uploaded>>

(* An agent fails, or healthCheckNode has waited too long for its node.    *)
AgentEnds(t) ==
  /\ Running(t) /\ Fault("agent ends")
  /\ Ends(t)
  /\ UNCHANGED <<kube, mirror, watcher, proc, beat, config, scale, client>>

(* A KILL call: carried out, lost, or about a task that is gone.           *)
Kill(t) ==
  \/ Running(t) /\ Ends(t) /\ UNCHANGED faults
  \/ Running(t) /\ Fault("kill lost") /\ UNCHANGED mesos
  \/ ~Running(t) /\ UNCHANGED <<mesos, faults>>

(* The kubelet registers its node when it starts; that it starts again in  *)
(* the same container is a fault.                                          *)
Joins(t) ==
  /\ ~Exists(t)
  /\ \/ life[t] = "up" /\ life' = [life EXCEPT ![t] = "joined"] /\ UNCHANGED faults
     \/ life[t] = "joined" /\ Fault("node back") /\ UNCHANGED life
  /\ Write(t, [ready |-> "False", unsched |-> FALSE])
  /\ UNCHANGED <<record, ended, uploaded, proc, beat, config, scale, client>>

GetsReady(t) ==
  /\ life[t] = "joined" /\ Exists(t) /\ node[t].ready # "True"
  /\ Write(t, [node[t] EXCEPT !.ready = "True"])
  /\ UNCHANGED <<mesos, proc, beat, config, scale, client, faults>>

(* The node has a problem, or the kubelet does not report in time ...      *)
GetsUnready(t) ==
  /\ life[t] = "joined" /\ Exists(t) /\ node[t].ready = "True"
  /\ Fault("node unready")
  /\ \E r \in {"False", "Unknown"} : Write(t, [node[t] EXCEPT !.ready = r])
  /\ UNCHANGED <<mesos, proc, beat, config, scale, client>>

(* ... and never again.                                                    *)
GetsUnknown(t) ==
  /\ life[t] = "dead" /\ Exists(t) /\ node[t].ready # "Unknown"
  /\ Write(t, [node[t] EXCEPT !.ready = "Unknown"])
  /\ UNCHANGED <<mesos, proc, beat, config, scale, client, faults>>

(* The kubelet reports every few minutes, with nothing new.  It matters    *)
(* where the mirror is missing: the watcher has something to do again.     *)
Reports(t) ==
  /\ life[t] = "joined" /\ Exists(t) /\ ~Mirrored(t) /\ Watches /\ t \notin dirty
  /\ Write(t, node[t])
  /\ UNCHANGED <<mesos, proc, beat, config, scale, client, faults>>

-----------------------------------------------------------------------------
(* The watcher: Reconcile                                                  *)

(* Get.  For a node that is gone it is an error, and the mirror stays.     *)
WatchGet(t) ==
  /\ watcher.task = NoTask /\ t \in dirty
  /\ dirty' = dirty \ {t}
  /\ watcher' = IF Exists(t) THEN [task |-> t, copy |-> [obj |-> node[t], current |-> TRUE]]
                             ELSE watcher
  /\ UNCHANGED <<mesos, node, mirror, proc, beat, config, scale, client, faults>>

WatchSet ==
  /\ watcher.task # NoTask
  /\ mirror' = [mirror EXCEPT ![watcher.task] = watcher.copy]
  /\ watcher' = IdleWatcher
  /\ UNCHANGED <<mesos, kube, proc, beat, config, scale, client, faults>>

-----------------------------------------------------------------------------
(* CleanupNodes, DeleteNode                                                *)

Frames(p) == proc[p].stack
Top(p)    == Last(Frames(p))

(* Mutant: only the state of the node is cleared.                          *)
DeleteState(t) ==
  \/ t # NoTask /\ Exists(t) /\ Write(t, [ready |-> "none", unsched |-> TRUE]) /\ UNCHANGED faults
  \/ (t # NoTask => ~Exists(t)) /\ UNCHANGED <<kube, mirror, watcher, faults>>

(* The deletion of a node; its error is ignored.  With no node of that     *)
(* name it is an error too.                                                *)
Delete(t) ==
  \/ t # NoTask /\ Exists(t) /\ Write(t, NoNode) /\ UNCHANGED faults
  \/ t # NoTask /\ Exists(t) /\ Fault("delete fails") /\ UNCHANGED <<kube, mirror, watcher>>
  \/ (t # NoTask => ~Exists(t)) /\ UNCHANGED <<kube, mirror, watcher, faults>>

(* A call of CleanupNodes that has no list yet.                            *)
NewCall == [todo |-> {}, now |-> NoTask]

(* The nodes that are not ready; a List that fails ends the call.          *)
Lists(T) ==
  \/ T = {t \in Tasks : Exists(t) /\ node[t].ready # "True"} /\ UNCHANGED faults
  \/ T = {} /\ Fault("list fails")

(* ReconcileLoop starts a pass.  One that finds nothing is no step.        *)
CleanupBegin ==
  /\ proc["Cleanup"].at = "idle" /\ HasClient
  /\ \E T \in SUBSET Tasks \ {{}} :
       /\ Lists(T)
       /\ proc' = [proc EXCEPT !["Cleanup"].at = "clean",
                               !["Cleanup"].stack = <<[NewCall EXCEPT !.todo = T]>>]
  /\ UNCHANGED <<mesos, kube, mirror, watcher, beat, config, scale, client>>

(* A call by DeleteNode, after the deletion.                               *)
CleanupList(p) ==
  /\ proc[p].at = "list"
  /\ \E T \in SUBSET Tasks :
       /\ Lists(T)
       /\ proc' = [proc EXCEPT ![p].at = "clean",
                               ![p].stack = Front(@) \o <<[NewCall EXCEPT !.todo = T]>>]
  /\ UNCHANGED <<mesos, kube, mirror, watcher, beat, config, scale, client>>

(* Mutant: the node is deleted when the inner call is over.                *)
CleanupDeleteLate(p, t) ==
  /\ proc[p].at = "clean" /\ t \in Top(p).todo
  /\ UNCHANGED <<kube, mirror, watcher, faults>>
  /\ proc' = [proc EXCEPT ![p].at = "list", ![p].stack =
                 Front(@) \o <<[todo |-> Top(p).todo \ {t}, now |-> t], NewCall>>]
  /\ UNCHANGED <<mesos, beat, config, scale, client>>

(* DeleteNode deletes the node and calls CleanupNodes.                     *)
CleanupDelete(p, t) ==
  /\ proc[p].at = "clean" /\ t \in Top(p).todo
  /\ Delete(t)
  /\ proc' = [proc EXCEPT ![p].at = "list", ![p].stack =
                 Front(@) \o <<[todo |-> Top(p).todo \ {t}, now |-> t], NewCall>>]
  /\ UNCHANGED <<mesos, beat, config, scale, client>>

(* The end of a list: back in the outer call, which deletes the mirror and *)
(* kills the task, if it still has a record.                               *)
CleanupReturn(p) ==
  LET outer == Front(Frames(p))
      t == Last(outer).now
  IN /\ proc[p].at = "clean" /\ Top(p).todo = {} /\ outer # <<>>
     /\ proc' = [proc EXCEPT ![p].stack = [outer EXCEPT ![Len(outer)].now = NoTask]]
     /\ mirror' = [mirror EXCEPT ![t] = NoCopy]
     /\ IF t \in record THEN Kill(t) ELSE UNCHANGED <<mesos, faults>>
     /\ UNCHANGED <<kube, watcher, beat, config, scale, client>>

(* The outermost call returns.                                             *)
GoesOn == [p \in Procs |-> CASE p = "Cleanup"   -> "idle"
                             [] p = "EventLoop" -> "cordon"
                             [] p = "Scale"     -> "kill"]
CleanupEnd(p) ==
  /\ proc[p].at = "clean" /\ Len(Frames(p)) = 1 /\ Top(p).todo = {}
  /\ proc' = [proc EXCEPT ![p].at = GoesOn[p], ![p].stack = <<>>]
  /\ UNCHANGED <<mesos, kube, mirror, watcher, beat, config, scale, client, faults>>

-----------------------------------------------------------------------------
(* SetUnschedule and SetSchedule                                           *)

(* The mirrored nodes, one after another in the code, are one step.  The   *)
(* update is refused if the mirror is outdated.                            *)
SetNodes(cordon) ==
  WriteAll({t \in Tasks : /\ Mirrored(t) /\ mirror[t].obj.unsched # cordon
                          /\ mirror[t].current /\ Exists(t)},
           [t \in Tasks |-> [node[t] EXCEPT !.unsched = cordon]])

(* CheckReadyState, on the mirrors: none may be unready, and as many be    *)
(* ready as there shall be agents.                                         *)
ReadyState ==
  /\ \A t \in Tasks : mirror[t].obj.ready # "False"
  /\ Cardinality({t \in Tasks : mirror[t].obj.ready = "True"}) = config.agents

-----------------------------------------------------------------------------
(* HandleUpdate: the end of an agent                                       *)

Handles(t) == proc["EventLoop"].at = "idle" /\ t \in ended

(* An update about an unknown task is answered with a KILL, and            *)
(* acknowledged.                                                           *)
UpdateUnknown(t) ==
  /\ Handles(t) /\ t \notin record
  /\ proc' = [proc EXCEPT !["EventLoop"].at = "forget", !["EventLoop"].task = t]
  /\ UNCHANGED <<mesos, kube, mirror, watcher, beat, config, scale, client, faults>>

(* The record is deleted; GetK8NodeFromTask looks for the node in the      *)
(* mirrors, and DeleteNode is called, with the empty name if there is none.*)
UpdateEnd(t) ==
  LET name == IF Mirrored(t) THEN t ELSE NoTask
  IN /\ Handles(t) /\ t \in record /\ HasClient
     /\ record' = record \ {t}
     /\ Delete(name)
     /\ proc' = [proc EXCEPT !["EventLoop"] =
                    [at |-> "list", stack |-> <<NewCall>>, task |-> t, name |-> name]]
     /\ UNCHANGED <<life, ended, uploaded, beat, config, scale, client>>

(* A new process.  What was not in Redis is lost; the configuration was    *)
(* (when it comes back with an older number is in Scaling).                *)
Lose ==
  /\ dirty' = {} /\ watcher' = IdleWatcher
  /\ proc' = [p \in Procs |-> IdleProc] /\ beat' = "idle" /\ scale' = IdleScale
  /\ client' = "none"
  /\ UNCHANGED <<life, ended, uploaded, node, mirror, config>>

(* The same while there is no client.  DeleteNode does not ask for one, as *)
(* CleanupNodes does: the process dies of a nil pointer.                   *)
UpdatePanic(t) ==
  /\ Handles(t) /\ t \in record /\ ~HasClient
  /\ record' = record \ {t}
  /\ Lose
  /\ UNCHANGED faults

UpdateCordon ==
  /\ proc["EventLoop"].at = "cordon"
  /\ SetNodes(TRUE)
  /\ proc' = [proc EXCEPT !["EventLoop"].at = "forget"]
  /\ UNCHANGED <<mesos, beat, config, scale, client, faults>>

(* The mirror is deleted, and the update acknowledged; if that is lost,    *)
(* the agent of Mesos sends the update again.                              *)
UpdateForget ==
  LET name == proc["EventLoop"].name
  IN /\ proc["EventLoop"].at = "forget"
     /\ mirror' = IF name = NoTask THEN mirror ELSE [mirror EXCEPT ![name] = NoCopy]
     /\ \/ ended' = ended \ {proc["EventLoop"].task} /\ UNCHANGED faults
        \/ UNCHANGED ended /\ Fault("ack lost")
     /\ proc' = [proc EXCEPT !["EventLoop"] = IdleProc]
     /\ UNCHANGED <<life, record, uploaded, kube, watcher, beat, config, scale, client>>

-----------------------------------------------------------------------------
(* removeNotExistingAgents                                                 *)

(* Mutant: the mirrors with a task are the ones that go.                   *)
RemoveExisting(t) ==
  /\ Mirrored(t) /\ t \in record
  /\ mirror' = [mirror EXCEPT ![t] = NoCopy]
  /\ UNCHANGED <<mesos, kube, watcher, proc, beat, config, scale, client, faults>>

(* One mirrored node: without a task its mirror goes.                      *)
RemoveNotExisting(t) ==
  /\ Mirrored(t) /\ t \notin record
  /\ mirror' = [mirror EXCEPT ![t] = NoCopy]
  /\ UNCHANGED <<mesos, kube, watcher, proc, beat, config, scale, client, faults>>

(* A task whose node is unknown is killed if its record says TASK_RUNNING. *)
(* What records say is in Scheduler: that it does is nowhere relied on.    *)
KillUnready(t) ==
  /\ t \in record /\ mirror[t].obj.ready = "Unknown"
  /\ Kill(t)
  /\ UNCHANGED <<kube, mirror, watcher, proc, beat, config, scale, client>>

-----------------------------------------------------------------------------
(* Scale, of the agents                                                    *)

(* Requests and StartK3SAgent call it.  One call at a time is a bound: how *)
(* overlapping calls count is in Scaling.                                  *)
ScaleBegin(to, old) ==
  /\ proc["Scale"].at = "idle"
  /\ scale' = [todo |-> record, left |-> old - to, to |-> to]
  /\ proc' = [proc EXCEPT !["Scale"].at = "walk"]
  /\ UNCHANGED <<mesos, kube, mirror, watcher, beat, config, client>>

ScaleRequest ==
  /\ Fault("scale")
  /\ \E to \in 0 .. MaxAgents \ {config.agents} : ScaleBegin(to, config.agents)

(* Mutant: too many for the first number, not for the new one.             *)
ScaleSurplusOfMax ==
  /\ Cardinality(record) > MaxAgents
  /\ ScaleBegin(config.agents, Cardinality(record))
  /\ UNCHANGED faults

ScaleSurplus ==
  /\ Cardinality(record) > config.agents
  /\ ScaleBegin(config.agents, Cardinality(record))
  /\ UNCHANGED faults

(* The next record, while agents are left to be killed.  (The rewriting of *)
(* the records is in Scheduler.)                                           *)
Walks(t) ==
  /\ proc["Scale"].at = "walk" /\ scale.left > 0
  /\ t \in scale.todo
Walked(t) == [scale EXCEPT !.todo = @ \ {t}, !.left = @ - 1]

(* A record that is gone by now counts all the same.                       *)
ScaleGone(t) ==
  /\ Walks(t) /\ t \notin record
  /\ scale' = Walked(t)
  /\ UNCHANGED <<mesos, kube, mirror, watcher, proc, beat, config, client, faults>>

(* The node that is mirrored for the agent is deleted first.               *)
ScaleNode(t) ==
  /\ Walks(t) /\ t \in record
  /\ Mirrored(t) => HasClient
  /\ IF Mirrored(t) THEN Delete(t) ELSE UNCHANGED <<kube, mirror, watcher, faults>>
  /\ proc' = [proc EXCEPT !["Scale"] =
                 IF Mirrored(t) THEN [at |-> "list", stack |-> <<NewCall>>, task |-> t, name |-> t]
                                ELSE [at |-> "kill", stack |-> <<>>, task |-> t, name |-> t]]
  /\ scale' = Walked(t)
  /\ UNCHANGED <<mesos, beat, config, client>>

(* DeleteNode without a client: the process dies, or only the request. As  *)
(* long as the API has no controller (app.go:169) the request dies anyway. *)
ScalePanic(t) ==
  /\ Walks(t) /\ t \in record /\ ~HasClient
  /\ \/ Mirrored(t) /\ Lose /\ UNCHANGED record
     \/ /\ scale.to # config.agents
        /\ proc' = [proc EXCEPT !["Scale"] = IdleProc] /\ scale' = IdleScale
        /\ UNCHANGED <<mesos, kube, mirror, watcher, beat, config, client>>
  /\ UNCHANGED faults

(* Five seconds later.                                                     *)
ScaleKill(t) ==
  /\ proc["Scale"].at = "kill" /\ proc["Scale"].task = t
  /\ Kill(t)
  /\ proc' = [proc EXCEPT !["Scale"] = [IdleProc EXCEPT !.at = "walk"]]
  /\ UNCHANGED <<kube, mirror, watcher, beat, config, scale, client>>

ScaleEnd ==
  /\ proc["Scale"].at = "walk" /\ \A t \in Tasks : ~Walks(t)
  /\ config' = [config EXCEPT !.agents = scale.to]
  /\ proc' = [proc EXCEPT !["Scale"] = IdleProc] /\ scale' = IdleScale
  /\ UNCHANGED <<mesos, kube, mirror, watcher, beat, client, faults>>

-----------------------------------------------------------------------------
(* The controller's heartbeat                                              *)

(* CreateClient waits for the kubeconfig.  The others use the client while *)
(* waitForKubernetesMasterReady still waits for the API to answer: that is *)
(* no step of its own.  The server stays where it is: a client keeps the   *)
(* address it began with.                                                  *)
ClientReady ==
  /\ ~HasClient /\ uploaded
  /\ client' = "creates"
  /\ UNCHANGED <<mesos, kube, mirror, watcher, proc, beat, config, scale, faults>>

(* CreateClient returns without a client: the process dies of a nil        *)
(* pointer.                                                                *)
ClientFails ==
  /\ ~HasClient /\ uploaded /\ Fault("no client")
  /\ Lose /\ UNCHANGED record

(* Mutant: the watch begins with the next change.                          *)
CreateControllerEmpty ==
  /\ client = "creates"
  /\ client' = "watches"
  /\ UNCHANGED <<mesos, kube, mirror, watcher, proc, beat, config, scale, faults>>

(* CreateController, beside the heartbeat: the watch begins with every     *)
(* node there is ...                                                       *)
CreateController ==
  /\ client = "creates"
  /\ client' = "watches"
  /\ dirty' = {t \in Tasks : Exists(t)}
  /\ UNCHANGED <<mesos, node, mirror, watcher, proc, beat, config, scale, faults>>

(* ... or one of its steps fails, and nobody tries again.                  *)
CreateControllerFails ==
  /\ client = "creates" /\ Fault("no watch")
  /\ client' = "blind"
  /\ UNCHANGED <<mesos, kube, mirror, watcher, proc, beat, config, scale>>

(* Mutant: the switch of the cordon request is not looked at.              *)
BeatDecideReady ==
  /\ beat = "idle" /\ HasClient
  /\ beat' = IF ~ReadyState THEN "cordon" ELSE "open"
  /\ UNCHANGED <<mesos, kube, mirror, watcher, proc, config, scale, client, faults>>

(* Mutant: nodes that are cordoned stay so.                                *)
BeatDecideCordon ==
  /\ beat = "idle" /\ HasClient
  /\ beat' = "cordon"
  /\ UNCHANGED <<mesos, kube, mirror, watcher, proc, config, scale, client, faults>>

BeatDecide ==
  /\ beat = "idle" /\ HasClient
  /\ beat' = IF ~ReadyState \/ config.disabled THEN "cordon" ELSE "open"
  /\ UNCHANGED <<mesos, kube, mirror, watcher, proc, config, scale, client, faults>>

BeatSet ==
  /\ beat # "idle"
  /\ SetNodes(beat = "cordon")
  /\ beat' = "idle"
  /\ UNCHANGED <<mesos, proc, config, scale, client, faults>>

-----------------------------------------------------------------------------
(* Requests and restarts                                                   *)

Cordon ==
  /\ Fault("cordon")
  /\ config' = [config EXCEPT !.disabled = ~@]
  /\ UNCHANGED <<mesos, kube, mirror, watcher, proc, beat, scale, client>>

Restart == Fault("restart") /\ Lose /\ UNCHANGED record

-----------------------------------------------------------------------------

(* The goroutines: the watcher has one worker, the controller one          *)
(* heartbeat, the scheduler one event loop.                                *)
Watching == CreateController \/ WatchSet \/ \E t \in Tasks : WatchGet(t)

CleanupStep(p) ==
  CleanupList(p) \/ CleanupReturn(p) \/ CleanupEnd(p) \/ \E t \in Tasks : CleanupDelete(p, t)

ReconcileLoop ==
  CleanupBegin \/ CleanupStep("Cleanup") \/ \E t \in Tasks : RemoveNotExisting(t)

EventLoop ==
  \/ \E t \in Tasks : UpdateUnknown(t) \/ UpdateEnd(t) \/ UpdatePanic(t)
  \/ CleanupStep("EventLoop")
  \/ UpdateCordon \/ UpdateForget

Scale ==
  \/ ScaleSurplus \/ CleanupStep("Scale") \/ ScaleEnd
  \/ \E t \in Tasks : ScaleGone(t) \/ ScaleNode(t) \/ ScalePanic(t) \/ ScaleKill(t)

Heartbeat == ClientReady \/ BeatDecide \/ BeatSet

Next ==
  \/ \E t \in Tasks :
       \/ AgentStarts(t) \/ AgentEnds(t)
       \/ Joins(t) \/ GetsReady(t) \/ GetsUnready(t) \/ GetsUnknown(t) \/ Reports(t)
       \/ KillUnready(t)
  \/ Upload \/ Watching \/ ReconcileLoop \/ EventLoop \/ Scale \/ Heartbeat
  \/ ClientFails \/ CreateControllerFails
  \/ Cordon \/ ScaleRequest \/ Restart

Spec == Init /\ [][Next]_vars

(* Every goroutine runs, the loops come round for ever, and Kubernetes     *)
(* finds out about a node whose kubelet is gone.  Heartbeat, that has a    *)
(* healthy server to look after, scales a surplus down again and again.    *)
(* Nothing is assumed of agents that start, join, get ready or fail, of    *)
(* requests, or of the kill by removeNotExistingAgents.                    *)
FairSpec ==
  /\ Spec
  /\ WF_vars(Upload \/ Heartbeat) /\ WF_vars(Watching)
  /\ WF_vars(ReconcileLoop) /\ WF_vars(EventLoop) /\ WF_vars(Scale)
  /\ WF_vars(\E t \in Tasks : GetsUnknown(t) \/ Reports(t))

-----------------------------------------------------------------------------
(* Properties                                                              *)

(* CleanupNodes calls itself through DeleteNode, which ignores the error   *)
(* of the deletion: the calls nest no deeper than there are nodes, plus    *)
(* one for each deletion that failed or node that came back.               *)
NestingBounded ==
  \A p \in Procs : Len(Frames(p)) <= Cardinality(Tasks) + faults + 1

(* SetUnschedule, SetSchedule and CheckReadyState go by the mirrors         *)
(* (controller.go:246, 270, 221), and an update from an outdated one is     *)
(* refused.  With a watch, a mirror that is not the node as it is now will *)
(* be written again: the watcher has the node in its queue, or has read it  *)
(* and not yet written - after restarts, deletions, nodes that come back    *)
(* under their old name, and a watcher that writes what it read before too. *)
AsItIs(t) == [obj |-> node[t], current |-> TRUE]
MirrorsFollow ==
  Watches => \A t \in Tasks :
    Exists(t) /\ Mirrored(t) /\ mirror[t] # AsItIs(t) =>
      t \in dirty \/ watcher = [task |-> t, copy |-> AsItIs(t)]

(* An agent that ended leaves nothing behind, neither record, node nor     *)
(* mirror, and its update does not come again: though the watcher may      *)
(* write the mirror out of what it has read before, the deletion fail, or  *)
(* find no mirror, and the process die of the update while there is no     *)
(* client.  (What is dead stays dead.)                                     *)
NoTrace(t) == t \notin record \cup ended /\ ~Exists(t) /\ ~Mirrored(t)
EndedLeaveNoTrace ==
  \A t \in Followed : <>[](life[t] = "dead") => <>[]NoTrace(t)

(* changelog.md:58, "Set Kubernetes agent nodes to unscheduled until all   *)
(* agent nodes are not ready": with all the agents ready for good, and no  *)
(* cordon, their nodes get schedulable and stay so, whatever the mirrors   *)
(* and the cordoning of HandleUpdate were behind with.  Not so if the      *)
(* controller stays without a watch: new nodes then have no mirrors.       *)
AllReady ==
  /\ ~config.disabled /\ client # "blind"
  /\ Cardinality({t \in Tasks : Running(t)}) = config.agents
  /\ \A t \in Tasks : Running(t) => node[t].ready = "True"
ReadyNodesOpen ==
  <>[]AllReady => <>[](\A t \in Tasks : Running(t) => ~node[t].unsched)

(* V0CordonUncordonAgent.go:50, "Nodes Cordoned, Scheduling will be        *)
(* disabled": the cordon reaches every node and is not undone by a         *)
(* heartbeat that had decided before (but for a controller without watch). *)
CordonHolds ==
  <>[](config.disabled /\ client # "blind") => <>[](\A t \in Tasks : Exists(t) => node[t].unsched)

(* Agents that are no longer wanted end, though KILL calls are lost, nodes *)
(* deleted by a call of Scale that goes no further, and the process dies   *)
(* of that deletion while there is no client: Heartbeat scales again.      *)
SurplusEnds ==
  <>[](config.agents = 0) => <>[](\A t \in Tasks : ~Running(t))
=============================================================================
