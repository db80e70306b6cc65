# A TLA+ verification of mesos-m3s

mesos-m3s is a Mesos framework that runs a Kubernetes (K3s) cluster: it keeps
a configured number of datastores, K3s servers and K3s agents running as Mesos
tasks. This directory holds TLA+ modules of its scheduler, API and node
controller, the TLC configurations that check them on small instances, and
proofs, checked by TLAPS, of the invariants that matter most. Everything is
translated from the Go sources under `src/`; the Mesos master, the agents and
the Kubernetes API are modelled only as the code sees them.

## The system

| Part | Source | State | Operations |
|---|---|---|---|
| Event stream | `scheduler/scheduler.go`, `app.go` | connection, length of the next event, framework identifier | SUBSCRIBE and its repetition, reading of lines, SUBSCRIBED, HEARTBEAT, saving the identifier |
| Event loop | `scheduler/scheduler.go`, `handle_update.go` | task records | UPDATE, OFFERS; `reconcile`, `implicitReconcile` |
| Heartbeat and CheckState | `scheduler/heatbeat.go`, `server.go`, `agent.go`, `datastore.go` | two locks | health checks, Start functions, queueing of commands, cleanup |
| Host ports | `scheduler/scheduler.go` 195-287 | ports in the records | `getRandomHostPort`, `portInUse`, `changeDockerPorts`, `changeDiscoveryInfo` |
| Offers | `scheduler/handle_offers.go`, `prepare.go`, `mesos/mesos.go` | the event, the command in hand | matching, ACCEPT, DECLINE |
| Requests | `api/V0*.go` | `Config`: number and restore number of each kind | scale, shutdown, start, restart, adjust resources; cordon; remove the framework identifier |
| Redis | `redis/redis.go` | task records, saved configuration, mirrored nodes, kubeconfig | scan, get, save, delete, count |
| Startup | `app.go`, `init.go` | the command channel | reads the saved configuration, resubscribes for ever, starts the node controller |
| Node controller | `controller/*.go`, `controller_bin` | Kubernetes nodes and their mirrors | watcher, heartbeat, CleanupNodes, DeleteNode, SetSchedule, SetUnschedule |

The parts interact through shared memory and Redis, with no transaction and no
mutex anywhere:

- Heartbeat **wants** a task by saving a record with an empty state. CheckState
  chooses its host ports, sends it to `CommandChan` and saves `__NEW`.
  HandleOffers, in the event loop, receives it and launches it. HandleUpdate
  writes what Mesos reports, and deletes the record at the end. Health checks
  give up on records that are too old. Reconciliation asks Mesos again for what
  it runs.
- `HeartbeatLoop` starts new Heartbeat and CheckState goroutines at every tick,
  whether or not the previous ones are done; every subscription starts one more
  `HeartbeatLoop` and `ReconcileLoop`, and runs CheckState in the event loop.
- Every HTTP request runs in a goroutine of its own and changes the same
  `Config` that Heartbeat reads and the event loop saves.
- REVIVE and SUPPRESS, sent by Heartbeat, CheckState, Scale and the stop
  handlers, decide whether Mesos sends offers at all.
- The watcher of the node controller mirrors Kubernetes nodes in Redis.
  Everything but CleanupNodes decides on the mirrors: the controller's heartbeat
  and the cordon request set nodes (un)schedulable, HandleUpdate deletes the
  node of an agent that ended, and `removeNotExistingAgents` kills agents whose
  node is unknown. CleanupNodes calls DeleteNode, which calls CleanupNodes.

### What is hard, and what correctness means

The hazards are listed, each at its line, in `PROJECT.json`. By component:

- **Scheduler**: counting followed by saving, reading followed by saving, and
  sending followed by saving race with each other, with lost updates and with
  restarts. Correct: records never claim a task that was never launched, their
  number stays bounded, tasks without records end, records whose task is gone
  are forgotten, lost commands are recalled, the loop never blocks.
- **Event stream**: one wrong length puts the reader out of step, connections
  break between any two steps, and a request removes the identifier meanwhile.
  Correct: events are handled once and in order, a new framework is registered
  only when the old identifier is really gone, the framework is subscribed in
  the end.
- **Host ports**: nothing is reserved between the probe and the save. Correct:
  sharing is bounded by the overlap, and ports stay near the range. The code has
  this for ports it has looked up; an exhausted range is the exception.
- **Offers**: calls fail one by one, offers are rescinded meanwhile. Correct:
  every offer is answered, none is accepted after it was declined, none that
  fits is overlooked, a matched offer is launchable.
- **Requests**: overlap each other and Heartbeat, and the process may crash.
  Correct: a number set to 0 can be restored, a restart gives back what it
  found and ends, a scale survives a crash and kills the surplus only.
- **Suppression**: decided on health read before, guarded by two unsynchronised
  locks, by passes that overlap. Correct: a suppression is not repeated by every
  pass, what is configured runs at last though offers are suppressed at the wrong
  moment, no command waits for ever behind a suppression, and once all is well
  the offers stop. The code has the first, has the second but for datastores, and
  the third if passes do not overlap.
- **Nodes**: two copies of the truth, six goroutines, deletions that may fail,
  and a recursion. Correct: nothing is left of an agent that ended, nodes of
  healthy agents get schedulable, a cordon holds, agents too many end, the
  recursion ends.

## Modules

**`Scheduler.tla`** One event loop, `Beats` Heartbeat passes, `Workers`
CheckState passes, `CommandChan` with capacity `Cap`, the records in Redis, and
Mesos. A record is its state and two booleans: whether `Agent` is known, and
whether the lookups on TASK_RUNNING succeeded. Each read-modify-write of a
record is two actions, and so is a count and the save it allows; the copy in
between is state of the goroutine. Correspondence: `UpdateUnknown`,
`UpdateTerminal`, `UpdateRead`/`UpdateSave` are the branches of HandleUpdate;
`OfferTake` ... `OfferRefused` are HandleOffers with the choice of the offer left
open; `CheckRead`, `CheckCount`, `CheckCorrupt`, `CheckSend`, `CheckSave` are
CheckState; `BeatBegin` ... `BeatStart` are a Heartbeat pass into one Start
function, `ScaleRead`/`ScaleWrite`/`ScaleKill` its call of Scale, `BeatUnready`/`BeatClean`
the health check of nodes. A pass that calls two Start functions, or that makes
several health checks, appears as passes one after the other. Mesos loses KILL calls,
answers to reconciliation and unacknowledged updates; an agent resends KILLED
until it is acknowledged.

**`Offers.tla`** One OFFERS event: matching, the DECLINE of the others, ACCEPT,
the second DECLINE. Each call to the master is a step and may fail; the master
may rescind any offer at any time. It details the steps from `OfferTake` on, that
Scheduler leaves open.

**`Scaling.tla`** Requests as sequences of operations on the configuration and
the records (`Handler` is the program of each), interleaved with each other, with a
Heartbeat pass, with updates and with crashes. Scale expands into its three
parts: save the *old* configuration and scan, walk through the records, store
the new number. `adjust` is V0AdjustClusterResources, which compares the *value*
of the request with the names of resources (line 29 reads both from the same
variable), so that all it does is to save the configuration. Two fields of a
request, `before` and `alone`, are history used by properties only.

**`Suppression.tla`** Heartbeat with its two locks, CheckState's REVIVE and the
SUPPRESS of the stop handlers. `Beats` passes of Heartbeat overlap, for a tick does
not wait for the last one (heatbeat.go:131) and each subscription starts one more
loop (scheduler.go:131): which loop a pass belongs to makes no difference, so
`Resubscribe` resets the locks, and the passes of the new loop are some of `Beats`.
The health checks are one step (`BeatHealth`, or `BeatRecall` when
one of them deletes a record that has waited for too long); a pass is then
split at each call, at each write of a lock and at each Start function. `orderly` and
`calls` are history: whether no two passes have met and nothing was stopped, and the
SUPPRESS calls of Heartbeat since the lock was opened.

**`Launching.tla`** What the scheduler promises of commands, tasks and records: a
queue, what became of each task, and what Redis says of it. A task starts by the
command at the head of the queue and uses it up (`Launch`); a command goes back
to the end (`PutBack`) or is lost, and none is doubled; a record claims an agent
only for a task that was launched (`Note`). Scheduler implements it
(`Launches`): the queue is `chan`, behind the command that HandleOffers has in
its hands.

**`Delivery.tla`** What a reader of events promises, without framing: on a
connection they are handled in the order they were sent, each once, none left out.

**`EventStream.tla`** The connection to the master. What is on the wire is a
sequence of events; a line ends where the next event begins, so EventLoop has
the data of one event with the length of the next (`ReadLine`). Events have
lengths (`Size`), and what EventLoop does with a length that does not fit is
modelled although it never happens: that is the property. The identifier is in
four places: in memory (`id`), in Redis (`saved`), at the master (`registered`) and
on the connection (`mine`). `RemoveCheck` and `RemoveClear` are the two halves of
V0FrameworkRemoveID. It implements `Delivery` (`Delivers`).

**`Ports.tla`** CheckState passes that look for free ports and save them later.
The probe of one port against all the records is one step; a pass has as many
steps as it has ports to look at. `Holders` are the others that write back a
record they have read: Scale with the state it had, HandleUpdate with the one that
is reported. Any record may be deleted at any time.

**`Nodes.tla`** A node in the Kubernetes API (`node`) and in Redis (`mirror`). A
copy, in Redis or in the hands of the watcher, knows whether the node has changed
since, for an Update with an outdated resourceVersion is refused. Processes are
the watcher (`WatchGet`, `WatchSet`), the controller's heartbeat (`BeatDecide`,
`BeatSet`), a CleanupNodes pass of ReconcileLoop, the event loop at the end of an
agent (`UpdateEnd` ... `UpdateForget`) and a call of Scale, by a request or by
`StartK3SAgent` (`ScaleRequest`, `ScaleSurplus`), which both call CleanupNodes too.
Scale walks through the records of the agents; while there are agents too many it
deletes the mirrored node (`ScaleNode`, `ScalePanic` without a client), waits, and
kills the task (`ScaleKill`). One call at a time: how overlapping calls count is in
Scaling. The recursion of CleanupNodes
is a stack of frames: `CleanupDelete` deletes a node and calls, `CleanupList` is the list
the call makes, which may fail, `CleanupReturn` comes
back, deletes the mirror and kills the task. `RemoveNotExisting` and `KillUnready` are
`removeNotExistingAgents` for one mirror. What it asks of the record, TASK_RUNNING, is left
open, and that it kills is assumed nowhere. The controller gets its client (`ClientReady`), or dies of
having none (`ClientFails`); then, beside its heartbeat, a watch (`CreateController`), or none
for good (`CreateControllerFails`): the client is used all the same, but new nodes have no
mirrors. A node is named by its task, which it
carries as a label. The nodes of servers are not modelled, and the server
keeps its address.

`SchedulerProofs`, `OffersProofs`, `ScalingProofs`, `SuppressionProofs`,
`EventStreamProofs`, `PortsProofs` and `NodesProofs` have the theorems about these
modules. The `MC*.tla` modules declare model values, give each task its kind and
define symmetry sets; the `.cfg` files give the constants their values.

The specifications are not composed into one, except for the two refinements,
of Launching by Scheduler and of Delivery by EventStream: Scheduler has the records with the numbers fixed, Scaling the numbers
with records reduced to "runs" or "killed", Ports the ports of the records,
Suppression the calls that govern offers, Offers what happens within one event,
EventStream when there are events at all, Nodes what follows from the life of
agents. Each abstracts the others by nondeterminism: an offer may or may not
fit, a record may appear whenever a pass has counted, an agent may be launched
whenever a record is missing.

## What the runs check

All of them end without an error.

| Run | Properties | Shows |
|---|---|---|
| `scheduler` | `TypeOK`, `NoPhantomTask`, `OrphansEnd`, `RecordsCatchUp`, `GoneTasksForgotten` | no record claims an agent or a task state that Mesos never gave it; what the races break otherwise, and a lost end of a task, reconciliation repairs |
| `servers` | `NoPhantomTask`, `LostServersRecalled`, `Launches` | a server whose command was lost is recalled by the node health check; restarts, lost launches and repeated commands keep Launching |
| `bound` | `RecordsBounded`, `Launches` | overlapping passes overshoot by at most the goroutines alive; commands put back into a channel with others keep Launching |
| `scaling` | `TypeOK`, `NumberRemembered` | shutdowns, starts and cluster restarts can overlap, and crash, without forgetting a number |
| `restart` | `RestartRestores`, `ShutdownAndStart`, `RestoreDurable` | a restart gives back what it found, a shutdown remembers it and a start brings it back; between requests the restore numbers in Redis are those in memory |
| `agents` | `AgentRestartEnds` | the agent restart ends despite a lost KILL |
| `offers` | `TypeOK`, `OffersAnswered`, `TakenIsHeld`, `NoFitOverlooked` | every path through HandleOffers |
| `suppression` | `TypeOK`, `SuppressionsBounded`, `AllRunAtLast`, `StarvationEnds` | with two overlapping passes, stop requests and a lost call: Heartbeat makes no more SUPPRESS calls between two openings of the lock than there are passes; once a datastore runs, all servers and agents run at last; if no passes overlap and nothing is stopped, no command waits for ever for suppressed offers |
| `nodes` | `MirrorsFollow`, `EndedLeaveNoTrace`, `ReadyNodesOpen` | an agent, its successor and one fault, a restart, no client or no watch: nothing is left of the first; with a watch the nodes of the second get schedulable, and a mirror that is outdated will be written |
| `faults` | `TypeOK`, `NestingBounded`, `EndedLeaveNoTrace`, `CordonHolds`, `SurplusEnds` | one agent and two faults of eleven kinds: still nothing is left of it, a cordon reaches its node and holds, an agent that is no longer wanted ends, and the recursion is no deeper than there are nodes, and one more for each deletion that fails |
| `events` | `TypeOK`, `InStep`, `Delivers`, `RegistersOnce`, `SubscribesAtLast` | the framing implements Delivery; the identifier survives broken connections and crashes; the framework is subscribed in the end |
| `ports` | `TypeOK`, `SharingBounded`, `ChosenNearRange` | no more tasks share a port of a successful search than there are passes and holders; ports leave the range only a little, or are counted from 0 when it is exhausted, and then shared without bound |

`StarvationEnds` has a premise, `<>[]orderly`: no two passes of Heartbeat ever overlap
and no request stops anything. Without the first it fails
(`MCSuppression_passes.cfg` below), and without the second too, since agentStop suppresses behind the
back of the locks (`MCSuppression_stop.cfg`). So it is no cover for the hazards of
overlapping passes; `AllRunAtLast` is, which has neither premise. It does not
rest on the locks: a server or agent that waits for offers is deleted in the end
(`BeatRecall`), and CheckState asks for offers for its successor without a look at
them. No health check deletes a datastore, and so the property begins where one
runs for good. `MirrorsFollow`, `ReadyNodesOpen` and `CordonHolds` are about a controller that has its watch:
nobody retries a CreateController that fails (controller.go:102-133). `RegistersOnce`
allows the three ways to lose an identifier (`lost`) and rules out any other.
`SubscribesAtLast` and `ReadyNodesOpen` have premises for what the program cannot
help: a master that has removed the framework, agents that do not stay ready.

### Where the code does not have the property

The configurations below are no part of the runs. Each checks one property,
stated and commented in its module, often in the words of a comment or document
of the code, and ends in a counterexample.

| Configuration | Property | What happens |
|---|---|---|
| `MCScheduler_datastore.cfg` | `LostDatastoresRecalled` | a datastore whose command was lost is never recalled: `StartDatastore` (datastore.go:16) only counts records, and no health check (heatbeat.go:52) deletes them |
| `MCScheduler_full.cfg` | `CommandRestored` | the event loop puts a command back (handle_offers.go:105) into a full channel, that only it empties, and blocks |
| `MCScaling_surplus.cfg` | `OnlySurplusKilled` | scaling down before all instances are up (V0ScaleServer.go:70) kills instances that are wanted |
| `MCScaling_wait.cfg` | `ClusterRestartEnds` | ClusterRestart waits for ever for a server record that Heartbeat saved late |
| `MCScaling_crash.cfg` | `ScaleSurvivesCrash` | the configuration is saved before it is changed |
| `MCScaling_shutdown.cfg` | `ShutdownRemembers` | a cluster without agents shuts down without remembering its numbers |
| `MCScaling_overlap.cfg` | `NumberRemembered` | overlapping server and agent restarts forget the number of servers |
| `MCOffers_launch.cfg` | `MatchedIsLaunchable` | an offer with one of two ports (mesos.go:233), or without the disk (mesos.go:207), matches |
| `MCEventStream_remove.cfg` | `RegisteredKept` | an identifier is removed though the framework has registered since the master was asked (V0FrameworkRemoveID.go:66) |
| `MCPorts_exhausted.cfg` | `AllSharingBounded` | an exhausted search returns 0 (scheduler.go:216), and ports counted from 0 are given to any number of tasks (scheduler.go:275), by a single pass |
| `MCSuppression_stop.cfg` | `NeverStarved` | agentStop suppresses without releasing the lock: a queued datastore starves |
| `MCSuppression_passes.cfg` | `NeverStarved` | two overlapping Heartbeat passes suppress with the revive lock taken |
| `MCSuppression_settle.cfg` | `SettlesSuppressed` | a new subscription between SUPPRESS and its lock: offers are on for ever |
| `MCSuppression_agentless.cfg` | `SettlesSuppressed` | with no agents configured, offers are never suppressed |

`ChosenInRange` of Ports (docs/src/vars.md:62, the range of ports that the program
uses) fails too: the search ends where the first of several ports reaches the end
of the range, and an exhausted range gives ports counted from 0. What does hold is
`ChosenNearRange`.

### Bounds

- Scheduler: two identifiers of a kind are enough for a task and its
  successor; identifiers without a trace are used again (`Fresh`, `Recycle`), so
  runs do not end. The identifiers of a kind are interchangeable, so the
  liveness properties need to speak of one of each only, the constant `Followed`.
  One worker beside the event loop makes two CheckState passes overlap, one
  Heartbeat pass overlaps with all of them. `MaxFaults` counts restarts, lost
  connections and tasks that end: `scheduler` needs two, an end and the
  connection that loses its update; `servers` one, the restart that loses the
  command (a failed ACCEPT is not counted). `MaxPending` bounds updates on their way, one in `scheduler` and
  `servers`. `Cap` is larger than what a run can queue, except in `bound`.
- `servers` has one server identifier, so that a server without a command can
  only be helped by the health check, never by a second server; the rewrites
  of Scale, which need one server too many, happen in `bound`. That
  `NoPhantomTask` survives them too is proved for all constants.
- `bound` has five server identifiers, so that the bound of 1 + 3 records can be
  exceeded if it is wrong; no updates are pending, for what counts are
  the passes.
- Deadlock is checked except in `bound`, where with `Cap = 2` the standstill
  of `MCScheduler_full.cfg` is reachable.
- Scaling: one instance of each kind, up to 2 in `restart`, where
  a scale goes up, or down without reaching 0; two requests in `scaling`, where
  they overlap, one elsewhere. `scaling` and `restart` have a single task: their
  properties are about the configuration, and Scale's walk through the
  records does not touch it. `restart` has no crash: each amount that is
  remembered is saved by a later step of the same request, and a crash in
  between takes back both.
- Offers: five offers on two hosts, each lacking something different, three per
  event, one failed call.
- Suppression: one task of each kind, two Heartbeat passes, two faults (failing
  tasks, new subscriptions, requests that stop the agent, lost calls), of which one
  may be a lost call (187,422 states). That a pass starts a task while another is about to suppress takes
  one fault, the task that failed. `SuppressionsBounded` is proved for any number of passes.
- Nodes: `nodes` has two agents, one at a time, so that one succeeds the other
  (329,524 states): what the mirrors say of the first meets what the controller
  decides for the second. An agent ends here by the KILL of CleanupNodes only, which
  finds its node unready before it gets ready. The nodes of the two are interchangeable, and
  `EndedLeaveNoTrace` speaks of one (`Followed`). One fault: the restart, the client or the
  watch. `faults` has one agent and two faults out of eleven kinds, all but the client, in any combination
  (467,417 states): an agent that ends or is scaled down, for one, and what
  goes wrong about that. The configured number goes from one to none and back.
- EventStream: three identifiers, so that one can be connected, another be saved
  and a third be removed at a time; three events on the wire, where a line needs
  two; two faults (10,277 states). All four kinds of events differ in length.
- Ports: one datastore, one server, two agents, which want one, two and two
  ports; two passes and one holder; a range of three ports, so that it is exhausted
  by what four tasks want (1,216,240 states up to symmetry). Identifiers are used again.

### Fairness

- `Scheduler!FairSpec`: every goroutine that can take a step takes it; events of
  the stream are handled in turn, so each answer about a task is reached
  (`Settle`); `ReconcileLoop` asks again for ever (strong fairness: the bound
  `MaxPending` may disable an answer in between); a KILL repeated for ever gets
  through once. Nothing is assumed of offers, task starts and ends, restarts or Heartbeat.
- `Scheduler!BeatSpec`: the ticker starts Heartbeat passes for ever; they reach
  their end; a record whose task never starts gets older than every timeout.
- `Scaling!FairSpec`: handlers run to their end, Heartbeat passes come back for
  every kind, a killed task is reported.
- `Suppression!FairSpec`: passes follow one another, CheckState passes too, and
  while offers come one will fit. A command that waits gets older than every
  timeout, so that some pass deletes its record, unless it is a datastore's; CheckState, which
  starts at the same ticks, meets a new record first now and then. A restart reaches its second half; a
  shutdown has none.
- `Nodes!FairSpec`: the watcher, the loops, the heartbeat and the event loop run;
  the server's container uploads the kubeconfig at last (it tries for ever); ReconcileLoop
  comes to each mirror without a task; Scale goes on, and Heartbeat, as long as a server is healthy, calls it
  again when there are too many agents; Kubernetes finds out about nodes whose kubelet is gone
  (`GetsUnknown`), and kubelets report every few minutes (`Reports`). Nothing is assumed of
  agents that start, join, fail or get ready, or of requests.
- `EventStream!FairSpec`: the loop of `app.go` subscribes for ever, EventLoop reads
  what there is and ends what it handles, a request that was begun ends. Of the
  master: it closes a connection it has refused, gives up frameworks that nobody
  comes back for, and sends HEARTBEAT events for ever (strong fairness: the bound
  `MaxWire` may disable one in between). From this follows `Delivery!DFairSpec`.

## What is proved

For every value of the constants that satisfies `ConstantsAssumption`: any number
of tasks, passes, requests, offers, nodes and faults.

| Module | Theorems about the runs' properties | Inductive invariant |
|---|---|---|
| `SchedulerProofs` | `TypeCorrect`, `NoPhantomTasks`, `RecordsStayBounded`, `ImplementsLaunching` | `TypeOK /\ Coherent /\ NoPhantom /\ FootprintBounded` |
| `OffersProofs` | `TypeCorrect`, `AllOffersAnswered`, `AcceptedIsHeld`, `NothingOverlooked` | `TypeOK /\ InHand /\ NotDeclined /\ Accounted /\ NoMatch` |
| `ScalingProofs` | `TypeCorrect`, `RestoreNumbersDurable`, `NumbersRemembered`, `RestartsRestore`, `SleepsAndWakes` | `TypeOK /\ Programs /\ BeatOnlyKills /\ SaveAhead`, with it `NInv` and `RInv` |
| `SuppressionProofs` | `TypeCorrect`, `CallsBounded` | `TypeOK /\ CallsCounted` |
| `EventStreamProofs` | `TypeCorrect`, `StaysInStep`, `RegisteredOnce`, `ImplementsDelivery` | `TypeOK /\ Wired /\ InStep /\ Announced /\ Kept` |
| `PortsProofs` | `TypeCorrect`, `NearRange`, `PortsShared` | one for each, see below |
| `NodesProofs` | `TypeCorrect`, `CleanupNestingBounded`, `OutdatedIsWritten` | `TInv /\ HadLife /\ \A p \in Procs : StackOK(proc[p].stack)`; `FInv` |

**Scheduler.**

- `Coherent`: a process about to write a record knows which one (program
  counter and task agree).
- `NoPhantom`: `NoPhantomTask` for records alone is not inductive, since a
  record is also written from copies, pending updates and the copies in the hands of Scale
  and of cleanup: all of them speak of launched tasks only, and Mesos forgets a
  task only when nothing of it is left.
- `FootprintBounded`: `RecordsBounded` is not inductive, since a deleted record comes
  back when a goroutine writes its copy; what is bounded is the set of tasks
  that are recorded *or* held. A pass adds to it only after it has counted no
  more than `Max` records, when the copies add at most one per goroutine.
- `ImplementsLaunching` rests on the first three. A command that HandleOffers
  holds is mapped to the head of the queue, so taking it is no step of
  Launching, and ACCEPT, its failure and putting it back are steps of the head.
  `Coherent` says that the record a goroutine writes is the one of its task, and
  `NoPhantom` that a copy claims launched tasks only, which is what `Note` asks of
  a record; that nothing is left of an identifier that is used again (`Renew`) is
  `Traceless`. Each action has a lemma of its own (`MesosLaunches` ...
  `BeatLaunches`).

**Offers.** `InHand`: what is in hand (command, offer) agrees with where HandleOffers
is. `NotDeclined`: the offer taken has not been declined. `Accounted`: an offer that is
out is still owed an answer in this event, or its last answer was lost. `NoMatch`:
without an offer taken, none of the event matches. `NothingOverlooked` rests on the
assumption that every command maps a port, which is so for all three Start
functions: a command without ports would match no offer.

**Scaling.** `Programs`: what is left to do of a request is a well-formed program,
in which a Scale that was begun ends. `BeatOnlyKills`: Heartbeat's pass changes no
number. `SaveAhead`: restore numbers that Redis does not have yet will be saved by a
request in progress; this makes `RestoreDurable` inductive, for a crash brings the
saved ones back and ends the requests. `NumberRemembered` is proved under
`WholeCluster`: all requests are for the whole cluster, and some of everything is
wanted; without it the overlap of `MCScaling_overlap.cfg` forgets a number. `Numbers` says it of the
configuration in memory *and* of the saved one, which a crash brings back;
`Relied`: a request that has remembered, and has still to set a number to 0, finds
the restore numbers in place, whatever other requests did in between.

`RestartRestores` and `ShutdownAndStart` speak of the last step of a request and of
the numbers found at its first; `RInv` says what holds in between. `Alone`: a request
that has had the cluster to itself so far has it still. `RestartsOnCourse`: of the
operations that are left, either the first is to remember, and no number has changed
yet, or the restore numbers are those that were found; and of each kind (`Mends`),
either the last operation that sets its number brings it to where the request is to
leave it, or no operation sets it any more and it is there. Where that is, `Aim` says:
0 for a shutdown, the restore number for a start, the number found for a restart.
When no operation is left, these are the two properties. Scale needs a step of its own
(`BeginMends`): what it sets the number to is fixed when it begins, which for a
restart is after the restore numbers are in place. The theorems need no
`WholeCluster`. A restart that finds a number at 0 is beyond `RestartRestores`, as it
remembers nothing; a shutdown that does leaves 0 all the same.

**Suppression.** `SuppressionsBounded` is proved without an assumption on passes, requests
or numbers. It is not inductive: a pass that has found the lock open may call when it is
taken. `CallsCounted`: while the lock is open, each call since it was opened belongs to a pass that
has yet to take it; and the calls, with those of the passes that are about to call, are no
more than there are passes.

**EventStream.** `Wired`: a connection has an event to be handled, as an event is
handled only when the next is there. `Announced`: what SUBSCRIBED says is what the
master has noted. `Kept`: unless something has made the identifier get lost, it is in
memory or on its way, and in Redis but for the time that the handler takes. `InStep` is
inductive with these. `ImplementsDelivery` is the safety part of the refinement:
initial states map to initial states, each step to a step of `Delivery` or none.

**Ports.** `FromTemplate`: ports are the template's, or as many as the template's.
`AllNear`: `ChosenNearRange` for the copies too. `HavingBounded`: `SharingBounded` is not inductive,
for a copy with a port is as good as a record that has it; what is bounded is the
set of tasks that have a port in a record, in a copy, or in what a pass has found. It is so
for ports above `From`; any other that was chosen is `Unprobed`, by `AllNear`.

**Nodes.** `TInv` is `TypeOK` with `Stacked`: a process has calls just while it
cleans up. A deletion that succeeds takes the node off all lists that are made
later, so the calls of a stack have different nodes, but for those that are
`Reopened`: their node is there, or a later call knows it. `StackOK` bounds these by
the faults, and the rest by the number of nodes. `HadLife`: only a task that
has joined has a node, so the first time a node joins no call knows of it.
`MirrorsFollow` needs two more facts (`FInv`). `Honest`: a copy of a node that the API
server would accept, the mirror or what the watcher has read, is the node as it is. `Requeued`: when the one the watcher has read is outdated, the node is in its
queue again. So the copy that the watcher is about to write is the node, or the
node is written once more after it.

## Only model-checked

All liveness properties, which are out of the prover's reach: the temporal
properties of `scheduler`, `servers`, `agents`, `suppression`, `nodes`, `faults`
and `events`, and with them the fairness part of `Delivers`.

## Not modelled

- The generated protobuf package: 26,564 of the 31,955 lines of Go, without
  behaviour of this program. Of the 5,391 lines that are left much is logging,
  parsing of the environment, the contents of the commands (arguments,
  environment, volumes, labels) and HTTP plumbing, in which nothing can go wrong
  over time.
- What concerns the server's address (`K3SServerHostname`, `K3SServerPort`), and so a
  Kubernetes client that outlives its server; `updateServerLabel`, `setTaint`,
  `loadDefaultYAML` and the nodes of servers.
- The read-only API, authentication, plugins, the bootstrap scripts, the command
  line client, the reconnection to Redis.
- The REVIVE that Scale sends when the new number is larger (Suppression), and
  records that Scale rewrites after they were deleted in Nodes (they are in Scheduler).

## Plan

1. Offers as a refinement of the offer steps of Scheduler.
2. `Endpoint.tla`: the server's address, from CheckState's choice of the port over
   HandleUpdate to the clients that use it.
