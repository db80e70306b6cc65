------------------------------ MODULE Scheduler ------------------------------
(***************************************************************************)
(* The scheduler of mesos-m3s: src/scheduler/*.go with the Redis helpers   *)
(* of src/redis/redis.go it is written on.                                 *)
(*                                                                         *)
(* A datastore, K3s server or K3s agent is wanted by saving a task record  *)
(* in Redis with an empty state (Heartbeat), queued for launch by          *)
(* CheckState (state "__NEW"), launched when an offer fits (HandleOffers), *)
(* followed by the status updates of Mesos (HandleUpdate) and by explicit  *)
(* and implicit reconciliation, and deleted when Mesos reports its end or  *)
(* a health check gives up on it.                                          *)
(*                                                                         *)
(* The processes are goroutines: ONE event loop, any number of Heartbeat   *)
(* and CheckState passes (each tick starts new ones, whether or not the    *)
(* previous ones are done), the ReconcileLoop.  They share Redis without a *)
(* transaction: every read-modify-write of a record is two steps here, and *)
(* so is a count followed by the save it allows.  A SCAN is one step.      *)
(***************************************************************************)
EXTENDS Naturals, Sequences, FiniteSets

CONSTANTS Tasks,       \* task identifiers; the Redis key is TaskName:TaskID
          KindOf,      \* the kind of each task (its TaskName)
          Max,         \* DSMax, K3SServerMax, K3SAgentMax
          Cap,         \* capacity of Framework.CommandChan
          Workers,     \* CheckState goroutines alive at the same time
          Beats,       \* Heartbeat goroutines alive at the same time
          Loop,        \* the event loop
          NoTask,
          Stored,      \* tasks that run, with their records, at the start
          Followed,    \* the tasks that the liveness properties follow: tasks
                       \* of a kind are interchangeable
          MaxFaults,   \* bound: restarts, lost connections, tasks that end
          MaxPending   \* bound: status updates on their way

Kinds == {"datastore", "server", "agent"}

ASSUME ConstantsAssumption ==
  /\ IsFiniteSet(Workers) /\ IsFiniteSet(Beats)
  /\ KindOf \in [Tasks -> Kinds]
  /\ Max \in [Kinds -> Nat]
  /\ Cap \in Nat \ {0}
  /\ MaxFaults \in Nat /\ MaxPending \in Nat
  /\ Stored \subseteq Tasks /\ IsFiniteSet(Stored)
  /\ Followed \subseteq Tasks
  /\ \A k \in Kinds : Cardinality({t \in Stored : KindOf[t] = k}) <= Max[k]
  /\ Loop \notin Workers \cup Beats /\ Workers \cap Beats = {}
  /\ NoTask \notin Tasks

VARIABLES rec,      \* Redis: the record of each task
          chan,     \* Framework.CommandChan: the queued commands
          loop,     \* the event loop
          chk,      \* the CheckState passes
          hb,       \* the Heartbeat passes
          mesos,    \* what the Mesos master runs
          updates,  \* status updates on their way to the framework
          faults    \* restarts, lost connections and ended tasks so far

vars == <<rec, chan, loop, chk, hb, mesos, updates, faults>>

-----------------------------------------------------------------------------
(* State                                                                   *)

(* A record, reduced to what the code branches on.  agent: Agent # "".     *)
(* info: what a later check needs from the lookups made on TASK_RUNNING    *)
(* succeeded, NetworkInfo for a datastore, MesosAgent.ID otherwise.        *)
TaskStates == {"none", "", "__NEW", "STAGING", "RUNNING"}
Record     == [state : TaskStates, agent : BOOLEAN, info : BOOLEAN]

NoRecord  == [state |-> "none",  agent |-> FALSE, info |-> FALSE]
NewRecord == [state |-> "",      agent |-> FALSE, info |-> FALSE]
Queued    == [state |-> "__NEW", agent |-> FALSE, info |-> FALSE]
Running(ok) == [state |-> "RUNNING", agent |-> TRUE, info |-> ok]

Recorded(t)  == rec[t].state # "none"
OfKind(k)    == {t \in Tasks : KindOf[t] = k}
RecordsOf(k) == {t \in OfKind(k) : Recorded(t)}

(* CountRedisKey("<kind>:*", "")                                           *)
Count(k) == Cardinality(RecordsOf(k))

(* Killed stands for FAILED, KILLED and FINISHED, which the agent resends  *)
(* until acknowledged; LOST and ERROR come from the master, once.          *)
TerminalButLost == {"KILLED", "ERROR"}   \* mutant: TASK_LOST is forgotten in the switch
Terminal == {"KILLED", "LOST", "ERROR"}
Statuses == Terminal \cup {"STAGING", "RUNNING"}
Update   == [task : Tasks, status : Statuses]
Up(t, s) == [task |-> t, status |-> s]

Live(t) == mesos[t] \in {"STAGING", "RUNNING"}

Checkers == Workers \cup {Loop}
Holders  == Checkers \cup Beats     \* processes that can hold a record copy

LoopAt == {"down", "idle", "check", "offer", "putback", "update"}
BeatAt == {"idle", "count", "recount", "start", "scale", "rewrite", "kill", "clean"}

TypeOK ==
  /\ rec \in [Tasks -> Record]
  /\ chan \in Seq(Tasks) /\ Len(chan) <= Cap
  /\ loop \in [at : LoopAt, task : Tasks \cup {NoTask}, held : Record, todo : SUBSET Tasks]
  /\ chk \in [Checkers -> [at : {"idle", "count", "send", "save"}, task : Tasks \cup {NoTask}]]
  /\ hb \in [Beats -> [at : BeatAt, kind : Kinds, task : Tasks \cup {NoTask},
                       held : Record, todo : SUBSET Tasks, kills : Nat, go : BOOLEAN]]
  /\ mesos \in [Tasks -> {"none", "STAGING", "RUNNING", "gone"}]
  /\ updates \subseteq Update
  /\ faults \in 0 .. MaxFaults

IdleLoop == [at |-> "idle", task |-> NoTask, held |-> NoRecord, todo |-> {}]
IdleChk  == [at |-> "idle", task |-> NoTask]
IdleBeat == [at |-> "idle", kind |-> "datastore", task |-> NoTask,
             held |-> NoRecord, todo |-> {}, kills |-> 0, go |-> FALSE]

Init ==
  /\ rec = [t \in Tasks |-> IF t \in Stored THEN Running(TRUE) ELSE NoRecord]
  /\ chan = <<>>
  /\ loop = [IdleLoop EXCEPT !.at = "down"]
  /\ chk = [c \in Checkers |-> IdleChk]
  /\ hb = [h \in Beats |-> IdleBeat]
  /\ mesos = [t \in Tasks |-> IF t \in Stored THEN "RUNNING" ELSE "none"]
  /\ updates = {}
  /\ faults = 0

(* The copy of t's record in the hands of a goroutine, yet to be written.  *)
Held(t) ==
  \/ loop.at = "update" /\ loop.task = t
  \/ \E c \in Checkers : chk[c].task = t
  \/ \E h \in Beats : hb[h].task = t

(* A UUID of util.GenUUID never comes back.  The finite set Tasks makes an *)
(* identifier that has left no trace anywhere stand for a new one.         *)
Traceless(t) ==
  /\ ~Recorded(t) /\ ~Held(t) /\ loop.task # t
  /\ \A i \in DOMAIN chan : chan[i] # t
  /\ \A u \in updates : u.task # t
  /\ \A h \in Beats : t \notin hb[h].todo
Fresh(t) == mesos[t] = "none" /\ Traceless(t)

-----------------------------------------------------------------------------
(* Mesos, as the framework sees it (external)                              *)

(* The updates on their way become ups: a bound of the model.              *)
Pending(ups) == Cardinality(ups) <= MaxPending /\ updates' = ups

(* A KILL call: lost on the way (its error is ignored), or carried out, or *)
(* answered with TASK_LOST when the master does not know the task.         *)
Kill(t, ups) ==
  \/ UNCHANGED mesos /\ updates' = ups
  \/ /\ Live(t)
     /\ mesos' = [mesos EXCEPT ![t] = "gone"]
     /\ Pending(ups \cup {Up(t, "KILLED")})
  \/ /\ ~Live(t)
     /\ UNCHANGED mesos
     /\ Pending(ups \cup {Up(t, "LOST")})

TaskRuns(t) ==
  /\ mesos[t] = "STAGING"
  /\ mesos' = [mesos EXCEPT ![t] = "RUNNING"]
  /\ Pending(updates \cup {Up(t, "RUNNING")})
  /\ UNCHANGED <<rec, chan, loop, chk, hb, faults>>

(* The task ends, or its agent is removed from the cluster.                *)
TaskEnds(t) ==
  /\ Live(t) /\ faults < MaxFaults
  /\ mesos' = [mesos EXCEPT ![t] = "gone"]
  /\ \E s \in {"KILLED", "LOST"} : Pending(updates \cup {Up(t, s)})
  /\ faults' = faults + 1
  /\ UNCHANGED <<rec, chan, loop, chk, hb>>

Recycle(t) ==
  /\ mesos[t] = "gone" /\ Traceless(t)
  /\ mesos' = [mesos EXCEPT ![t] = "none"]
  /\ UNCHANGED <<rec, chan, loop, chk, hb, updates, faults>>

-----------------------------------------------------------------------------
(* Subscription, restart and reconciliation                                *)

ReconcilableInfo == {t \in Tasks : rec[t].info}   \* mutant: those with a known MesosAgent

(* reconcile asks for the tasks whose Agent is known.  When there is none  *)
(* its list is empty, which is what implicitReconcile sends: Mesos answers *)
(* for every task it runs.  Answers come one by one and may be lost.       *)
Reconcilable == {t \in Tasks : Recorded(t) /\ rec[t].agent}

Answer(t) == Up(t, IF Live(t) THEN mesos[t] ELSE "LOST")

Reconcile(t) ==
  /\ IF Reconcilable = {} THEN Live(t) ELSE t \in Reconcilable
  /\ Pending(updates \cup {Answer(t)})
  /\ UNCHANGED <<rec, chan, loop, chk, hb, mesos, faults>>

(* Mutant: only the tasks that the framework knows an agent of.            *)
ImplicitReconcileKnown(t) ==
  /\ Live(t) /\ rec[t].agent
  /\ Pending(updates \cup {Answer(t)})
  /\ UNCHANGED <<rec, chan, loop, chk, hb, mesos, faults>>

ImplicitReconcile(t) ==
  /\ Live(t)
  /\ Pending(updates \cup {Answer(t)})
  /\ UNCHANGED <<rec, chan, loop, chk, hb, mesos, faults>>

(* EventLoop, SUBSCRIBED: reconcile, then a CheckState pass inside the loop *)
Subscribe ==
  /\ loop.at = "down"
  /\ loop' = [loop EXCEPT !.at = "check", !.todo = Tasks]
  /\ UNCHANGED <<rec, chan, chk, hb, mesos, updates, faults>>

SubscribeDone ==
  /\ loop.at = "check" /\ chk[Loop].at = "idle"
  /\ loop' = IdleLoop
  /\ UNCHANGED <<rec, chan, chk, hb, mesos, updates, faults>>

(* What the agents resend after the stream breaks.                         *)
Retained == {u \in updates : u.status = "KILLED"}

(* The connection to the master breaks: EventLoop returns, everything else *)
(* keeps running until the next subscription.                              *)
Disconnect ==
  /\ faults < MaxFaults
  /\ loop.at = "idle"
  /\ loop' = [IdleLoop EXCEPT !.at = "down"]
  /\ updates' = Retained
  /\ faults' = faults + 1
  /\ UNCHANGED <<rec, chan, chk, hb, mesos>>

(* The framework process restarts: what is not in Redis is lost.           *)
Restart ==
  /\ faults < MaxFaults
  /\ chan' = <<>>
  /\ loop' = [IdleLoop EXCEPT !.at = "down"]
  /\ chk' = [c \in Checkers |-> IdleChk]
  /\ hb' = [h \in Beats |-> IdleBeat]
  /\ updates' = Retained
  /\ faults' = faults + 1
  /\ UNCHANGED <<rec, mesos>>

-----------------------------------------------------------------------------
(* HandleUpdate                                                            *)

Deliverable(u) == loop.at = "idle" /\ u \in updates

(* A status that the agent resends stays when the acknowledgement is lost. *)
Acknowledge(u) == updates \ {u}
AckOutcomes(u) == {Acknowledge(u)} \cup (IF u.status = "KILLED" THEN {updates} ELSE {})

(* Mutant: an unknown task is acknowledged and left alone.                 *)
UpdateUnknownIgnored(u) ==
  /\ Deliverable(u) /\ ~Recorded(u.task)
  /\ updates' \in AckOutcomes(u)
  /\ UNCHANGED <<rec, chan, loop, chk, hb, mesos, faults>>

(* Nothing in Redis has this task id: kill it, unless it is lost anyway.   *)
UpdateUnknown(u) ==
  /\ Deliverable(u) /\ ~Recorded(u.task)
  /\ \E ups \in AckOutcomes(u) :
        IF u.status = "LOST" THEN UNCHANGED mesos /\ updates' = ups
                             ELSE Kill(u.task, ups)
  /\ UNCHANGED <<rec, chan, loop, chk, hb, faults>>

UpdateTerminal(u) ==
  /\ Deliverable(u) /\ Recorded(u.task) /\ u.status \in Terminal
  /\ rec' = [rec EXCEPT ![u.task] = NoRecord]
  /\ updates' \in AckOutcomes(u)
  /\ UNCHANGED <<chan, loop, chk, hb, mesos, faults>>

(* GetTaskFromEvent ... SaveTaskRedis, with two HTTP requests in between   *)
(* when the task runs; either may fail and leave its field empty.          *)
UpdateRead(u) ==
  /\ Deliverable(u) /\ Recorded(u.task) /\ u.status \notin Terminal
  /\ \E ok \in BOOLEAN :
       loop' = [at |-> "update", task |-> u.task, todo |-> {},
                held |-> IF u.status = "RUNNING"
                         THEN Running(ok)
                         ELSE [rec[u.task] EXCEPT !.state = u.status]]
  /\ updates' = Acknowledge(u)
  /\ UNCHANGED <<rec, chan, chk, hb, mesos, faults>>

UpdateSave ==
  /\ loop.at = "update"
  /\ rec' = [rec EXCEPT ![loop.task] = loop.held]
  /\ loop' = IdleLoop
  /\ UNCHANGED <<chan, chk, hb, mesos, updates, faults>>

-----------------------------------------------------------------------------
(* HandleOffers.  Which offer fits is left open (module Offers).           *)

OfferTake ==
  /\ loop.at = "idle" /\ chan # <<>>
  /\ loop' = [loop EXCEPT !.at = "offer", !.task = Head(chan)]
  /\ chan' = Tail(chan)
  /\ UNCHANGED <<rec, chk, hb, mesos, updates, faults>>

(* getOffer found none: the command goes back to the channel.              *)
OfferNone ==
  /\ loop.at = "offer"
  /\ loop' = [loop EXCEPT !.at = "putback"]
  /\ UNCHANGED <<rec, chan, chk, hb, mesos, updates, faults>>

(* The send blocks while the channel is full.                              *)
OfferPutBack ==
  /\ loop.at = "putback" /\ Len(chan) < Cap
  /\ chan' = Append(chan, loop.task)
  /\ loop' = IdleLoop
  /\ UNCHANGED <<rec, chk, hb, mesos, updates, faults>>

(* Mutant: HandleOffers does not return after the launch, and the command  *)
(* goes back to the channel.                                               *)
OfferAcceptKept ==
  /\ loop.at = "offer"
  /\ IF Live(loop.task)
     THEN /\ Pending(updates \cup {Up(loop.task, "ERROR")})
          /\ UNCHANGED mesos
     ELSE /\ mesos' = [mesos EXCEPT ![loop.task] = "STAGING"]
          /\ UNCHANGED updates
  /\ loop' = [loop EXCEPT !.at = "putback"]
  /\ UNCHANGED <<rec, chan, chk, hb, faults>>

(* ACCEPT.  A task id that is still running is refused with TASK_ERROR.    *)
OfferAccept ==
  /\ loop.at = "offer"
  /\ IF Live(loop.task)
     THEN /\ Pending(updates \cup {Up(loop.task, "ERROR")})
          /\ UNCHANGED mesos
     ELSE /\ mesos' = [mesos EXCEPT ![loop.task] = "STAGING"]
          /\ UNCHANGED updates
  /\ loop' = IdleLoop
  /\ UNCHANGED <<rec, chan, chk, hb, faults>>

(* The offer is no longer valid: TASK_LOST; or the call itself fails and   *)
(* HandleOffers returns its error: the command is gone, the record stays.  *)
OfferRefused ==
  /\ loop.at = "offer"
  /\ \/ UNCHANGED updates
     \/ Pending(updates \cup {Up(loop.task, "LOST")})
  /\ loop' = IdleLoop
  /\ UNCHANGED <<rec, chan, chk, hb, mesos, faults>>

-----------------------------------------------------------------------------
(* CheckState: a goroutine at each tick, and a pass inside the event loop  *)

(* The record is read, then the records of its kind are counted.  A pass   *)
(* sees a key at most once: for the workers, whose passes follow one       *)
(* another for ever, that makes no difference.                             *)
CheckRead(c, t) ==
  /\ chk[c].at = "idle" /\ rec[t].state = ""
  /\ c = Loop => loop.at = "check" /\ t \in loop.todo
  /\ chk' = [chk EXCEPT ![c] = [at |-> "count", task |-> t]]
  /\ loop' = IF c = Loop THEN [loop EXCEPT !.todo = @ \ {t}] ELSE loop
  /\ UNCHANGED <<rec, chan, hb, mesos, updates, faults>>

CheckCount(c) ==
  /\ chk[c].at = "count" /\ Count(KindOf[chk[c].task]) <= Max[KindOf[chk[c].task]]
  /\ chk' = [chk EXCEPT ![c].at = "send"]
  /\ UNCHANGED <<rec, chan, loop, hb, mesos, updates, faults>>

(* More records than instances: it is not scheduled, and a record that     *)
(* never was has a zero StateTime, which makes it a corrupt task.          *)
CheckCorrupt(c) ==
  /\ chk[c].at = "count" /\ Count(KindOf[chk[c].task]) > Max[KindOf[chk[c].task]]
  /\ rec' = [rec EXCEPT ![chk[c].task] = NoRecord]
  /\ chk' = [chk EXCEPT ![c] = IdleChk]
  /\ UNCHANGED <<chan, loop, hb, mesos, updates, faults>>

(* CommandChan <- task, before the record is saved.                        *)
CheckSend(c) ==
  /\ chk[c].at = "send" /\ Len(chan) < Cap
  /\ chan' = Append(chan, chk[c].task)
  /\ chk' = [chk EXCEPT ![c].at = "save"]
  /\ UNCHANGED <<rec, loop, hb, mesos, updates, faults>>

CheckSave(c) ==
  /\ chk[c].at = "save"
  /\ rec' = [rec EXCEPT ![chk[c].task] = Queued]
  /\ chk' = [chk EXCEPT ![c] = IdleChk]
  /\ UNCHANGED <<chan, loop, hb, mesos, updates, faults>>

-----------------------------------------------------------------------------
(* Heartbeat: a goroutine at each tick                                     *)

(* healthCheckDatastore                                                    *)
DatastoreHealthy ==
  \E t \in OfKind("datastore") : rec[t].state = "RUNNING" /\ rec[t].info

(* Which Start function a pass calls.  Whether a Kubernetes node is ready  *)
(* is not in the model: a server or agent can be unhealthy at any time.    *)
Wants(k) ==
  CASE k = "datastore" -> ~DatastoreHealthy
    [] k = "server"    -> DatastoreHealthy
    [] k = "agent"     -> Count("server") = Max["server"] /\ Max["server"] > 0

(* With every number at 0 a pass only suppresses the offers.               *)
Active == \E k \in Kinds : Max[k] > 0

BeatBegin(h, k) ==
  /\ hb[h].at = "idle" /\ Active /\ Wants(k)
  /\ hb' = [hb EXCEPT ![h] = [IdleBeat EXCEPT !.at = "count", !.kind = k]]
  /\ UNCHANGED <<rec, chan, loop, chk, mesos, updates, faults>>

(* defaultCommand makes the identifier.  Bound: when the pool has none     *)
(* left, the pass ends here.                                               *)
StartWith(h, k) ==
  \/ \E t \in OfKind(k) : Fresh(t) /\ hb' = [hb EXCEPT ![h].at = "start", ![h].task = t]
  \/ (\A t \in OfKind(k) : ~Fresh(t)) /\ hb' = [hb EXCEPT ![h] = IdleBeat]

(* Mutant: a pass that does not count.                                     *)
BeatCountSkipped(h) ==
  /\ hb[h].at = "count"
  /\ StartWith(h, hb[h].kind)
  /\ UNCHANGED <<rec, chan, loop, chk, mesos, updates, faults>>

(* The first count of StartDatastore, StartK3SServer and StartK3SAgent.    *)
BeatCount(h) ==
  LET k == hb[h].kind
      enough == IF k = "datastore" THEN Count(k) >= Max[k] ELSE Count(k) = Max[k]
  IN /\ hb[h].at = "count"
     /\ \/ enough /\ hb' = [hb EXCEPT ![h] = IdleBeat]
        \/ /\ ~enough /\ k # "datastore"
           /\ hb' = [hb EXCEPT ![h].at = "recount"]
        \/ /\ ~enough /\ k = "datastore"
           /\ StartWith(h, k)
     /\ UNCHANGED <<rec, chan, loop, chk, mesos, updates, faults>>

(* The second count: scale down what is too many, or start one more.  The  *)
(* third count, the argument of Scale, is read with it.                    *)
BeatRecount(h) ==
  LET k == hb[h].kind
  IN /\ hb[h].at = "recount"
     /\ \/ /\ Count(k) > Max[k]
           /\ hb' = [hb EXCEPT ![h].at = "scale", ![h].todo = RecordsOf(k),
                               ![h].kills = Count(k) - Max[k]]
        \/ /\ Count(k) <= Max[k]
           /\ StartWith(h, k)
     /\ UNCHANGED <<rec, chan, loop, chk, mesos, updates, faults>>

BeatStart(h) ==
  /\ hb[h].at = "start"
  /\ rec' = [rec EXCEPT ![hb[h].task] = NewRecord]
  /\ hb' = [hb EXCEPT ![h] = IdleBeat]
  /\ UNCHANGED <<chan, loop, chk, mesos, updates, faults>>

(* API.Scale: one record after the other is read, saved with its new       *)
(* Instances, and killed while there are too many.  Before that the node   *)
(* of an agent is deleted, which takes 5 seconds (Nodes has it).           *)
ScaleRead(h, t) ==
  /\ hb[h].at = "scale" /\ t \in hb[h].todo
  /\ hb' = [hb EXCEPT ![h].at = IF Recorded(t) THEN "rewrite" ELSE "scale",
                      ![h].task = IF Recorded(t) THEN t ELSE NoTask,
                      ![h].held = rec[t],
                      ![h].todo = @ \ {t},
                      ![h].kills = IF Recorded(t) \/ @ = 0 THEN @ ELSE @ - 1]
  /\ UNCHANGED <<rec, chan, loop, chk, mesos, updates, faults>>

ScaleWrite(h) ==
  /\ hb[h].at = "rewrite"
  /\ rec' = [rec EXCEPT ![hb[h].task] = hb[h].held]
  /\ hb' = [hb EXCEPT ![h].at = IF hb[h].kills > 0 THEN "kill" ELSE "scale",
                      ![h].task = IF hb[h].kills > 0 THEN @ ELSE NoTask,
                      ![h].held = NoRecord]
  /\ UNCHANGED <<chan, loop, chk, mesos, updates, faults>>

ScaleKill(h) ==
  /\ hb[h].at = "kill"
  /\ Kill(hb[h].task, updates)
  /\ hb' = [hb EXCEPT ![h].at = "scale", ![h].task = NoTask,
                      ![h].kills = IF @ = 0 THEN 0 ELSE @ - 1]
  /\ UNCHANGED <<rec, chan, loop, chk, faults>>

ScaleDone(h) ==
  /\ hb[h].at = "scale" /\ hb[h].todo = {}
  /\ hb' = [hb EXCEPT ![h] = IdleBeat]
  /\ UNCHANGED <<rec, chan, loop, chk, mesos, updates, faults>>

(* healthCheckNode finds a record without a ready node and past its        *)
(* timeout.  A record with an empty state has a zero StateTime and is past *)
(* any timeout; for the others the time is left open.                      *)
BeatUnready(h, t) ==
  LET k == KindOf[t]
  IN /\ hb[h].at = "idle" /\ Active /\ k # "datastore"
     /\ Recorded(t) /\ Count(k) = Max[k]
     /\ hb' = [hb EXCEPT ![h] = [IdleBeat EXCEPT !.at = "clean", !.kind = k, !.task = t,
                                                 !.held = rec[t], !.go = Wants(k)]]
     /\ UNCHANGED <<rec, chan, loop, chk, mesos, updates, faults>>

(* Mutant: a cleanup that only ever kills.                                 *)
BeatCleanKills(h) ==
  /\ hb[h].at = "clean"
  /\ Kill(hb[h].task, updates)
  /\ hb' = [hb EXCEPT ![h] = IdleBeat]
  /\ UNCHANGED <<rec, chan, loop, chk, faults>>

(* cleanupUnreadyTask, decided on the record read before; then the pass    *)
(* goes on to the Start function.                                          *)
BeatClean(h) ==
  LET t == hb[h].task
  IN /\ hb[h].at = "clean"
     /\ IF hb[h].held.info
        THEN UNCHANGED rec /\ Kill(t, updates)
        ELSE rec' = [rec EXCEPT ![t] = NoRecord] /\ UNCHANGED <<mesos, updates>>
     /\ hb' = [hb EXCEPT ![h] = IF hb[h].go
                                THEN [IdleBeat EXCEPT !.at = "count", !.kind = hb[h].kind]
                                ELSE IdleBeat]
     /\ UNCHANGED <<chan, loop, chk, faults>>

-----------------------------------------------------------------------------

MesosNext == \E t \in Tasks : TaskRuns(t) \/ TaskEnds(t) \/ Recycle(t)

LoopNext ==
  \/ Subscribe \/ SubscribeDone \/ UpdateSave
  \/ \E u \in updates : UpdateUnknown(u) \/ UpdateTerminal(u) \/ UpdateRead(u)
  \/ OfferTake \/ OfferNone \/ OfferPutBack \/ OfferAccept \/ OfferRefused

CheckNext ==
  \E c \in Checkers :
    \/ CheckCount(c) \/ CheckCorrupt(c) \/ CheckSend(c) \/ CheckSave(c)
    \/ \E t \in Tasks : CheckRead(c, t)

BeatNext ==
  \E h \in Beats :
    \/ BeatCount(h) \/ BeatRecount(h) \/ BeatStart(h)
    \/ ScaleWrite(h) \/ ScaleKill(h) \/ ScaleDone(h) \/ BeatClean(h)
    \/ \E k \in Kinds : BeatBegin(h, k)
    \/ \E t \in Tasks : ScaleRead(h, t) \/ BeatUnready(h, t)

Next ==
  \/ MesosNext \/ LoopNext \/ CheckNext \/ BeatNext
  \/ \E t \in Tasks : Reconcile(t) \/ ImplicitReconcile(t)
  \/ Disconnect \/ Restart

Spec == Init /\ [][Next]_vars

(* Mesos runs it, Redis knows nothing of it.                               *)
Orphan(t) == Live(t) /\ ~Recorded(t)

(* What the scheduling of the code justifies.  Every goroutine that can    *)
(* run does run; the master sends its events in order, so that the loop    *)
(* reaches each of them; ReconcileLoop asks again for ever; and a KILL     *)
(* repeated for ever gets through.  Nothing is assumed of offers, of task  *)
(* starts and ends, of restarts, or of Heartbeat.                          *)
Reconciles(t) == Reconcile(t) \/ ImplicitReconcile(t)

Settle(t) ==
  \E u \in updates :
    /\ u.task = t
    /\ UpdateUnknown(u) \/ UpdateTerminal(u) \/ UpdateRead(u)
    /\ Orphan(t) /\ u.status # "LOST" => ~Live(t)'

LoopFairness ==
  /\ WF_vars(Subscribe \/ SubscribeDone \/ UpdateSave)
  /\ WF_vars(OfferNone \/ OfferAccept \/ OfferRefused)
  /\ WF_vars(OfferPutBack)

CheckFairness ==
  \A c \in Checkers : WF_vars(CheckCount(c) \/ CheckCorrupt(c) \/ CheckSend(c) \/ CheckSave(c))

UpdateFairness == \A t \in Tasks : SF_vars(Reconciles(t)) /\ SF_vars(Settle(t))

FairSpec == Spec /\ LoopFairness /\ CheckFairness /\ UpdateFairness

(* Waiting for a launch that will not come: the command is nowhere.        *)
Lost(t) ==
  /\ rec[t].state = "__NEW" /\ ~Live(t)
  /\ loop.task # t /\ \A i \in DOMAIN chan : chan[i] # t

(* Heartbeat passes follow one another for ever, and a record whose task   *)
(* never starts has no node and gets older than every timeout.             *)
BeatFairness ==
  \A h \in Beats :
    /\ WF_vars(\E k \in Kinds : BeatBegin(h, k))
    /\ WF_vars(BeatCount(h) \/ BeatRecount(h) \/ BeatStart(h) \/ BeatClean(h))
    /\ WF_vars(ScaleWrite(h) \/ ScaleKill(h) \/ ScaleDone(h) \/ \E t \in Tasks : ScaleRead(h, t))
    /\ SF_vars(\E t \in Tasks : Lost(t) /\ BeatUnready(h, t))

BeatSpec == Spec /\ LoopFairness /\ CheckFairness /\ BeatFairness

-----------------------------------------------------------------------------
(* Safety                                                                  *)

(* Heartbeat passes overlap, and a record that was deleted comes back when *)
(* a goroutine writes the copy it had read before: the records of a kind   *)
(* still exceed the configured number by no more than the goroutines that  *)
(* can hold a copy at the same time.                                       *)
RecordsBounded ==
  \A k \in Kinds : Count(k) <= Max[k] + Cardinality(Holders)

(* A record is past "__NEW", or names an agent, only for a task that Mesos *)
(* did launch, whatever order updates, rewrites of old copies, answers to  *)
(* reconciliation and restarts come in.                                    *)
Claims(r) == r.state \notin {"none", "", "__NEW"} \/ r.agent
NoPhantomTask == \A t \in Tasks : Claims(rec[t]) => mesos[t] # "none"

-----------------------------------------------------------------------------
(* Implementation of Launching                                             *)

(* A command in the hands of HandleOffers is still the first in line.      *)
Waiting == IF loop.at \in {"offer", "putback"} THEN <<loop.task>> \o chan ELSE chan

Lives ==
  [t \in Tasks |-> IF mesos[t] = "none" THEN "new" ELSE IF Live(t) THEN "alive" ELSE "over"]

Noted ==
  [t \in Tasks |-> IF Claims(rec[t]) THEN "claimed" ELSE IF Recorded(t) THEN "waiting" ELSE "none"]

(* CheckState, HandleOffers, HandleUpdate, Heartbeat and Scale, each with  *)
(* its copies, launch as Launching says: no command is doubled, overtaken  *)
(* or used for a second launch, and no task starts without one.            *)
L == INSTANCE Launching WITH queue <- Waiting, life <- Lives, record <- Noted
Launches == L!LSpec

-----------------------------------------------------------------------------
(* Liveness                                                                *)

(* A task that runs without a record does not run for ever: its command    *)
(* was launched after the record was deleted, or TASK_ERROR deleted the    *)
(* record of a live task; the next answer about it makes HandleUpdate kill *)
(* it.                                                                     *)
OrphansEnd == \A t \in Followed : Orphan(t) ~> ~Orphan(t)

(* CheckState sends the command before it saves "__NEW", so the save can   *)
(* overwrite what HandleUpdate wrote about the launched task; the record   *)
(* of a running task still does not stay "__NEW" for ever.                 *)
Behind(t) == mesos[t] = "RUNNING" /\ rec[t].state = "__NEW"
RecordsCatchUp == \A t \in Followed : Behind(t) ~> ~Behind(t)

(* A record that names an agent is not kept for ever once its task is      *)
(* gone, even if the one update that said so was lost: reconcile asks      *)
(* again for every record with an agent.                                   *)
Forgotten(t) == rec[t].agent => mesos[t] # "gone"
GoneTasksForgotten == \A t \in Followed : ~Forgotten(t) ~> Forgotten(t)

(* A server or agent whose command was lost (restart, failed ACCEPT call)  *)
(* does not wait for ever: healthCheckNode deletes its record, while the   *)
(* number of records is the configured one.                                *)
LostServersRecalled ==
  \A t \in Followed \ OfKind("datastore") :
     Lost(t) ~> (~Lost(t) \/ Count(KindOf[t]) # Max[KindOf[t]])

(* The same for a datastore: heatbeat.go:52, "if DataStorage container is  *)
(* not running or unhealthy, fix it."                                      *)
LostDatastoresRecalled == \A t \in Followed \cap OfKind("datastore") : Lost(t) ~> ~Lost(t)

(* A command no offer fits goes back to the channel: handle_offers.go:102, *)
(* "we skip it and restore the chan".                                      *)
CommandRestored == loop.at = "putback" ~> loop.at # "putback"
=============================================================================
