------------------------------- MODULE Scaling -------------------------------
(***************************************************************************)
(* Scaling, stopping, starting and restarting the cluster: src/api/*.go    *)
(* with the configuration it changes (types.Config) and the copy of it in  *)
(* Redis that a new framework process starts from (src/app.go).            *)
(*                                                                         *)
(* Every HTTP request runs in a goroutine of its own and nothing orders    *)
(* them.  A handler is a sequence of operations on the shared              *)
(* configuration and on the task records; other requests, Heartbeat and    *)
(* the event loop run between any two of them, and between the records     *)
(* that one call of Scale walks through.                                   *)
(***************************************************************************)
EXTENDS Integers, Sequences, FiniteSets

CONSTANTS Tasks,      \* task identifiers
          KindOf,     \* the kind of each
          Limit,      \* bound: the largest number a request asks for
          Wanted,     \* DSMax, K3SServerMax, K3SAgentMax at the first start
          Menu,       \* the requests a run makes
          Reqs,       \* requests in progress at the same time
          Beat,       \* a Heartbeat pass
          MaxFaults   \* bound: crashes, lost KILL calls, tasks that fail

Kinds == {"datastore", "server", "agent"}

Restarts == {"cluster", "ds", "server", "agent"}
Requests == Restarts \cup {"scale", "shutdown", "start", "adjust"}

ASSUME ConstantsAssumption ==
  /\ IsFiniteSet(Tasks) /\ KindOf \in [Tasks -> Kinds]
  /\ Limit \in Nat /\ MaxFaults \in Nat
  /\ Wanted \in [Kinds -> 0 .. Limit]
  /\ Menu \subseteq Requests
  /\ Beat \notin Reqs

VARIABLES conf,    \* Config: max and restore of each kind
          saved,   \* framework_config in Redis
          task,    \* the records: "run", or "doomed" once its KILL is on its way
          proc,    \* what each request, and the Heartbeat pass, has left to do
          faults

vars == <<conf, saved, task, proc, faults>>

Processes == Reqs \cup {Beat}

-----------------------------------------------------------------------------
(* Operations and handlers                                                 *)

(* to: the number a scale asks for; Restored is read from the              *)
(* configuration when the scale begins.  old: oldCount of Scale.           *)
Restored == Limit + 1
Op(do, kinds, to) == [do |-> do, kinds |-> kinds, to |-> to, old |-> 0]
Operation == [do : {"remember", "save", "scale", "kill", "set", "wait", "start"},
              kinds : SUBSET Kinds, to : 0 .. Restored, old : Int]

Remember(kinds) == Op("remember", kinds, 0)
Save            == Op("save", {}, 0)
ScaleTo(k, n)   == Op("scale", {k}, n)
Wait(kinds)     == Op("wait", kinds, 0)

(* Mutant: the numbers are remembered when they are 0 already.             *)
ClusterStopLate(ds) ==
  <<Save, ScaleTo("agent", 0), ScaleTo("server", 0)>>
    \o (IF ds THEN <<ScaleTo("datastore", 0)>> ELSE <<>>) \o <<Remember(Kinds), Save>>

ClusterStop(ds) ==
  <<Remember(Kinds), Save, ScaleTo("agent", 0), ScaleTo("server", 0)>>
    \o (IF ds THEN <<ScaleTo("datastore", 0)>> ELSE <<>>) \o <<Save>>
ClusterStart ==
  <<ScaleTo("datastore", Restored), ScaleTo("server", Restored), ScaleTo("agent", Restored)>>
ServerAndAgentStop ==
  <<Remember({"server", "agent"}), Save, ScaleTo("agent", 0), ScaleTo("server", 0)>>
ServerStart == <<ScaleTo("server", Restored)>>   \* mutant: the agents are forgotten
ServerAndAgentStart == <<ScaleTo("server", Restored), ScaleTo("agent", Restored)>>
AgentStop  == <<Remember({"agent"}), ScaleTo("agent", 0)>>
AgentStart == <<ScaleTo("agent", Restored)>>

(* V0AdjustClusterResources compares the value, which has to be a number,  *)
(* with the names of the resources: none is ever changed, and what the     *)
(* request does is to save the configuration.                              *)
Adjust == <<Save>>

(* V0Restart and V0ClusterStart turn some requests down.                   *)
Accepted(name) ==
  /\ name \in Restarts => \E k \in Kinds : conf.max[k] # 0
  /\ name = "start"    => \E k \in Kinds : conf.max[k] = 0

Handler(name) ==
  CASE name = "shutdown" -> ClusterStop(TRUE)
    [] name = "adjust"   -> Adjust
    [] name = "start"    -> ClusterStart
    [] name = "cluster"  -> ClusterStop(FALSE) \o <<Wait({"server", "agent"})>> \o ClusterStart
    [] name = "ds"       -> ClusterStop(TRUE) \o <<Wait(Kinds)>> \o ClusterStart
    [] name = "server"   -> ServerAndAgentStop \o <<Wait({"server", "agent"})>> \o ServerAndAgentStart
    [] name = "agent"    -> AgentStop \o <<Wait({"agent"})>> \o AgentStart

-----------------------------------------------------------------------------
(* State                                                                   *)

Amounts == [Kinds -> 0 .. Limit]
Config  == [max : Amounts, restore : Amounts]

(* before and alone are history, for the properties only: whether the      *)
(* request has had the cluster to itself, and, if so, the configured       *)
(* numbers when it came.                                                   *)
Process == [name : Requests \cup {"none"}, ops : Seq(Operation), todo : SUBSET Tasks,
            before : Amounts, alone : BOOLEAN]

TypeOK ==
  /\ conf \in Config /\ saved \in Config
  /\ task \in [Tasks -> {"none", "run", "doomed"}]
  /\ proc \in [Processes -> Process]
  /\ faults \in 0 .. MaxFaults

Zero == [k \in Kinds |-> 0]
NoProcess == [name |-> "none", ops |-> <<>>, todo |-> {}, before |-> Zero, alone |-> FALSE]

Init ==
  /\ conf = [max |-> Wanted, restore |-> Zero]
  /\ saved = conf
  /\ task = [t \in Tasks |-> "none"]
  /\ proc = [p \in Processes |-> NoProcess]
  /\ faults = 0

OfKind(k)    == {t \in Tasks : KindOf[t] = k}
RecordsOf(k) == {t \in OfKind(k) : task[t] # "none"}
Count(k)     == Cardinality(RecordsOf(k))

Busy(p)  == proc[p].ops # <<>>
Quiet    == \A r \in Reqs : ~Busy(r)
At(p, d) == Busy(p) /\ Head(proc[p].ops).do = d
KindAt(p) == CHOOSE k \in Kinds : k \in Head(proc[p].ops).kinds

(* p is done with its first operation.                                     *)
Advanced(p) ==
  LET ops == proc[p].ops
  IN [proc EXCEPT ![p] =
        IF Len(ops) = 1 THEN NoProcess ELSE [proc[p] EXCEPT !.ops = Tail(ops)]]

-----------------------------------------------------------------------------
(* Requests                                                                *)

(* The program of an accepted request; every other one still running has   *)
(* company from now on.                                                    *)
Arrive(r, name, ops) ==
  /\ ~Busy(r) /\ name \in Menu /\ Accepted(name)
  /\ proc' = [p \in Processes |->
                IF p = r THEN [name |-> name, ops |-> ops, todo |-> {}, alone |-> Quiet,
                               before |-> IF Quiet THEN conf.max ELSE Zero]
                ELSE [proc[p] EXCEPT !.alone = FALSE, !.before = Zero]]
  /\ UNCHANGED <<conf, saved, task, faults>>

Request(r) ==
  \/ \E name \in Requests \ {"scale"} : Arrive(r, name, Handler(name))
  \/ \E k \in Kinds, n \in 0 .. Limit : Arrive(r, "scale", <<ScaleTo(k, n)>>)

(* Mutant: the amounts are remembered even when they are 0.                *)
DoRememberZero(p) ==
  /\ At(p, "remember")
  /\ conf' = [conf EXCEPT !.restore =
                [k \in Kinds |-> IF k \in Head(proc[p].ops).kinds THEN conf.max[k] ELSE @[k]]]
  /\ proc' = Advanced(p)
  /\ UNCHANGED <<saved, task, faults>>

(* "only if the amount is not 0": of all the kinds, or of none.            *)
DoRemember(p) ==
  /\ At(p, "remember")
  /\ LET K == Head(proc[p].ops).kinds
     IN conf' = IF \A k \in K : conf.max[k] # 0
                THEN [conf EXCEPT !.restore = [k \in Kinds |-> IF k \in K THEN conf.max[k] ELSE @[k]]]
                ELSE conf
  /\ proc' = Advanced(p)
  /\ UNCHANGED <<saved, task, faults>>

DoSave(p) ==
  /\ At(p, "save")
  /\ saved' = conf
  /\ proc' = Advanced(p)
  /\ UNCHANGED <<conf, task, faults>>

(* Mutant: the configuration is not saved.                                 *)
ScaleBeginUnsaved(p) ==
  /\ At(p, "scale")
  /\ LET k == KindAt(p)
         n == IF Head(proc[p].ops).to = Restored THEN conf.restore[k] ELSE Head(proc[p].ops).to
         kill == [Op("kill", {k}, n) EXCEPT !.old = conf.max[k]]
     IN proc' = [proc EXCEPT ![p].ops = <<kill, Op("set", {k}, n)>> \o Tail(@),
                             ![p].todo = RecordsOf(k)]
  /\ UNCHANGED <<conf, saved, task, faults>>

(* scaleServer, scaleAgent and scaleDatastore: the configured number is    *)
(* passed as oldCount, the configuration is saved, the records scanned.    *)
ScaleBegin(p) ==
  /\ At(p, "scale")
  /\ LET k == KindAt(p)
         n == IF Head(proc[p].ops).to = Restored THEN conf.restore[k] ELSE Head(proc[p].ops).to
         kill == [Op("kill", {k}, n) EXCEPT !.old = conf.max[k]]
     IN proc' = [proc EXCEPT ![p].ops = <<kill, Op("set", {k}, n)>> \o Tail(@),
                             ![p].todo = RecordsOf(k)]
  /\ saved' = conf
  /\ UNCHANGED <<conf, task, faults>>

(* A KILL call takes effect, or is lost: its error is ignored.             *)
Kill(t) ==
  \/ task[t] = "run" /\ task' = [task EXCEPT ![t] = "doomed"] /\ UNCHANGED faults
  \/ task[t] # "run" /\ UNCHANGED <<task, faults>>
  \/ task[t] = "run" /\ faults < MaxFaults /\ faults' = faults + 1 /\ UNCHANGED task

(* The loop of Scale: one record, killed while there are too many.         *)
ScaleTask(p, t) ==
  /\ At(p, "kill") /\ t \in proc[p].todo
  /\ IF Head(proc[p].ops).to < Head(proc[p].ops).old
     THEN Kill(t) ELSE UNCHANGED <<task, faults>>
  /\ proc' = [proc EXCEPT ![p].todo = @ \ {t}, ![p].ops[1].old = @ - 1]
  /\ UNCHANGED <<conf, saved>>

ScaleEnd(p) ==
  /\ At(p, "kill") /\ proc[p].todo = {}
  /\ proc' = Advanced(p)
  /\ UNCHANGED <<conf, saved, task, faults>>

(* Mutant: the request's number is added to the configured one.            *)
ScaleSetAdds(p) ==
  /\ At(p, "set")
  /\ conf' = [conf EXCEPT !.max[KindAt(p)] = @ + Head(proc[p].ops).to]
  /\ proc' = Advanced(p)
  /\ UNCHANGED <<saved, task, faults>>

(* The new number is stored after Scale has returned.                      *)
ScaleSet(p) ==
  /\ At(p, "set")
  /\ conf' = [conf EXCEPT !.max[KindAt(p)] = Head(proc[p].ops).to]
  /\ proc' = Advanced(p)
  /\ UNCHANGED <<saved, task, faults>>

(* The restarts poll Redis until every record is gone.                     *)
DoWait(p) ==
  /\ At(p, "wait")
  /\ \A k \in Head(proc[p].ops).kinds : Count(k) = 0
  /\ proc' = Advanced(p)
  /\ UNCHANGED <<conf, saved, task, faults>>

-----------------------------------------------------------------------------
(* Heartbeat, the event loop, and failures                                 *)

Wants(k) ==
  CASE k = "datastore" -> TRUE
    [] k = "server"    -> RecordsOf("datastore") # {}
    [] k = "agent"     -> Count("server") = conf.max["server"] /\ conf.max["server"] > 0

(* Mutant: too many records are left alone.                                *)
BeatCountUp(k) ==
  /\ ~Busy(Beat) /\ Wants(k) /\ \E j \in Kinds : conf.max[j] > 0
  /\ Count(k) < conf.max[k]
  /\ proc' = [proc EXCEPT ![Beat].ops = <<Op("start", {k}, 0)>>]
  /\ UNCHANGED <<conf, saved, task, faults>>

(* Count, then start one more or scale down; Scale saves the configuration *)
(* here too.                                                               *)
BeatCount(k) ==
  /\ ~Busy(Beat) /\ Wants(k) /\ \E j \in Kinds : conf.max[j] > 0
  /\ \/ /\ Count(k) < conf.max[k]
        /\ proc' = [proc EXCEPT ![Beat].ops = <<Op("start", {k}, 0)>>]
        /\ UNCHANGED saved
     \/ /\ k # "datastore" /\ Count(k) > conf.max[k]
        /\ proc' = [proc EXCEPT
             ![Beat].ops = <<[Op("kill", {k}, conf.max[k]) EXCEPT !.old = Count(k)]>>,
             ![Beat].todo = RecordsOf(k)]
        /\ saved' = conf
  /\ UNCHANGED <<conf, task, faults>>

(* The record is saved, whatever the configuration says by now.  Bound:    *)
(* nothing is saved when the pool of identifiers is used up.               *)
BeatStart ==
  /\ At(Beat, "start")
  /\ LET fresh == {t \in OfKind(KindAt(Beat)) : task[t] = "none"}
     IN \/ \E t \in fresh : task' = [task EXCEPT ![t] = "run"]
        \/ fresh = {} /\ UNCHANGED task
  /\ proc' = Advanced(Beat)
  /\ UNCHANGED <<conf, saved, faults>>

(* The update of a killed task: the record goes, and EventLoop saves the   *)
(* configuration after every update.                                       *)
TaskGone(t) ==
  /\ task[t] = "doomed"
  /\ task' = [task EXCEPT ![t] = "none"]
  /\ saved' = conf
  /\ UNCHANGED <<conf, proc, faults>>

TaskReports(t) ==
  /\ task[t] = "run"
  /\ saved' = conf
  /\ UNCHANGED <<conf, task, proc, faults>>

TaskFails(t) ==
  /\ task[t] = "run" /\ faults < MaxFaults
  /\ task' = [task EXCEPT ![t] = "none"]
  /\ saved' = conf
  /\ faults' = faults + 1
  /\ UNCHANGED <<conf, proc>>

(* A new process reads the saved configuration, and saves it.              *)
Crash ==
  /\ faults < MaxFaults
  /\ conf' = saved
  /\ proc' = [p \in Processes |-> NoProcess]
  /\ faults' = faults + 1
  /\ UNCHANGED <<saved, task>>

-----------------------------------------------------------------------------

Step(p) ==
  \/ DoRemember(p) \/ DoSave(p) \/ ScaleBegin(p) \/ ScaleEnd(p) \/ ScaleSet(p) \/ DoWait(p)
  \/ \E t \in Tasks : ScaleTask(p, t)

Next ==
  \/ \E r \in Reqs : Request(r)
  \/ \E p \in Processes : Step(p)
  \/ \E k \in Kinds : BeatCount(k)
  \/ BeatStart
  \/ \E t \in Tasks : TaskGone(t) \/ TaskReports(t) \/ TaskFails(t)
  \/ Crash

Spec == Init /\ [][Next]_vars

(* Handlers run to their end, Heartbeat comes back for ever and does not   *)
(* stop at one kind, and a killed task is reported.  Nothing is assumed of *)
(* requests and failures.                                                  *)
FairSpec ==
  /\ Spec
  /\ \A p \in Processes : WF_vars(Step(p))
  /\ \A k \in Kinds : SF_vars(BeatCount(k))
  /\ WF_vars(BeatStart)
  /\ \A t \in Tasks : WF_vars(TaskGone(t))

-----------------------------------------------------------------------------
(* Properties                                                              *)

(* clusterStop remembers the numbers it sets to 0, whatever shutdowns,     *)
(* starts and restarts overlap and wherever the process crashes: a number  *)
(* that is 0 can be brought back.  V0ClusterShutdown.go:32, "Save current  *)
(* amount of services for the case of restart but only if the amount is    *)
(* not 0".                                                                 *)
NumberRemembered == \A k \in Kinds : conf.max[k] = 0 => conf.restore[k] = Wanted[k]

(* While no request is in progress, the numbers a start would bring back   *)
(* are those that a new process would read.                                *)
RestoreDurable == Quiet => saved.restore = conf.restore

Finishes(r) == Busy(r) /\ Step(r) /\ proc'[r] = NoProcess

(* What a restart sets to 0.                                               *)
Stops(name) == CASE name \in {"cluster", "ds"} -> Kinds
                 [] name = "server" -> {"server", "agent"}
                 [] name = "agent"  -> {"agent"}

(* A restart that has the cluster to itself and finds a number for all it  *)
(* stops leaves every configured number as it was.                         *)
RestartRestores ==
  [][\A r \in Reqs :
       /\ Finishes(r) /\ proc[r].alone /\ proc[r].name \in Restarts
       /\ \A k \in Stops(proc[r].name) : proc[r].before[k] # 0
       => conf'.max = proc[r].before]_vars

(* A cluster is put to sleep and woken up: a shutdown that has the cluster  *)
(* to itself leaves every number at 0, and remembers those it found if none *)
(* of them was; a start brings back what is remembered.                     *)
ShutdownAndStart ==
  [][\A r \in Reqs :
       Finishes(r) /\ proc[r].alone
       => /\ proc[r].name = "shutdown" =>
               /\ conf'.max = Zero
               /\ (\A k \in Kinds : proc[r].before[k] # 0) => conf'.restore = proc[r].before
          /\ proc[r].name = "start" => conf'.max = conf'.restore]_vars

(* The restart of the agents ends: a KILL call that was lost, or an agent  *)
(* that a Heartbeat pass saved after Scale had scanned, is made up for by  *)
(* StartK3SAgent.                                                          *)
AgentRestartEnds ==
  \A r \in Reqs : proc[r].name = "agent" ~> proc[r].name # "agent"

(* V0Restart.go:47, "ClusterRestart will scale down all K8 instances and   *)
(* scale up again."                                                        *)
ClusterRestartEnds ==
  \A r \in Reqs : proc[r].name = "cluster" ~> proc[r].name # "cluster"

(* V0ScaleServer.go:61, "if scale down, kill not needes agents": what is   *)
(* killed is more than the new number.                                     *)
OnlySurplusKilled ==
  [][\A t \in Tasks :
       task[t] = "run" /\ task'[t] = "doomed"
       => \E p \in Processes :
            /\ At(p, "kill") /\ KindAt(p) = KindOf[t]
            /\ Head(proc[p].ops).to
                 < Cardinality({s \in OfKind(KindOf[t]) : task[s] = "run"})]_vars

(* V0ScaleServer.go:58, "Save current config": once a request is answered, *)
(* a new process starts from the number it set.                            *)
ScaleSurvivesCrash == [][Crash /\ Quiet => conf'.max = conf.max]_vars

(* V0ClusterShutdown.go:32, "Save current amount of services for the case  *)
(* of restart but only if the amount is not 0": for each service a         *)
(* shutdown remembers the amount it found.                                 *)
ShutdownRemembers ==
  [][\A r \in Reqs :
       Finishes(r) /\ proc[r].alone /\ proc[r].name = "shutdown"
       => \A k \in Kinds : proc[r].before[k] # 0 => conf'.restore[k] = proc[r].before[k]]_vars
=============================================================================
