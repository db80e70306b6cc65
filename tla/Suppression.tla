------------------------------ MODULE Suppression ------------------------------
(***************************************************************************)
(* When the framework asks Mesos for offers (REVIVE) and when it asks for  *)
(* none (SUPPRESS): Heartbeat with its two locks, CheckState, and the      *)
(* handlers of src/api that suppress on their own.                         *)
(*                                                                         *)
(* The locks are package variables that every Heartbeat pass reads before  *)
(* its call and writes after it, one after the other.  A tick does not     *)
(* wait for the passes of the last one (heatbeat.go:131), and every        *)
(* subscription starts one more loop (scheduler.go:131): any two passes    *)
(* may overlap.  A record is no more than the stage its task is at;        *)
(* Scheduler has what happens to records, and there a count and the save   *)
(* that follows are not one step as they are here.  The REVIVE that        *)
(* API.Scale makes when it meets a record of a larger number               *)
(* (V0ScaleServer.go:81) is left out: it needs one that the shutdown left, *)
(* and here a stopped task is gone at once.                                *)
(***************************************************************************)
EXTENDS Naturals, FiniteSets

CONSTANTS Tasks,     \* task identifiers
          KindOf,    \* the kind of each
          Wanted,    \* DSMax, K3SServerMax, K3SAgentMax
          Beats,     \* Heartbeat passes alive at the same time, of all loops
          Stops,     \* the sets of kinds that requests stop and start again
          MaxLost,   \* bound: REVIVE and SUPPRESS calls that fail
          MaxFaults  \* bound: those, tasks that fail, subscriptions, requests

Kinds == {"datastore", "server", "agent"}

ASSUME ConstantsAssumption ==
  /\ IsFiniteSet(Tasks) /\ IsFiniteSet(Beats) /\ KindOf \in [Tasks -> Kinds] /\ Wanted \in [Kinds -> Nat]
  /\ Stops \subseteq SUBSET Kinds
  /\ MaxLost \in Nat /\ MaxFaults \in Nat

VARIABLES task,          \* the stage of each task
          max,           \* Config: the configured numbers
          suppressed,    \* Mesos: no offers are sent
          reviveLock, suppressLock,
          beat,          \* the Heartbeat passes
          checking,      \* the tasks that CheckState has in hand
          stopping,      \* the kinds that a request has stopped
          answered,      \* the request has made its SUPPRESS call
          lost, faults,
          orderly,       \* history: no two passes met, nothing was stopped
          calls          \* history: SUPPRESS calls since the lock was open

vars == <<task, max, suppressed, reviveLock, suppressLock, beat, checking,
          stopping, answered, lost, faults, orderly, calls>>
locks == <<reviveLock, suppressLock>>
api   == <<max, stopping, answered>>
history == <<orderly, calls>>

(* What a pass knows: which kinds it is about to start, none when all is   *)
(* well.                                                                   *)
BeatAt == {"idle", "decide", "revive", "lock", "unlock", "start",
           "suppress", "locked", "released"}
Pass   == [at : BeatAt, todo : SUBSET Kinds]

TypeOK ==
  /\ task \in [Tasks -> {"none", "new", "queued", "up"}]
  /\ max \in [Kinds -> Nat]
  /\ {suppressed, reviveLock, suppressLock, answered, orderly} \subseteq BOOLEAN
  /\ beat \in [Beats -> Pass]
  /\ checking \subseteq Tasks /\ stopping \subseteq Kinds
  /\ answered => stopping # {}
  /\ lost \in 0 .. MaxLost /\ faults \in 0 .. MaxFaults /\ calls \in Nat

OfKind(k) == {t \in Tasks : KindOf[t] = k}
Count(k)  == Cardinality({t \in OfKind(k) : task[t] # "none"})

IdlePass == [at |-> "idle", todo |-> {}]

(* HeartbeatLoop begins with the second lock taken.                        *)
Init ==
  /\ task = [t \in Tasks |-> "none"]
  /\ max = Wanted
  /\ suppressed = FALSE /\ suppressLock = FALSE /\ reviveLock = TRUE
  /\ beat = [h \in Beats |-> IdlePass]
  /\ checking = {} /\ stopping = {} /\ answered = FALSE
  /\ lost = 0 /\ faults = 0 /\ orderly = TRUE /\ calls = 0

(* REVIVE or SUPPRESS.  The error of the call is logged and forgotten.     *)
Call(value) ==
  \/ suppressed' = value /\ UNCHANGED lost
  \/ /\ lost < MaxLost /\ lost + faults < MaxFaults
     /\ lost' = lost + 1 /\ UNCHANGED suppressed

-----------------------------------------------------------------------------
(* Health                                                                  *)

(* healthCheckDatastore: one that runs is enough.                          *)
DatastoreHealthy == \E t \in OfKind("datastore") : task[t] = "up"

(* healthCheckNode: the configured number of records, each with a node.    *)
(* With no records at all there is no ready node either.                   *)
NodesHealthy(k) ==
  /\ Count(k) = max[k] /\ max[k] > 0
  /\ \A t \in OfKind(k) : task[t] \in {"none", "up"}

Zero == \A k \in Kinds : max[k] = 0

(* Which Start functions a pass calls: none if all is well, and one at     *)
(* least if not.                                                           *)
ToStart ==
  IF Zero THEN {}
  ELSE {k \in Kinds : \/ k = "datastore" /\ ~DatastoreHealthy
                      \/ k = "server" /\ DatastoreHealthy /\ ~NodesHealthy("server")
                      \/ k = "agent" /\ NodesHealthy("server") /\ ~NodesHealthy("agent")}

-----------------------------------------------------------------------------
(* Heartbeat                                                               *)

(* A pass begins: the health checks, one after another in the code, are    *)
(* one step.                                                               *)
Begin(h) ==
  /\ beat[h].at = "idle"
  /\ beat' = [beat EXCEPT ![h] = [at |-> "decide", todo |-> ToStart]]
  /\ orderly' = (orderly /\ \A g \in Beats : beat[g].at = "idle")
  /\ UNCHANGED <<suppressed, locks, checking, api, lost, faults, calls>>

BeatHealth(h) == Begin(h) /\ UNCHANGED task

(* healthCheckNode and cleanupUnreadyTask delete the record of a server or *)
(* agent that no agent of Mesos has and that has waited for too long; one  *)
(* that CheckState has not met yet has no time, and has waited for ever.   *)
BeatRecall(h, t) ==
  /\ ~Zero /\ KindOf[t] # "datastore" /\ Count(KindOf[t]) = max[KindOf[t]]
  /\ task[t] \in {"new", "queued"}
  /\ task' = [task EXCEPT ![t] = "none"]
  /\ Begin(h)

BeatDecide(h) ==
  /\ beat[h].at = "decide"
  /\ beat' = [beat EXCEPT ![h].at =
                IF beat[h].todo = {} THEN IF suppressLock THEN "idle" ELSE "suppress"
                ELSE IF reviveLock THEN "unlock" ELSE "revive"]
  /\ UNCHANGED <<task, suppressed, locks, checking, api, lost, faults, history>>

BeatRevive(h) ==
  /\ beat[h].at = "revive"
  /\ Call(FALSE)
  /\ beat' = [beat EXCEPT ![h].at = "lock"]
  /\ UNCHANGED <<task, locks, checking, api, faults, history>>

(* The locks are written one by one.                                       *)
BeatLock(h) ==
  /\ beat[h].at = "lock"
  /\ reviveLock' = TRUE
  /\ beat' = [beat EXCEPT ![h].at = "unlock"]
  /\ UNCHANGED <<task, suppressed, suppressLock, checking, api, lost, faults, history>>

BeatUnlock(h) ==
  /\ beat[h].at = "unlock"
  /\ suppressLock' = FALSE /\ calls' = 0
  /\ beat' = [beat EXCEPT ![h].at = "start"]
  /\ UNCHANGED <<task, suppressed, reviveLock, checking, api, lost, faults, orderly>>

(* StartDatastore, StartK3SServer, StartK3SAgent: one more, or, but for    *)
(* datastores, one less.  The last of them ends the pass.                  *)
BeatStart(h, k) ==
  /\ beat[h].at = "start" /\ k \in beat[h].todo
  /\ k = "agent" => "datastore" \notin beat[h].todo
  /\ \/ \E t \in OfKind(k) :
          \/ Count(k) < max[k] /\ task[t] = "none" /\ task' = [task EXCEPT ![t] = "new"]
          \/ /\ Count(k) > max[k] /\ k # "datastore" /\ task[t] # "none"
             /\ task' = [task EXCEPT ![t] = "none"]
     \/ /\ Count(k) = max[k] \/ (Count(k) > max[k] /\ k = "datastore")
        /\ UNCHANGED task
  /\ beat' = [beat EXCEPT ![h] = IF @.todo = {k} THEN IdlePass
                                ELSE [at |-> "start", todo |-> @.todo \ {k}]]
  /\ UNCHANGED <<suppressed, locks, checking, api, lost, faults, history>>

BeatSuppress(h) ==
  /\ beat[h].at = "suppress"
  /\ Call(TRUE)
  /\ calls' = calls + 1
  /\ beat' = [beat EXCEPT ![h].at = "locked"]
  /\ UNCHANGED <<task, locks, checking, api, faults, orderly>>

(* Mutant: the lock is only taken when offers are suppressed.              *)
BeatLockedIfCalled(h) ==
  /\ beat[h].at = "locked"
  /\ suppressLock' = suppressed
  /\ beat' = [beat EXCEPT ![h].at = "released"]
  /\ UNCHANGED <<task, suppressed, reviveLock, checking, api, lost, faults, history>>

BeatLocked(h) ==
  /\ beat[h].at = "locked"
  /\ suppressLock' = TRUE
  /\ beat' = [beat EXCEPT ![h].at = "released"]
  /\ UNCHANGED <<task, suppressed, reviveLock, checking, api, lost, faults, history>>

(* Mutant: the other lock is not released.                                 *)
BeatSuppressedKeeps(h) ==
  /\ beat[h].at = "released"
  /\ beat' = [beat EXCEPT ![h] = IdlePass]
  /\ UNCHANGED <<task, suppressed, locks, checking, api, lost, faults, history>>

BeatSuppressed(h) ==
  /\ beat[h].at = "released"
  /\ reviveLock' = FALSE
  /\ beat' = [beat EXCEPT ![h] = IdlePass]
  /\ UNCHANGED <<task, suppressed, suppressLock, checking, api, lost, faults, history>>

-----------------------------------------------------------------------------
(* CheckState and Mesos                                                    *)

(* Mutant: CheckState asks for offers only if no pass has.                 *)
CheckReviveLocked(t) ==
  /\ task[t] = "new" /\ t \notin checking
  /\ IF reviveLock THEN UNCHANGED <<suppressed, lost>> ELSE Call(FALSE)
  /\ checking' = checking \cup {t}
  /\ UNCHANGED <<task, locks, beat, api, faults, history>>

(* A new record: REVIVE, whatever the locks say, then the command is       *)
(* queued and the record saved.                                            *)
CheckRevive(t) ==
  /\ task[t] = "new" /\ t \notin checking
  /\ Call(FALSE)
  /\ checking' = checking \cup {t}
  /\ UNCHANGED <<task, locks, beat, api, faults, history>>

CheckQueue(t) ==
  /\ t \in checking
  /\ task' = [task EXCEPT ![t] = "queued"]
  /\ checking' = checking \ {t}
  /\ UNCHANGED <<suppressed, locks, beat, api, lost, faults, history>>

Launch(t) ==
  /\ task[t] = "queued" /\ ~suppressed
  /\ task' = [task EXCEPT ![t] = "up"]
  /\ UNCHANGED <<suppressed, locks, beat, checking, api, lost, faults, history>>

Fail(t) ==
  /\ task[t] = "up" /\ lost + faults < MaxFaults
  /\ task' = [task EXCEPT ![t] = "none"]
  /\ faults' = faults + 1
  /\ UNCHANGED <<suppressed, locks, beat, checking, api, lost, history>>

(* A new subscription: Mesos sends offers again, and one more              *)
(* HeartbeatLoop resets the locks.  The loop never ends, and its passes    *)
(* are like those of the loops before it: some of Beats, which may have    *)
(* been there before.                                                      *)
Resubscribe ==
  /\ lost + faults < MaxFaults
  /\ suppressed' = FALSE /\ suppressLock' = FALSE /\ reviveLock' = TRUE
  /\ calls' = 0
  /\ faults' = faults + 1
  /\ UNCHANGED <<task, beat, checking, api, lost, orderly>>

-----------------------------------------------------------------------------
(* Requests                                                                *)

(* agentStop and clusterStop scale to 0; the killed tasks leave at once.   *)
Stop(kinds) ==
  /\ stopping = {} /\ kinds \in Stops /\ lost + faults < MaxFaults
  /\ max' = [k \in Kinds |-> IF k \in kinds THEN 0 ELSE max[k]]
  /\ task' = [t \in Tasks |-> IF KindOf[t] \in kinds THEN "none" ELSE task[t]]
  /\ stopping' = kinds /\ answered' = FALSE
  /\ faults' = faults + 1
  /\ orderly' = FALSE
  /\ UNCHANGED <<suppressed, locks, beat, checking, lost, calls>>

(* ... and suppress, without a look at the locks.                          *)
StopSuppress ==
  /\ stopping # {} /\ ~answered
  /\ Call(TRUE)
  /\ answered' = TRUE
  /\ UNCHANGED <<task, max, locks, beat, checking, stopping, faults, history>>

(* Mutant: the request is still taken for a stopping one.                  *)
StartKeeps ==
  /\ answered
  /\ max' = [k \in Kinds |-> IF k \in stopping THEN Wanted[k] ELSE max[k]]
  /\ stopping' = {}
  /\ UNCHANGED <<task, suppressed, answered, locks, beat, checking, lost, faults, history>>

(* The restart goes on, or somebody starts the cluster again.              *)
Start ==
  /\ answered
  /\ max' = [k \in Kinds |-> IF k \in stopping THEN Wanted[k] ELSE max[k]]
  /\ stopping' = {} /\ answered' = FALSE
  /\ UNCHANGED <<task, suppressed, locks, beat, checking, lost, faults, history>>

-----------------------------------------------------------------------------

BeatStep(h) ==
  \/ BeatHealth(h) \/ BeatDecide(h) \/ BeatRevive(h) \/ BeatLock(h) \/ BeatUnlock(h)
  \/ BeatSuppress(h) \/ BeatLocked(h) \/ BeatSuppressed(h)
  \/ \E t \in Tasks : BeatRecall(h, t)
  \/ \E k \in Kinds : BeatStart(h, k)

Next ==
  \/ \E h \in Beats : BeatStep(h)
  \/ \E t \in Tasks : CheckRevive(t) \/ CheckQueue(t) \/ Launch(t) \/ Fail(t)
  \/ \E kinds \in Stops : Stop(kinds)
  \/ StopSuppress \/ Start \/ Resubscribe

Spec == Init /\ [][Next]_vars

(* Passes follow one another for ever, and CheckState's do.  A record that *)
(* stays is overdue at every health check from some time on, so that one   *)
(* of them deletes it; and CheckState, which starts at the same tick as    *)
(* Heartbeat, now and then meets a new record first.  As long as Mesos     *)
(* keeps sending offers one will fit.  A restart gets to its second half;  *)
(* a shutdown has none.                                                    *)
FairSpec ==
  /\ Spec
  /\ WF_vars(\E h \in Beats : BeatStep(h))
  /\ SF_vars(\E h \in Beats, t \in Tasks : BeatRecall(h, t) /\ task[t] = "queued")
  /\ SF_vars(\E t \in Tasks : CheckRevive(t)) /\ WF_vars(\E t \in Tasks : CheckQueue(t))
  /\ SF_vars(\E t \in Tasks : Launch(t))
  /\ WF_vars(StopSuppress) /\ WF_vars(Start /\ stopping # Kinds)

-----------------------------------------------------------------------------
(* Properties                                                              *)

(* heatbeat.go:69: the lock is read before the call and taken after it.    *)
(* From one opening of the lock to the next, Heartbeat makes no more       *)
(* SUPPRESS calls than there are passes at the same time, whether a call   *)
(* fails or not: one that fails is not made again (heatbeat.go:70).        *)
SuppressionsBounded == calls <= Cardinality(Beats)

(* The configured servers and agents all run at last, and go on running,   *)
(* once a datastore does: whatever the locks say, and though passes that   *)
(* overlap and agentStop suppress while a command waits, calls get lost,   *)
(* tasks fail and subscriptions are repeated.  It is not Heartbeat's       *)
(* REVIVE that guarantees it: a record that waits is deleted in the end,   *)
(* and CheckState asks for offers again for the next.  For a datastore     *)
(* nothing does: MCSuppression_passes.cfg, MCSuppression_stop.cfg.         *)
AllRun(k) == Count(k) = max[k] /\ \A t \in OfKind(k) : task[t] \in {"none", "up"}
AllRunAtLast ==
  <>[]DatastoreHealthy => <>[](\A k \in {"server", "agent"} : AllRun(k))

(* A command does not wait for ever for offers that are suppressed, of a   *)
(* datastore's either, though one REVIVE call may have been lost, tasks    *)
(* fail and subscriptions are repeated: if no pass of Heartbeat begins     *)
(* before the last is over, and no request stops anything (agentStop       *)
(* suppresses behind the back of the locks).                               *)
Starved        == suppressed /\ \E t \in Tasks : task[t] = "queued"
NeverStarved   == []<>~Starved
StarvationEnds == <>[]orderly => NeverStarved

(* changelog.md:187, "Add supress offers if every services are running":   *)
(* once everything that is wanted runs for good, the offers stop for good, *)
(* unless a call got lost.                                                 *)
SettlesSuppressed == <>[]((\A k \in Kinds : AllRun(k)) /\ lost = 0) => <>[]suppressed
=============================================================================
