--------------------------- MODULE SchedulerProofs ---------------------------
(* Theorems of Scheduler, for every set of tasks, every pool of goroutines,*)
(* every capacity and every bound.                                         *)
EXTENDS Scheduler, SequenceTheorems, FiniteSetTheorems, TLAPS

-----------------------------------------------------------------------------
(* The inductive invariant                                                 *)

(* A process that is about to write or to launch has a task in hand, and   *)
(* the event loop is in one handler at a time.                             *)
Coherent ==
  /\ loop.at \in {"update", "offer", "putback"} => loop.task \in Tasks
  /\ \A c \in Checkers : chk[c].at # "idle" => chk[c].task \in Tasks
  /\ \A h \in Beats : hb[h].at \in {"start", "rewrite", "kill", "clean"} => hb[h].task \in Tasks
  /\ loop.at # "check" => chk[Loop].task = NoTask
  /\ \A c \in Checkers : chk[c].at = "idle" => chk[c].task = NoTask

(* NoPhantomTask, for the records, for every copy of one in a goroutine's  *)
(* hands, and for the updates on their way.                                *)
Blank(r) == r.state = "none" => ~r.agent

NoPhantom ==
  /\ \A t \in Tasks : Blank(rec[t]) /\ (Claims(rec[t]) => mesos[t] # "none")
  /\ Blank(loop.held)
  /\ loop.at = "update" => mesos[loop.task] # "none"
  /\ \A h \in Beats :
       /\ Blank(hb[h].held)
       /\ Claims(hb[h].held) => /\ hb[h].at \in {"rewrite", "clean"}
                                /\ mesos[hb[h].task] # "none"
  /\ \A u \in updates : u.status # "LOST" => mesos[u.task] # "none"

(* A record can come back as long as somebody holds a copy of it: what is  *)
(* bounded is the records together with the copies.                        *)
HeldOf(k)    == {t \in OfKind(k) : Held(t)}
Footprint(k) == RecordsOf(k) \cup HeldOf(k)

FootprintBounded ==
  \A k \in Kinds : /\ IsFiniteSet(Footprint(k))
                   /\ Cardinality(Footprint(k)) <= Max[k] + Cardinality(Holders)

IInv == TypeOK /\ Coherent /\ NoPhantom /\ FootprintBounded

-----------------------------------------------------------------------------
(* Counting                                                                *)

(* There are finitely many goroutines that can hold a copy of a record.    *)
LEMMA HoldersFinite ==
  /\ IsFiniteSet(Holders)
  /\ Cardinality(Holders) \in Nat
<1>1. IsFiniteSet(Workers \cup {Loop})
  BY ConstantsAssumption, FS_Singleton, FS_Union
<1>2. IsFiniteSet(Holders)
  BY <1>1, ConstantsAssumption, FS_Union DEF Holders, Checkers
<1>3. QED
  BY <1>2, FS_CardinalityType

(* Each process holds at most one task.                                    *)
HeldSmall ==
  \A k \in Kinds : /\ IsFiniteSet(HeldOf(k))
                   /\ Cardinality(HeldOf(k)) \in Nat
                   /\ Cardinality(HeldOf(k)) <= Cardinality(Holders)

(* A goroutine holds one copy at a time: the copies of a kind are no more  *)
(* than the goroutines.                                                    *)
LEMMA HeldBounded == TypeOK /\ Coherent => HeldSmall
<1> SUFFICES ASSUME TypeOK, Coherent, NEW k \in Kinds
             PROVE  /\ IsFiniteSet(HeldOf(k))
                    /\ Cardinality(HeldOf(k)) \in Nat
                    /\ Cardinality(HeldOf(k)) <= Cardinality(Holders)
  BY DEF HeldSmall
<1> DEFINE f == [p \in Holders |-> IF p \in Beats THEN hb[p].task
                                   ELSE IF p = Loop /\ loop.at = "update" THEN loop.task
                                   ELSE chk[p].task]
           T == {f[p] : p \in Holders}
<1>1. f \in Surjection(Holders, T)
  BY DEF Surjection
<1>2. IsFiniteSet(T) /\ Cardinality(T) <= Cardinality(Holders)
  <2> HIDE DEF f, T
  <2> QED BY <1>1, HoldersFinite, FS_Surjection
<1>3. ASSUME NEW t \in HeldOf(k) PROVE t \in T
  <2>1. t \in Tasks /\ Held(t) /\ t # NoTask
    BY <1>3, ConstantsAssumption DEF HeldOf, OfKind
  <2>2. CASE loop.at = "update" /\ loop.task = t
    <3>1. Loop \in Holders /\ Loop \notin Beats
      BY ConstantsAssumption DEF Holders, Checkers
    <3>2. f[Loop] = t
      BY <2>2, <3>1
    <3> QED BY <3>1, <3>2
  <2>3. CASE \E c \in Checkers : chk[c].task = t
    <3>1. PICK c \in Checkers : chk[c].task = t
      BY <2>3
    <3>2. c \in Holders /\ c \notin Beats
      BY ConstantsAssumption DEF Holders, Checkers
    <3>3. ~(c = Loop /\ loop.at = "update")
      BY <2>1, <3>1 DEF Coherent
    <3>4. f[c] = t
      BY <3>1, <3>2, <3>3
    <3> QED BY <3>2, <3>4
  <2>4. CASE \E h \in Beats : hb[h].task = t
    <3>1. PICK h \in Beats : hb[h].task = t
      BY <2>4
    <3>2. h \in Holders /\ f[h] = t
      BY <3>1 DEF Holders
    <3> QED BY <3>2
  <2> QED BY <2>1, <2>2, <2>3, <2>4 DEF Held
<1>4. HeldOf(k) \in SUBSET T
  BY <1>3
<1>5. IsFiniteSet(HeldOf(k)) /\ Cardinality(HeldOf(k)) <= Cardinality(T)
  <2> HIDE DEF T
  <2> QED BY <1>2, <1>4, FS_Subset
<1>6. Cardinality(HeldOf(k)) \in Nat /\ Cardinality(T) \in Nat
  <2> HIDE DEF T
  <2> QED BY <1>2, <1>5, FS_CardinalityType
<1> HIDE DEF T
<1> QED BY <1>2, <1>5, <1>6, HoldersFinite

(* The count of a kind is a number: there are finitely many records.       *)
LEMMA CountType ==
  ASSUME NEW k \in Kinds, FootprintBounded
  PROVE  /\ IsFiniteSet(RecordsOf(k))
         /\ Count(k) \in Nat
         /\ Count(k) <= Max[k] + Cardinality(Holders)
<1>1. IsFiniteSet(Footprint(k)) /\ Cardinality(Footprint(k)) <= Max[k] + Cardinality(Holders)
  BY DEF FootprintBounded
<1>2. RecordsOf(k) \in SUBSET Footprint(k)
  BY DEF Footprint
<1>3. IsFiniteSet(RecordsOf(k)) /\ Cardinality(RecordsOf(k)) <= Cardinality(Footprint(k))
  BY <1>1, <1>2, FS_Subset
<1>4. Cardinality(RecordsOf(k)) \in Nat /\ Cardinality(Footprint(k)) \in Nat
  BY <1>1, <1>3, FS_CardinalityType
<1>5. Max[k] \in Nat /\ Cardinality(Holders) \in Nat
  BY ConstantsAssumption, HoldersFinite
<1> QED BY <1>1, <1>3, <1>4, <1>5 DEF Count
-----------------------------------------------------------------------------
(* Types                                                                   *)

(* The records the code writes are records.                                *)
LEMMA RecordTypes ==
  /\ NoRecord \in Record /\ NewRecord \in Record /\ Queued \in Record
  /\ \A ok \in BOOLEAN : Running(ok) \in Record
BY DEF NoRecord, NewRecord, Queued, Running, Record, TaskStates

(* An update built by Up is an update.                                     *)
LEMMA UpdateTypes == \A t \in Tasks, s \in Statuses : Up(t, s) \in Update
BY DEF Up, Update

(* The initial state has its types.                                        *)
LEMMA InitType == Init => TypeOK
<1> SUFFICES ASSUME Init PROVE TypeOK
  OBVIOUS
<1>1. rec \in [Tasks -> Record] /\ mesos \in [Tasks -> {"none", "STAGING", "RUNNING", "gone"}]
  BY RecordTypes DEF Init
<1>2. loop \in [at : LoopAt, task : Tasks \cup {NoTask}, held : Record, todo : SUBSET Tasks]
  BY RecordTypes DEF Init, IdleLoop, LoopAt
<1>3. chk \in [Checkers -> [at : {"idle", "count", "send", "save"}, task : Tasks \cup {NoTask}]]
  BY DEF Init, IdleChk
<1>4. hb \in [Beats -> [at : BeatAt, kind : Kinds, task : Tasks \cup {NoTask},
                        held : Record, todo : SUBSET Tasks, kills : Nat, go : BOOLEAN]]
  BY RecordTypes DEF Init, IdleBeat, BeatAt, Kinds
<1>5. chan \in Seq(Tasks) /\ Len(chan) <= Cap
  BY ConstantsAssumption DEF Init
<1>6. updates \subseteq Update /\ faults \in 0 .. MaxFaults
  BY ConstantsAssumption DEF Init
<1> QED BY <1>1, <1>2, <1>3, <1>4, <1>5, <1>6 DEF TypeOK

(* A KILL call only adds to the updates and at most ends the task.         *)
LEMMA KillType ==
  ASSUME TypeOK, NEW t \in Tasks, NEW ups, ups \subseteq Update, Kill(t, ups)
  PROVE  /\ mesos' \in [Tasks -> {"none", "STAGING", "RUNNING", "gone"}]
         /\ updates' \subseteq Update
<1>1. Up(t, "KILLED") \in Update /\ Up(t, "LOST") \in Update
  BY UpdateTypes DEF Statuses, Terminal
<1>2. CASE UNCHANGED mesos /\ updates' = ups
  BY <1>2 DEF TypeOK
<1>3. CASE mesos' = [mesos EXCEPT ![t] = "gone"] /\ Pending(ups \cup {Up(t, "KILLED")})
  BY <1>1, <1>3 DEF TypeOK, Pending
<1>4. CASE UNCHANGED mesos /\ Pending(ups \cup {Up(t, "LOST")})
  BY <1>1, <1>4 DEF TypeOK, Pending
<1> QED BY <1>2, <1>3, <1>4 DEF Kill

(* A step of Mesos and an answer to a reconciliation keep the types.       *)
LEMMA MesosType ==
  ASSUME TypeOK, NEW t \in Tasks,
         TaskRuns(t) \/ TaskEnds(t) \/ Recycle(t) \/ Reconcile(t) \/ ImplicitReconcile(t)
  PROVE  TypeOK'
<1>1. \A s \in Statuses : Up(t, s) \in Update
  BY UpdateTypes
<1>2. Answer(t) \in Update
  BY <1>1 DEF Answer, Live, Statuses, Terminal
<1>3. CASE TaskRuns(t)
  BY <1>1, <1>3 DEF TaskRuns, TypeOK, Pending, Statuses
<1>4. CASE TaskEnds(t)
  <2>1. mesos' \in [Tasks -> {"none", "STAGING", "RUNNING", "gone"}]
    BY <1>4 DEF TaskEnds, TypeOK
  <2>2. updates' \subseteq Update
    BY <1>1, <1>4 DEF TaskEnds, TypeOK, Pending, Statuses, Terminal
  <2>3. faults' \in 0 .. MaxFaults
    BY <1>4, ConstantsAssumption DEF TaskEnds, TypeOK
  <2> QED BY <1>4, <2>1, <2>2, <2>3 DEF TaskEnds, TypeOK
<1>5. CASE Recycle(t)
  BY <1>5 DEF Recycle, TypeOK
<1>6. CASE Reconcile(t) \/ ImplicitReconcile(t)
  BY <1>2, <1>6 DEF Reconcile, ImplicitReconcile, TypeOK, Pending
<1> QED BY <1>3, <1>4, <1>5, <1>6

(* An idle event loop, CheckState pass or Heartbeat pass has its type.     *)
LEMMA IdleTypes ==
  /\ IdleLoop \in [at : LoopAt, task : Tasks \cup {NoTask}, held : Record, todo : SUBSET Tasks]
  /\ IdleChk \in [at : {"idle", "count", "send", "save"}, task : Tasks \cup {NoTask}]
  /\ IdleBeat \in [at : BeatAt, kind : Kinds, task : Tasks \cup {NoTask},
                   held : Record, todo : SUBSET Tasks, kills : Nat, go : BOOLEAN]
BY RecordTypes DEF IdleLoop, IdleChk, IdleBeat, LoopAt, BeatAt, Kinds

(* Subscription, a lost connection and a restart keep the types.           *)
LEMMA DownType ==
  ASSUME TypeOK, Disconnect \/ Restart
  PROVE  TypeOK'
<1>1. Retained \subseteq Update
  BY DEF Retained, TypeOK
<1>2. [IdleLoop EXCEPT !.at = "down"]
        \in [at : LoopAt, task : Tasks \cup {NoTask}, held : Record, todo : SUBSET Tasks]
  BY IdleTypes DEF LoopAt
<1>3. CASE Disconnect
  <2>1. faults' \in 0 .. MaxFaults
    BY <1>3, ConstantsAssumption DEF Disconnect, TypeOK
  <2> QED BY <1>1, <1>2, <1>3, <2>1 DEF Disconnect, TypeOK
<1>4. CASE Restart
  <2>1. chk' \in [Checkers -> [at : {"idle", "count", "send", "save"}, task : Tasks \cup {NoTask}]]
    BY <1>4, IdleTypes DEF Restart
  <2>2. hb' \in [Beats -> [at : BeatAt, kind : Kinds, task : Tasks \cup {NoTask},
                           held : Record, todo : SUBSET Tasks, kills : Nat, go : BOOLEAN]]
    BY <1>4, IdleTypes DEF Restart
  <2>3. faults' \in 0 .. MaxFaults
    BY <1>4, ConstantsAssumption DEF Restart, TypeOK
  <2>4. chan' \in Seq(Tasks) /\ Len(chan') <= Cap
    BY <1>4, ConstantsAssumption DEF Restart
  <2> QED BY <1>1, <1>2, <1>4, <2>1, <2>2, <2>3, <2>4 DEF Restart, TypeOK
<1> QED BY <1>3, <1>4

(* Each branch of HandleUpdate keeps the types.                            *)
LEMMA UpdateType ==
  ASSUME TypeOK, Coherent,
         UpdateSave \/ \E u \in updates : UpdateUnknown(u) \/ UpdateTerminal(u) \/ UpdateRead(u)
  PROVE  TypeOK'
<1>1. CASE UpdateSave
  BY <1>1, IdleTypes DEF UpdateSave, TypeOK, Coherent
<1>2. ASSUME NEW u \in updates, UpdateUnknown(u) PROVE TypeOK'
  <2>1. u \in Update /\ u.task \in Tasks /\ u.status \in Statuses
    BY DEF TypeOK, Update
  <2>2. PICK ups \in AckOutcomes(u) :
              IF u.status = "LOST" THEN UNCHANGED mesos /\ updates' = ups
                                   ELSE Kill(u.task, ups)
    BY <1>2 DEF UpdateUnknown
  <2>3. ups \subseteq Update
    BY <2>2 DEF AckOutcomes, Acknowledge, TypeOK
  <2>4. /\ mesos' \in [Tasks -> {"none", "STAGING", "RUNNING", "gone"}]
        /\ updates' \subseteq Update
    <3>1. CASE u.status = "LOST"
      BY <2>2, <2>3, <3>1 DEF TypeOK
    <3>2. CASE u.status # "LOST"
      BY <2>1, <2>2, <2>3, <3>2, KillType
    <3> QED BY <3>1, <3>2
  <2> QED BY <1>2, <2>4 DEF UpdateUnknown, TypeOK
<1>3. ASSUME NEW u \in updates, UpdateTerminal(u) PROVE TypeOK'
  <2>1. updates' \subseteq Update
    BY <1>3 DEF UpdateTerminal, AckOutcomes, Acknowledge, TypeOK
  <2> QED BY <1>3, <2>1, RecordTypes DEF UpdateTerminal, TypeOK
<1>4. ASSUME NEW u \in updates, UpdateRead(u) PROVE TypeOK'
  <2>1. u.task \in Tasks /\ u.status \in {"STAGING", "RUNNING"}
    BY <1>4 DEF TypeOK, Update, Statuses, UpdateRead
  <2>2. [rec[u.task] EXCEPT !.state = u.status] \in Record
    BY <2>1 DEF TypeOK, Record, TaskStates
  <2>3. loop' \in [at : LoopAt, task : Tasks \cup {NoTask}, held : Record, todo : SUBSET Tasks]
    BY <1>4, <2>1, <2>2, RecordTypes DEF UpdateRead, LoopAt
  <2>4. updates' \subseteq Update
    BY <1>4 DEF UpdateRead, Acknowledge, TypeOK
  <2> QED BY <1>4, <2>3, <2>4 DEF UpdateRead, TypeOK
<1> QED BY <1>1, <1>2, <1>3, <1>4

(* Each step of HandleOffers keeps the types; the channel stays within its *)
(* capacity.                                                               *)
LEMMA OfferType ==
  ASSUME TypeOK, Coherent,
         Subscribe \/ SubscribeDone \/ OfferTake \/ OfferNone \/ OfferPutBack \/ OfferAccept \/ OfferRefused
  PROVE  TypeOK'
<1>1. CASE Subscribe
  BY <1>1 DEF Subscribe, TypeOK, LoopAt
<1>2. CASE SubscribeDone
  BY <1>2, IdleTypes DEF SubscribeDone, TypeOK
<1>3. CASE OfferTake
  <2>1. Head(chan) \in Tasks /\ Tail(chan) \in Seq(Tasks) /\ Len(Tail(chan)) <= Cap
    BY <1>3, ConstantsAssumption DEF OfferTake, TypeOK
  <2> QED BY <1>3, <2>1 DEF OfferTake, TypeOK, LoopAt
<1>4. CASE OfferNone
  BY <1>4 DEF OfferNone, TypeOK, LoopAt
<1>5. CASE OfferPutBack
  <2>1. chan' \in Seq(Tasks) /\ Len(chan') <= Cap
    BY <1>5, ConstantsAssumption DEF OfferPutBack, TypeOK, Coherent
  <2> QED BY <1>5, <2>1, IdleTypes DEF OfferPutBack, TypeOK
<1>6. CASE OfferAccept
  <2>1. loop.task \in Tasks /\ Up(loop.task, "ERROR") \in Update
    BY <1>6, UpdateTypes DEF OfferAccept, Coherent, Statuses, Terminal
  <2>2. updates' \subseteq Update /\ mesos' \in [Tasks -> {"none", "STAGING", "RUNNING", "gone"}]
    BY <1>6, <2>1 DEF OfferAccept, TypeOK, Pending
  <2> QED BY <1>6, <2>2, IdleTypes DEF OfferAccept, TypeOK
<1>7. CASE OfferRefused
  <2>1. loop.task \in Tasks /\ Up(loop.task, "LOST") \in Update
    BY <1>7, UpdateTypes DEF OfferRefused, Coherent, Statuses, Terminal
  <2>2. updates' \subseteq Update
    BY <1>7, <2>1 DEF OfferRefused, TypeOK, Pending
  <2> QED BY <1>7, <2>2, IdleTypes DEF OfferRefused, TypeOK
<1> QED BY <1>1, <1>2, <1>3, <1>4, <1>5, <1>6, <1>7

(* Each step of CheckState keeps the types.                                *)
LEMMA CheckType ==
  ASSUME TypeOK, Coherent, NEW c \in Checkers,
         \/ CheckCount(c) \/ CheckCorrupt(c) \/ CheckSend(c) \/ CheckSave(c)
         \/ \E t \in Tasks : CheckRead(c, t)
  PROVE  TypeOK'
<1>1. CASE CheckCount(c)
  BY <1>1 DEF CheckCount, TypeOK
<1>2. CASE CheckCorrupt(c)
  BY <1>2, RecordTypes, IdleTypes DEF CheckCorrupt, TypeOK
<1>3. CASE CheckSend(c)
  <2>1. chan' \in Seq(Tasks) /\ Len(chan') <= Cap
    BY <1>3, ConstantsAssumption DEF CheckSend, TypeOK, Coherent
  <2> QED BY <1>3, <2>1 DEF CheckSend, TypeOK
<1>4. CASE CheckSave(c)
  BY <1>4, RecordTypes, IdleTypes DEF CheckSave, TypeOK
<1>5. ASSUME NEW t \in Tasks, CheckRead(c, t) PROVE TypeOK'
  <2>1. loop' \in [at : LoopAt, task : Tasks \cup {NoTask}, held : Record, todo : SUBSET Tasks]
    BY <1>5 DEF CheckRead, TypeOK
  <2> QED BY <1>5, <2>1 DEF CheckRead, TypeOK
<1> QED BY <1>1, <1>2, <1>3, <1>4, <1>5

(* Each step of a Heartbeat pass keeps the types.                          *)
LEMMA BeatType ==
  ASSUME TypeOK, Coherent, FootprintBounded, NEW h \in Beats,
         \/ BeatCount(h) \/ BeatRecount(h) \/ BeatStart(h)
         \/ ScaleWrite(h) \/ ScaleKill(h) \/ ScaleDone(h) \/ BeatClean(h)
         \/ \E k \in Kinds : BeatBegin(h, k)
         \/ \E t \in Tasks : ScaleRead(h, t) \/ BeatUnready(h, t)
  PROVE  TypeOK'
<1> DEFINE HB == [at : BeatAt, kind : Kinds, task : Tasks \cup {NoTask},
                  held : Record, todo : SUBSET Tasks, kills : Nat, go : BOOLEAN]
<1>0. hb \in [Beats -> HB] /\ hb[h] \in HB /\ IdleBeat \in HB /\ hb[h].kind \in Kinds
  BY IdleTypes DEF TypeOK
<1>1. ASSUME NEW k \in Kinds, StartWith(h, k) PROVE hb' \in [Beats -> HB]
  <2>1. OfKind(k) \subseteq Tasks
    BY DEF OfKind
  <2> QED BY <1>0, <1>1, <2>1 DEF StartWith, BeatAt
<1>2. CASE BeatCount(h)
  <2>1. hb' \in [Beats -> HB]
    BY <1>0, <1>1, <1>2 DEF BeatCount, BeatAt
  <2> QED BY <1>2, <2>1 DEF BeatCount, TypeOK
<1>3. CASE BeatRecount(h)
  <2>1. CASE StartWith(h, hb[h].kind)
    BY <1>0, <1>1, <1>3, <2>1 DEF BeatRecount, TypeOK
  <2>2. CASE /\ Count(hb[h].kind) > Max[hb[h].kind]
             /\ hb' = [hb EXCEPT ![h].at = "scale", ![h].todo = RecordsOf(hb[h].kind),
                                 ![h].kills = Count(hb[h].kind) - Max[hb[h].kind]]
    <3>1. Count(hb[h].kind) - Max[hb[h].kind] \in Nat
      BY <1>0, <2>2, CountType, ConstantsAssumption
    <3>2. RecordsOf(hb[h].kind) \subseteq Tasks
      BY DEF RecordsOf, OfKind
    <3>3. hb' \in [Beats -> HB]
      BY <1>0, <2>2, <3>1, <3>2 DEF BeatAt
    <3> QED BY <1>3, <3>3 DEF BeatRecount, TypeOK
  <2> QED BY <1>3, <2>1, <2>2 DEF BeatRecount
<1>4. CASE BeatStart(h)
  BY <1>0, <1>4, RecordTypes DEF BeatStart, TypeOK
<1>5. CASE ScaleWrite(h)
  <2>1. hb' \in [Beats -> HB]
    <3> DEFINE next == IF hb[h].kills > 0 THEN "kill" ELSE "scale"
               kept == IF hb[h].kills > 0 THEN hb[h].task ELSE NoTask
    <3>1. next \in BeatAt /\ kept \in Tasks \cup {NoTask}
      BY <1>0 DEF BeatAt
    <3>2. [hb[h] EXCEPT !.at = next, !.task = kept, !.held = NoRecord] \in HB
      <4> HIDE DEF next, kept
      <4> QED BY <1>0, <3>1, RecordTypes
    <3>3. hb' = [hb EXCEPT ![h] = [hb[h] EXCEPT !.at = next, !.task = kept, !.held = NoRecord]]
      BY <1>0, <1>5 DEF ScaleWrite
    <3> HIDE DEF next, kept, HB
    <3> QED BY <1>0, <3>2, <3>3
  <2>2. rec' \in [Tasks -> Record]
    BY <1>0, <1>5 DEF ScaleWrite, TypeOK
  <2> QED BY <1>5, <2>1, <2>2 DEF ScaleWrite, TypeOK
<1>11. CASE ScaleKill(h)
  <2>1. hb[h].task \in Tasks
    BY <1>11 DEF ScaleKill, Coherent
  <2>2. hb' \in [Beats -> HB]
    <3> DEFINE left == IF hb[h].kills = 0 THEN 0 ELSE hb[h].kills - 1
    <3>1. left \in Nat
      BY <1>0
    <3>2. [hb[h] EXCEPT !.at = "scale", !.task = NoTask, !.kills = left] \in HB
      BY <1>0, <3>1 DEF BeatAt
    <3>3. hb' = [hb EXCEPT ![h] = [hb[h] EXCEPT !.at = "scale", !.task = NoTask, !.kills = left]]
      BY <1>0, <1>11 DEF ScaleKill
    <3> HIDE DEF left, HB
    <3> QED BY <1>0, <3>2, <3>3
  <2>3. /\ mesos' \in [Tasks -> {"none", "STAGING", "RUNNING", "gone"}]
        /\ updates' \subseteq Update
    BY <1>11, <2>1, KillType DEF ScaleKill, TypeOK
  <2> QED BY <1>11, <2>2, <2>3 DEF ScaleKill, TypeOK
<1>6. CASE ScaleDone(h)
  BY <1>0, <1>6 DEF ScaleDone, TypeOK
<1>7. CASE BeatClean(h)
  <2>1. hb[h].task \in Tasks
    BY <1>7 DEF BeatClean, Coherent
  <2>2. hb' \in [Beats -> HB]
    BY <1>0, <1>7 DEF BeatClean, BeatAt
  <2>3. /\ rec' \in [Tasks -> Record]
        /\ mesos' \in [Tasks -> {"none", "STAGING", "RUNNING", "gone"}]
        /\ updates' \subseteq Update
    <3>1. CASE hb[h].held.info
      BY <1>7, <2>1, <3>1, KillType DEF BeatClean, TypeOK
    <3>2. CASE ~hb[h].held.info
      BY <1>7, <3>2, RecordTypes DEF BeatClean, TypeOK
    <3> QED BY <3>1, <3>2
  <2> QED BY <1>7, <2>2, <2>3 DEF BeatClean, TypeOK
<1>8. ASSUME NEW k \in Kinds, BeatBegin(h, k) PROVE TypeOK'
  <2>1. hb' \in [Beats -> HB]
    BY <1>0, <1>8 DEF BeatBegin, BeatAt
  <2> QED BY <1>8, <2>1 DEF BeatBegin, TypeOK
<1>9. ASSUME NEW t \in Tasks, ScaleRead(h, t) PROVE TypeOK'
  <2>1. rec[t] \in Record
    BY DEF TypeOK
  <2>2. hb' \in [Beats -> HB]
    <3> DEFINE left == IF Recorded(t) \/ hb[h].kills = 0 THEN hb[h].kills ELSE hb[h].kills - 1
               stage == IF Recorded(t) THEN "rewrite" ELSE "scale"
               found == IF Recorded(t) THEN t ELSE NoTask
    <3>1. left \in Nat /\ stage \in BeatAt /\ found \in Tasks \cup {NoTask}
      BY <1>0 DEF BeatAt
    <3>2. [hb[h] EXCEPT !.at = stage, !.task = found, !.held = rec[t],
                        !.todo = @ \ {t}, !.kills = left] \in HB
      <4> HIDE DEF left, stage, found
      <4> QED BY <1>0, <2>1, <3>1
    <3>3. hb' = [hb EXCEPT ![h] = [hb[h] EXCEPT !.at = stage, !.task = found, !.held = rec[t],
                                                !.todo = @ \ {t}, !.kills = left]]
      BY <1>0, <1>9 DEF ScaleRead
    <3> HIDE DEF left, stage, found, HB
    <3> QED BY <1>0, <3>2, <3>3
  <2> QED BY <1>9, <2>2 DEF ScaleRead, TypeOK
<1>10. ASSUME NEW t \in Tasks, BeatUnready(h, t) PROVE TypeOK'
  <2>1. rec[t] \in Record /\ KindOf[t] \in Kinds /\ Wants(KindOf[t]) \in BOOLEAN
    BY ConstantsAssumption DEF TypeOK, Wants, DatastoreHealthy, Kinds
  <2>2. hb' \in [Beats -> HB]
    BY <1>0, <1>10, <2>1 DEF BeatUnready, BeatAt
  <2> QED BY <1>10, <2>2 DEF BeatUnready, TypeOK
<1> QED BY <1>2, <1>3, <1>4, <1>5, <1>6, <1>7, <1>8, <1>9, <1>10, <1>11

(* Every step keeps the types.                                             *)
LEMMA TypeStep ==
  ASSUME TypeOK, Coherent, FootprintBounded, [Next]_vars
  PROVE  TypeOK'
<1>1. CASE UNCHANGED vars
  BY <1>1 DEF vars, TypeOK
<1>2. CASE Next
  BY <1>2, MesosType, DownType, UpdateType, OfferType, CheckType, BeatType
     DEF Next, MesosNext, LoopNext, CheckNext, BeatNext
<1> QED BY <1>1, <1>2

-----------------------------------------------------------------------------
(* Processes                                                               *)

(* What a Heartbeat pass does to the table of passes: it changes its own   *)
(* entry, and that entry names a task whenever a later step needs one.     *)
LEMMA BeatTable ==
  ASSUME TypeOK, Coherent, NEW h \in Beats,
         \/ BeatCount(h) \/ BeatRecount(h) \/ BeatStart(h)
         \/ ScaleWrite(h) \/ ScaleKill(h) \/ ScaleDone(h) \/ BeatClean(h)
         \/ \E k \in Kinds : BeatBegin(h, k)
         \/ \E t \in Tasks : ScaleRead(h, t) \/ BeatUnready(h, t)
  PROVE  /\ DOMAIN hb' = Beats
         /\ \A g \in Beats \ {h} : hb'[g] = hb[g]
         /\ hb'[h].at \in {"start", "rewrite", "kill", "clean"} => hb'[h].task \in Tasks
<1>0. hb \in [Beats -> [at : BeatAt, kind : Kinds, task : Tasks \cup {NoTask},
                        held : Record, todo : SUBSET Tasks, kills : Nat, go : BOOLEAN]]
  BY DEF TypeOK
<1>1. ASSUME NEW k \in Kinds, StartWith(h, k)
      PROVE  /\ DOMAIN hb' = Beats /\ \A g \in Beats \ {h} : hb'[g] = hb[g]
             /\ hb'[h].at \in {"start", "rewrite", "kill", "clean"} => hb'[h].task \in Tasks
  BY <1>0, <1>1 DEF StartWith, OfKind, IdleBeat
<1>2. CASE BeatCount(h)
  BY <1>0, <1>1, <1>2 DEF BeatCount, IdleBeat
<1>3. CASE BeatRecount(h)
  BY <1>0, <1>1, <1>3 DEF BeatRecount
<1>4. CASE BeatStart(h) \/ ScaleDone(h) \/ \E k \in Kinds : BeatBegin(h, k)
  <2>1. PICK r : hb' = [hb EXCEPT ![h] = r] /\ r.at \in {"idle", "count"}
    <3>1. CASE BeatStart(h) \/ ScaleDone(h)
      <4>1. IdleBeat.at \in {"idle", "count"}
        BY DEF IdleBeat
      <4>2. hb' = [hb EXCEPT ![h] = IdleBeat]
        BY <3>1 DEF BeatStart, ScaleDone
      <4> HIDE DEF IdleBeat
      <4> QED BY <4>1, <4>2
    <3>2. ASSUME NEW k \in Kinds, BeatBegin(h, k)
          PROVE  \E r : hb' = [hb EXCEPT ![h] = r] /\ r.at \in {"idle", "count"}
      <4>1. [IdleBeat EXCEPT !.at = "count", !.kind = k].at = "count"
        BY DEF IdleBeat
      <4> QED BY <3>2, <4>1 DEF BeatBegin
    <3> QED BY <1>4, <3>1, <3>2
  <2> QED BY <1>0, <2>1
<1>5. CASE ScaleWrite(h)
  <2>1. hb[h].task \in Tasks
    BY <1>5 DEF ScaleWrite, Coherent
  <2>2. hb'[h].task = IF hb[h].kills > 0 THEN hb[h].task ELSE NoTask
    BY <1>0, <1>5 DEF ScaleWrite
  <2>3. hb'[h].at = IF hb[h].kills > 0 THEN "kill" ELSE "scale"
    BY <1>0, <1>5 DEF ScaleWrite
  <2>4. DOMAIN hb' = Beats /\ \A g \in Beats \ {h} : hb'[g] = hb[g]
    BY <1>0, <1>5 DEF ScaleWrite
  <2> QED BY <2>1, <2>2, <2>3, <2>4
<1>9. CASE ScaleKill(h)
  BY <1>0, <1>9 DEF ScaleKill
<1>6. CASE BeatClean(h)
  BY <1>0, <1>6 DEF BeatClean, IdleBeat
<1>7. ASSUME NEW t \in Tasks, ScaleRead(h, t)
      PROVE  /\ DOMAIN hb' = Beats /\ \A g \in Beats \ {h} : hb'[g] = hb[g]
             /\ hb'[h].at \in {"start", "rewrite", "kill", "clean"} => hb'[h].task \in Tasks
  <2> DEFINE stage == IF Recorded(t) THEN "rewrite" ELSE "scale"
             found == IF Recorded(t) THEN t ELSE NoTask
  <2>1. DOMAIN hb' = Beats /\ \A g \in Beats \ {h} : hb'[g] = hb[g]
    BY <1>0, <1>7 DEF ScaleRead
  <2>2. hb'[h].at = stage /\ hb'[h].task = found
    BY <1>0, <1>7 DEF ScaleRead
  <2> QED BY <2>1, <2>2
<1>8. ASSUME NEW t \in Tasks, BeatUnready(h, t)
      PROVE  /\ DOMAIN hb' = Beats /\ \A g \in Beats \ {h} : hb'[g] = hb[g]
             /\ hb'[h].at \in {"start", "rewrite", "kill", "clean"} => hb'[h].task \in Tasks
  <2> DEFINE r == [IdleBeat EXCEPT !.at = "clean", !.kind = KindOf[t], !.task = t,
                                   !.held = rec[t], !.go = Wants(KindOf[t])]
  <2>1. r.task = t
    BY DEF IdleBeat
  <2>2. hb' = [hb EXCEPT ![h] = r]
    BY <1>8 DEF BeatUnready
  <2> HIDE DEF r
  <2> QED BY <1>0, <2>1, <2>2
<1> QED BY <1>2, <1>3, <1>4, <1>5, <1>6, <1>7, <1>8, <1>9

(* At the start no process is about to write a record.                     *)
LEMMA CoherentInit == Init => Coherent
<1> SUFFICES ASSUME Init PROVE Coherent
  OBVIOUS
<1>1. loop.at = "down" /\ \A c \in Checkers : chk[c] = IdleChk
  BY DEF Init, IdleLoop
<1>2. \A h \in Beats : hb[h].at = "idle"
  BY DEF Init, IdleBeat
<1> QED BY <1>1, <1>2 DEF Coherent, IdleChk, Checkers

(* A process that is about to write a record knows which one, after every  *)
(* step.                                                                   *)
LEMMA CoherentStep ==
  ASSUME TypeOK, Coherent, [Next]_vars
  PROVE  Coherent'
<1> USE DEF Coherent
<1>0. Loop \in Checkers
  BY DEF Checkers
<1>1. CASE UNCHANGED vars
  BY <1>1 DEF vars
<1>2. CASE MesosNext \/ \E t \in Tasks : Reconcile(t) \/ ImplicitReconcile(t)
  BY <1>2 DEF MesosNext, TaskRuns, TaskEnds, Recycle, Reconcile, ImplicitReconcile
<1>3. CASE Disconnect
  BY <1>3 DEF Disconnect, IdleLoop
<1>4. CASE Restart
  BY <1>0, <1>4 DEF Restart, IdleLoop, IdleChk, IdleBeat
<1>5. CASE LoopNext
  <2>1. CASE Subscribe
    BY <2>1 DEF Subscribe, TypeOK
  <2>2. CASE SubscribeDone
    BY <1>0, <2>2 DEF SubscribeDone, IdleLoop, TypeOK
  <2>3. CASE UpdateSave \/ OfferPutBack \/ OfferAccept \/ OfferRefused
    BY <2>3 DEF UpdateSave, OfferPutBack, OfferAccept, OfferRefused, IdleLoop
  <2>4. ASSUME NEW u \in updates, UpdateUnknown(u) \/ UpdateTerminal(u) \/ UpdateRead(u)
        PROVE  Coherent'
    <3>1. u.task \in Tasks
      BY DEF TypeOK, Update
    <3> QED BY <2>4, <3>1 DEF UpdateUnknown, UpdateTerminal, UpdateRead, Deliverable
  <2>5. CASE OfferTake
    <3>1. Head(chan) \in Tasks
      BY <2>5 DEF OfferTake, TypeOK
    <3> QED BY <2>5, <3>1 DEF OfferTake, TypeOK
  <2>6. CASE OfferNone
    BY <2>6 DEF OfferNone, TypeOK
  <2> QED BY <1>5, <2>1, <2>2, <2>3, <2>4, <2>5, <2>6 DEF LoopNext
<1>6. ASSUME NEW c \in Checkers,
             \/ CheckCount(c) \/ CheckCorrupt(c) \/ CheckSend(c) \/ CheckSave(c)
             \/ \E t \in Tasks : CheckRead(c, t)
      PROVE  Coherent'
  <2>1. CASE CheckCount(c)
    BY <2>1 DEF CheckCount, TypeOK
  <2>2. CASE CheckCorrupt(c) \/ CheckSave(c)
    <3>1. chk' = [chk EXCEPT ![c] = IdleChk] /\ UNCHANGED <<loop, hb>>
      BY <2>2 DEF CheckCorrupt, CheckSave
    <3>2. IdleChk.at = "idle" /\ IdleChk.task = NoTask
      BY DEF IdleChk
    <3> QED BY <1>0, <3>1, <3>2 DEF TypeOK
  <2>3. CASE CheckSend(c)
    BY <2>3 DEF CheckSend, TypeOK
  <2>4. ASSUME NEW t \in Tasks, CheckRead(c, t) PROVE Coherent'
    <3>1. loop'.at = loop.at /\ loop'.task = loop.task /\ UNCHANGED hb
      BY <2>4 DEF CheckRead, TypeOK
    <3>2. chk' = [chk EXCEPT ![c] = [at |-> "count", task |-> t]]
      BY <2>4 DEF CheckRead
    <3>3. c = Loop => loop.at = "check"
      BY <2>4 DEF CheckRead
    <3> QED BY <1>0, <3>1, <3>2, <3>3 DEF TypeOK
  <2> QED BY <1>6, <2>1, <2>2, <2>3, <2>4
<1>7. CASE BeatNext
  <2>1. PICK h \in Beats :
             \/ BeatCount(h) \/ BeatRecount(h) \/ BeatStart(h)
             \/ ScaleWrite(h) \/ ScaleKill(h) \/ ScaleDone(h) \/ BeatClean(h)
             \/ \E k \in Kinds : BeatBegin(h, k)
             \/ \E t \in Tasks : ScaleRead(h, t) \/ BeatUnready(h, t)
    BY <1>7 DEF BeatNext
  <2>2. UNCHANGED <<loop, chk>>
    BY <2>1 DEF BeatCount, BeatRecount, BeatStart, ScaleWrite, ScaleKill, ScaleDone, BeatClean,
                BeatBegin, ScaleRead, BeatUnready
  <2>3. \A g \in Beats : hb'[g].at \in {"start", "rewrite", "kill", "clean"} => hb'[g].task \in Tasks
    BY <2>1, BeatTable
  <2> QED BY <2>2, <2>3
<1> QED BY <1>1, <1>2, <1>3, <1>4, <1>5, <1>6, <1>7 DEF Next, CheckNext

-----------------------------------------------------------------------------
(* Phantom tasks                                                           *)

(* At the start records, updates and copies speak of launched tasks only.  *)
LEMMA PhantomInit == Init => NoPhantom
<1> SUFFICES ASSUME Init PROVE NoPhantom
  OBVIOUS
<1>1. ~Claims(NoRecord) /\ Blank(NoRecord) /\ Blank(Running(TRUE))
  BY DEF Claims, Blank, NoRecord, Running
<1>2. \A t \in Tasks : Blank(rec[t]) /\ (Claims(rec[t]) => mesos[t] # "none")
  BY <1>1 DEF Init
<1>3. loop.held = NoRecord /\ loop.at # "update"
  BY DEF Init, IdleLoop
<1>4. \A h \in Beats : hb[h].held = NoRecord
  BY DEF Init, IdleBeat
<1> QED BY <1>1, <1>2, <1>3, <1>4 DEF NoPhantom, Init

(* Mesos forgets a task only when nothing of it is left in the framework.  *)
LEMMA PhantomMesos ==
  ASSUME TypeOK, Coherent, NoPhantom, NEW t \in Tasks,
         TaskRuns(t) \/ TaskEnds(t) \/ Recycle(t) \/ Reconcile(t) \/ ImplicitReconcile(t)
  PROVE  NoPhantom'
<1>1. \A s : Up(t, s).task = t /\ Up(t, s).status = s
  BY DEF Up
<1>2. UNCHANGED <<rec, loop, hb>>
  BY DEF TaskRuns, TaskEnds, Recycle, Reconcile, ImplicitReconcile
<1>3. CASE TaskRuns(t) \/ TaskEnds(t)
  <2>1. \A s \in Tasks : mesos[s] # "none" => mesos'[s] # "none"
    BY <1>3 DEF TaskRuns, TaskEnds, TypeOK
  <2>2. mesos'[t] # "none"
    BY <1>3 DEF TaskRuns, TaskEnds, TypeOK
  <2>3. \A u \in updates' : u \in updates \/ u.task = t
    BY <1>1, <1>3 DEF TaskRuns, TaskEnds, Pending
  <2>4. \A u \in updates' : u.status # "LOST" => mesos'[u.task] # "none"
    BY <2>1, <2>2, <2>3 DEF NoPhantom, TypeOK, Update
  <2> QED BY <1>2, <2>1, <2>4 DEF NoPhantom, Coherent, Claims
<1>4. CASE Recycle(t)
  <2>1. /\ rec[t].state = "none" /\ loop.task # t
        /\ \A h \in Beats : hb[h].task # t
        /\ \A u \in updates : u.task # t
    BY <1>4 DEF Recycle, Traceless, Held, Recorded
  <2>2. \A s \in Tasks \ {t} : mesos'[s] = mesos[s]
    BY <1>4 DEF Recycle, TypeOK
  <2>3. ~Claims(rec[t])
    BY <2>1 DEF NoPhantom, Claims, Blank
  <2>4. \A u \in updates' : u.status # "LOST" => mesos'[u.task] # "none"
    BY <1>4, <2>1, <2>2 DEF Recycle, NoPhantom, TypeOK, Update
  <2>5. \A s \in Tasks : Blank(rec'[s]) /\ (Claims(rec'[s]) => mesos'[s] # "none")
    BY <1>2, <2>2, <2>3 DEF NoPhantom
  <2>6. loop'.at = "update" => mesos'[loop'.task] # "none"
    BY <1>2, <2>1, <2>2 DEF NoPhantom, Coherent
  <2>7. \A h \in Beats :
          Claims(hb'[h].held) => /\ hb'[h].at \in {"rewrite", "clean"}
                                 /\ mesos'[hb'[h].task] # "none"
    BY <1>2, <2>1, <2>2 DEF NoPhantom, Coherent
  <2> QED BY <1>2, <2>4, <2>5, <2>6, <2>7 DEF NoPhantom
<1>5. CASE Reconcile(t) \/ ImplicitReconcile(t)
  <2>1. Answer(t).task = t /\ (Answer(t).status # "LOST" => Live(t))
    BY <1>1 DEF Answer
  <2>2. \A u \in updates' : u \in updates \/ u = Answer(t)
    BY <1>5 DEF Reconcile, ImplicitReconcile, Pending
  <2>3. UNCHANGED mesos
    BY <1>5 DEF Reconcile, ImplicitReconcile
  <2>4. Live(t) => mesos[t] # "none"
    BY DEF Live
  <2>5. \A u \in updates' : u.status # "LOST" => mesos'[u.task] # "none"
    BY <2>1, <2>2, <2>3, <2>4 DEF NoPhantom
  <2> QED BY <1>2, <2>3, <2>5 DEF NoPhantom
<1> QED BY <1>3, <1>4, <1>5

(* A KILL call forgets no task and reports the end of live ones only.      *)
LEMMA PhantomKill ==
  ASSUME TypeOK, NoPhantom, NEW t \in Tasks, NEW ups, ups \subseteq updates, Kill(t, ups)
  PROVE  /\ \A s \in Tasks : mesos[s] # "none" => mesos'[s] # "none"
         /\ \A u \in updates' : u.status # "LOST" => mesos'[u.task] # "none"
<1>1. \A s : Up(t, s).task = t /\ Up(t, s).status = s
  BY DEF Up
<1>2. \A u \in ups : u.task \in Tasks /\ (u.status # "LOST" => mesos[u.task] # "none")
  BY DEF TypeOK, Update, NoPhantom
<1>3. CASE UNCHANGED mesos /\ updates' = ups
  BY <1>2, <1>3
<1>4. CASE mesos' = [mesos EXCEPT ![t] = "gone"] /\ Pending(ups \cup {Up(t, "KILLED")})
  <2>1. \A s \in Tasks : mesos[s] # "none" => mesos'[s] # "none"
    BY <1>4 DEF TypeOK
  <2>2. mesos'[t] # "none"
    BY <1>4 DEF TypeOK
  <2>3. \A u \in updates' : u \in ups \/ u.task = t
    BY <1>1, <1>4 DEF Pending
  <2> QED BY <1>2, <2>1, <2>2, <2>3
<1>5. CASE UNCHANGED mesos /\ Pending(ups \cup {Up(t, "LOST")})
  <2>1. \A u \in updates' : u \in ups \/ u.status = "LOST"
    BY <1>1, <1>5 DEF Pending
  <2> QED BY <1>2, <1>5, <2>1
<1> QED BY <1>3, <1>4, <1>5 DEF Kill

(* HandleUpdate writes what an update said, and updates speak of launched  *)
(* tasks only.                                                             *)
LEMMA PhantomUpdate ==
  ASSUME TypeOK, Coherent, NoPhantom,
         UpdateSave \/ \E u \in updates : UpdateUnknown(u) \/ UpdateTerminal(u) \/ UpdateRead(u)
  PROVE  NoPhantom'
<1>1. CASE UpdateSave
  <2>1. loop.task \in Tasks /\ mesos[loop.task] # "none" /\ Blank(loop.held)
    BY <1>1 DEF UpdateSave, Coherent, NoPhantom
  <2>2. \A t \in Tasks : rec'[t] = IF t = loop.task THEN loop.held ELSE rec[t]
    BY <1>1 DEF UpdateSave, TypeOK
  <2>3. loop' = IdleLoop /\ Blank(NoRecord) /\ UNCHANGED <<hb, mesos, updates>>
    BY <1>1 DEF UpdateSave, Blank, NoRecord
  <2> QED BY <2>1, <2>2, <2>3 DEF NoPhantom, IdleLoop
<1>2. ASSUME NEW u \in updates, UpdateUnknown(u) PROVE NoPhantom'
  <2>1. u.task \in Tasks
    BY DEF TypeOK, Update
  <2>2. PICK ups \in AckOutcomes(u) :
              IF u.status = "LOST" THEN UNCHANGED mesos /\ updates' = ups
                                   ELSE Kill(u.task, ups)
    BY <1>2 DEF UpdateUnknown
  <2>3. ups \subseteq updates
    BY <2>2 DEF AckOutcomes, Acknowledge
  <2>4. /\ \A s \in Tasks : mesos[s] # "none" => mesos'[s] # "none"
        /\ \A v \in updates' : v.status # "LOST" => mesos'[v.task] # "none"
    <3>1. CASE u.status = "LOST"
      BY <2>2, <2>3, <3>1 DEF NoPhantom
    <3>2. CASE u.status # "LOST"
      BY <2>1, <2>2, <2>3, <3>2, PhantomKill
    <3> QED BY <3>1, <3>2
  <2>5. UNCHANGED <<rec, loop, hb>>
    BY <1>2 DEF UpdateUnknown
  <2> QED BY <2>4, <2>5 DEF NoPhantom, Coherent
<1>3. ASSUME NEW u \in updates, UpdateTerminal(u) PROVE NoPhantom'
  <2>1. updates' \subseteq updates /\ UNCHANGED <<loop, hb, mesos>>
    BY <1>3 DEF UpdateTerminal, AckOutcomes, Acknowledge
  <2>2. \A t \in Tasks : rec'[t] \in {rec[t], NoRecord}
    BY <1>3 DEF UpdateTerminal, TypeOK
  <2>3. ~Claims(NoRecord) /\ Blank(NoRecord)
    BY DEF Claims, Blank, NoRecord
  <2> QED BY <2>1, <2>2, <2>3 DEF NoPhantom
<1>4. ASSUME NEW u \in updates, UpdateRead(u) PROVE NoPhantom'
  <2>1. u.task \in Tasks /\ u.status \in {"STAGING", "RUNNING"}
    BY <1>4 DEF TypeOK, Update, Statuses, UpdateRead
  <2>2. mesos[u.task] # "none"
    BY <2>1 DEF NoPhantom
  <2>3. loop'.at = "update" /\ loop'.task = u.task
    BY <1>4 DEF UpdateRead
  <2>4. loop'.held.state = u.status
    BY <1>4, <2>1 DEF UpdateRead, TypeOK, Record, Running
  <2>5. UNCHANGED <<rec, hb, mesos>> /\ updates' \subseteq updates
    BY <1>4 DEF UpdateRead, Acknowledge
  <2> QED BY <2>1, <2>2, <2>3, <2>4, <2>5 DEF NoPhantom, Blank
<1> QED BY <1>1, <1>2, <1>3, <1>4

(* HandleOffers launches a task before anything can claim that it runs.    *)
LEMMA PhantomOffer ==
  ASSUME TypeOK, Coherent, NoPhantom,
         Subscribe \/ SubscribeDone \/ OfferTake \/ OfferNone \/ OfferPutBack \/ OfferAccept \/ OfferRefused
  PROVE  NoPhantom'
<1>1. UNCHANGED <<rec, hb>>
  BY DEF Subscribe, SubscribeDone, OfferTake, OfferNone, OfferPutBack, OfferAccept, OfferRefused
<1>2. loop'.at # "update" /\ Blank(loop'.held)
  <2>1. IdleLoop.at # "update" /\ Blank(IdleLoop.held)
    BY DEF IdleLoop, Blank, NoRecord
  <2>2. CASE SubscribeDone \/ OfferPutBack \/ OfferAccept \/ OfferRefused
    BY <2>1, <2>2 DEF SubscribeDone, OfferPutBack, OfferAccept, OfferRefused
  <2>3. CASE Subscribe \/ OfferTake \/ OfferNone
    BY <2>3 DEF Subscribe, OfferTake, OfferNone, TypeOK, NoPhantom
  <2> QED BY <2>2, <2>3
<1>3. /\ \A s \in Tasks : mesos[s] # "none" => mesos'[s] # "none"
      /\ \A u \in updates' : u.status # "LOST" => mesos'[u.task] # "none"
  <2>1. \A s : Up(loop.task, s).task = loop.task /\ Up(loop.task, s).status = s
    BY DEF Up
  <2>2. CASE Subscribe \/ SubscribeDone \/ OfferTake \/ OfferNone \/ OfferPutBack
    BY <2>2 DEF Subscribe, SubscribeDone, OfferTake, OfferNone, OfferPutBack, NoPhantom
  <2>3. CASE OfferAccept
    <3>1. CASE Live(loop.task)
      <4>1. mesos[loop.task] # "none" /\ UNCHANGED mesos
        BY <2>3, <3>1 DEF OfferAccept, Live
      <4>2. \A u \in updates' : u \in updates \/ u.task = loop.task
        BY <2>1, <2>3, <3>1 DEF OfferAccept, Pending
      <4> QED BY <4>1, <4>2 DEF NoPhantom
    <3>2. CASE ~Live(loop.task)
      <4>1. mesos' = [mesos EXCEPT ![loop.task] = "STAGING"] /\ UNCHANGED updates
        BY <2>3, <3>2 DEF OfferAccept
      <4>2. \A u \in updates : u.task \in Tasks
        BY DEF TypeOK, Update
      <4> QED BY <4>1, <4>2 DEF NoPhantom, TypeOK
    <3> QED BY <3>1, <3>2
  <2>4. CASE OfferRefused
    <3>1. \A u \in updates' : u \in updates \/ u.status = "LOST"
      BY <2>1, <2>4 DEF OfferRefused, Pending
    <3> QED BY <2>4, <3>1 DEF OfferRefused, NoPhantom
  <2> QED BY <2>2, <2>3, <2>4
<1> QED BY <1>1, <1>2, <1>3 DEF NoPhantom, Coherent

(* CheckState writes only records that claim nothing.                      *)
LEMMA PhantomCheck ==
  ASSUME TypeOK, Coherent, NoPhantom, NEW c \in Checkers,
         \/ CheckCount(c) \/ CheckCorrupt(c) \/ CheckSend(c) \/ CheckSave(c)
         \/ \E t \in Tasks : CheckRead(c, t)
  PROVE  NoPhantom'
<1>1. UNCHANGED <<hb, mesos, updates>>
  BY DEF CheckCount, CheckCorrupt, CheckSend, CheckSave, CheckRead
<1>2. loop'.at = loop.at /\ loop'.task = loop.task /\ loop'.held = loop.held
  BY DEF CheckCount, CheckCorrupt, CheckSend, CheckSave, CheckRead, TypeOK
<1>3. \A t \in Tasks : rec'[t] \in {rec[t], NoRecord, Queued}
  BY DEF CheckCount, CheckCorrupt, CheckSend, CheckSave, CheckRead, TypeOK
<1>4. ~Claims(NoRecord) /\ ~Claims(Queued) /\ Blank(NoRecord) /\ Blank(Queued)
  BY DEF Claims, Blank, NoRecord, Queued
<1> QED BY <1>1, <1>2, <1>3, <1>4 DEF NoPhantom

(* A pass claims something only between the read of a record and the write *)
(* or the decision that follows it.                                        *)
LEMMA PhantomBeat ==
  ASSUME TypeOK, Coherent, NoPhantom, NEW h \in Beats,
         \/ BeatCount(h) \/ BeatRecount(h) \/ BeatStart(h)
         \/ ScaleWrite(h) \/ ScaleKill(h) \/ ScaleDone(h) \/ BeatClean(h)
         \/ \E k \in Kinds : BeatBegin(h, k)
         \/ \E t \in Tasks : ScaleRead(h, t) \/ BeatUnready(h, t)
  PROVE  NoPhantom'
<1> DEFINE Kept == /\ \A s \in Tasks : mesos[s] # "none" => mesos'[s] # "none"
                   /\ \A u \in updates' : u.status # "LOST" => mesos'[u.task] # "none"
           Clean(r) == Blank(r.held) /\ ~Claims(r.held)
           Hold(r) == /\ Blank(r.held) /\ r.at \in {"rewrite", "clean"}
                      /\ r.task \in Tasks /\ (Claims(r.held) => mesos[r.task] # "none")
           Recs == \A t \in Tasks : Blank(rec'[t]) /\ (Claims(rec'[t]) => mesos[t] # "none")
<1>0. /\ hb \in [Beats -> [at : BeatAt, kind : Kinds, task : Tasks \cup {NoTask},
                           held : Record, todo : SUBSET Tasks, kills : Nat, go : BOOLEAN]]
      /\ rec \in [Tasks -> Record]
      /\ DOMAIN hb' = Beats /\ \A g \in Beats \ {h} : hb'[g] = hb[g]
  BY BeatTable DEF TypeOK
<1>1. ~Claims(NoRecord) /\ Blank(NoRecord) /\ ~Claims(NewRecord) /\ Blank(NewRecord)
  BY DEF Claims, Blank, NoRecord, NewRecord
<1>2. Clean(IdleBeat)
  BY <1>1 DEF IdleBeat
<1>3. ASSUME Recs, Kept, UNCHANGED loop, Clean(hb'[h]) \/ Hold(hb'[h])
      PROVE  NoPhantom'
  <2>1. \A t \in Tasks : Blank(rec'[t]) /\ (Claims(rec'[t]) => mesos'[t] # "none")
    BY <1>3
  <2>2. loop'.at = "update" => mesos'[loop'.task] # "none"
    BY <1>3 DEF NoPhantom, Coherent
  <2>3. ASSUME NEW g \in Beats
        PROVE  /\ Blank(hb'[g].held)
               /\ Claims(hb'[g].held) => /\ hb'[g].at \in {"rewrite", "clean"}
                                         /\ mesos'[hb'[g].task] # "none"
    <3>1. CASE g = h
      BY <1>3, <3>1
    <3>2. CASE g # h
      BY <1>0, <1>3, <3>2 DEF NoPhantom, Coherent
    <3> QED BY <3>1, <3>2
  <2>4. Blank(loop'.held)
    BY <1>3 DEF NoPhantom
  <2> QED BY <1>3, <2>1, <2>2, <2>3, <2>4 DEF NoPhantom
<1>4. UNCHANGED rec => Recs
  BY DEF NoPhantom
<1>5. UNCHANGED <<mesos, updates>> => Kept
  BY DEF NoPhantom
<1>6. hb[h].at \notin {"rewrite", "clean"} => Clean(hb[h])
  BY DEF NoPhantom
<1>7. ASSUME NEW k \in Kinds, StartWith(h, k), hb[h].at \notin {"rewrite", "clean"}
      PROVE  Clean(hb'[h])
  <2>1. hb'[h].held \in {hb[h].held, IdleBeat.held}
    BY <1>0, <1>7 DEF StartWith
  <2> QED BY <1>2, <1>6, <1>7, <2>1
<1>8. CASE BeatCount(h)
  <2>1. Clean(hb'[h])
    <3>1. hb[h].kind \in Kinds /\ hb[h].at \notin {"rewrite", "clean"}
      BY <1>0, <1>8 DEF BeatCount
    <3>2. CASE StartWith(h, hb[h].kind)
      BY <1>7, <3>1, <3>2
    <3>3. CASE hb' = [hb EXCEPT ![h] = IdleBeat]
      BY <1>0, <1>2, <3>3
    <3>4. CASE hb' = [hb EXCEPT ![h].at = "recount"]
      BY <1>0, <1>6, <3>1, <3>4
    <3> QED BY <1>8, <3>2, <3>3, <3>4 DEF BeatCount
  <2> QED BY <1>3, <1>4, <1>5, <1>8, <2>1 DEF BeatCount
<1>9. CASE BeatRecount(h)
  <2>1. Clean(hb'[h])
    <3>1. hb[h].kind \in Kinds /\ hb[h].at \notin {"rewrite", "clean"}
      BY <1>0, <1>9 DEF BeatRecount
    <3>2. CASE StartWith(h, hb[h].kind)
      BY <1>7, <3>1, <3>2
    <3>3. CASE ~StartWith(h, hb[h].kind)
      <4>1. hb'[h].held = hb[h].held
        BY <1>0, <1>9, <3>3 DEF BeatRecount
      <4> QED BY <1>6, <3>1, <4>1
    <3> QED BY <3>2, <3>3
  <2> QED BY <1>3, <1>4, <1>5, <1>9, <2>1 DEF BeatRecount
<1>10. CASE BeatStart(h)
  <2>1. hb'[h] = IdleBeat
    BY <1>0, <1>10 DEF BeatStart
  <2>2. \A t \in Tasks : rec'[t] \in {rec[t], NewRecord}
    BY <1>0, <1>10 DEF BeatStart
  <2>3. Recs
    BY <1>1, <2>2 DEF NoPhantom
  <2> QED BY <1>2, <1>3, <1>5, <1>10, <2>1, <2>3 DEF BeatStart
<1>11. CASE ScaleWrite(h)
  <2>1. hb[h].task \in Tasks /\ hb[h].at = "rewrite"
    BY <1>11 DEF ScaleWrite, Coherent
  <2>2. hb'[h].held = NoRecord
    BY <1>0, <1>11 DEF ScaleWrite
  <2>3. \A t \in Tasks : rec'[t] = IF t = hb[h].task THEN hb[h].held ELSE rec[t]
    BY <1>0, <1>11 DEF ScaleWrite
  <2>4. Recs
    BY <2>1, <2>3 DEF NoPhantom
  <2> QED BY <1>1, <1>3, <1>5, <1>11, <2>2, <2>4 DEF ScaleWrite
<1>17. CASE ScaleKill(h)
  <2>1. hb[h].task \in Tasks /\ hb[h].at = "kill"
    BY <1>17 DEF ScaleKill, Coherent
  <2>2. hb'[h].held = hb[h].held
    BY <1>0, <1>17 DEF ScaleKill
  <2>3. Clean(hb'[h])
    BY <1>6, <2>1, <2>2
  <2>4. Kept
    BY <1>17, <2>1, PhantomKill DEF ScaleKill
  <2> QED BY <1>3, <1>4, <1>17, <2>3, <2>4 DEF ScaleKill
<1>12. CASE ScaleDone(h)
  <2>1. hb'[h] = IdleBeat
    BY <1>0, <1>12 DEF ScaleDone
  <2> QED BY <1>2, <1>3, <1>4, <1>5, <1>12, <2>1 DEF ScaleDone
<1>13. CASE BeatClean(h)
  <2>1. hb[h].task \in Tasks
    BY <1>13 DEF BeatClean, Coherent
  <2>2. hb'[h].held = NoRecord
    BY <1>0, <1>13 DEF BeatClean, IdleBeat
  <2>3. \A t \in Tasks : rec'[t] \in {rec[t], NoRecord}
    BY <1>0, <1>13 DEF BeatClean
  <2>4. Recs
    BY <1>1, <2>3 DEF NoPhantom
  <2>5. Kept
    <3>1. CASE hb[h].held.info
      BY <1>13, <2>1, <3>1, PhantomKill DEF BeatClean
    <3>2. CASE ~hb[h].held.info
      BY <1>5, <1>13, <3>2 DEF BeatClean
    <3> QED BY <3>1, <3>2
  <2> QED BY <1>1, <1>3, <1>13, <2>2, <2>4, <2>5 DEF BeatClean
<1>14. ASSUME NEW k \in Kinds, BeatBegin(h, k) PROVE NoPhantom'
  <2>1. hb'[h].held = NoRecord
    BY <1>0, <1>14 DEF BeatBegin, IdleBeat
  <2> QED BY <1>1, <1>3, <1>4, <1>5, <1>14, <2>1 DEF BeatBegin
<1>15. ASSUME NEW t \in Tasks, ScaleRead(h, t) PROVE NoPhantom'
  <2> DEFINE stage == IF Recorded(t) THEN "rewrite" ELSE "scale"
             found == IF Recorded(t) THEN t ELSE NoTask
             left  == IF Recorded(t) \/ hb[h].kills = 0 THEN hb[h].kills ELSE hb[h].kills - 1
  <2>0. hb' = [hb EXCEPT ![h] = [hb[h] EXCEPT !.at = stage, !.task = found, !.held = rec[t],
                                              !.todo = @ \ {t}, !.kills = left]]
    BY <1>0, <1>15 DEF ScaleRead
  <2>1. hb'[h].held = rec[t]
    <3> HIDE DEF stage, found, left
    <3> QED BY <1>0, <2>0
  <2>2. CASE Recorded(t)
    <3>1. hb'[h].at = stage /\ hb'[h].task = found
      <4> HIDE DEF stage, found, left
      <4> QED BY <1>0, <2>0
    <3>2. Hold(hb'[h])
      BY <2>1, <2>2, <3>1 DEF NoPhantom
    <3> QED BY <1>3, <1>4, <1>5, <1>15, <3>2 DEF ScaleRead
  <2>3. CASE ~Recorded(t)
    <3>1. Clean(hb'[h])
      BY <2>1, <2>3 DEF NoPhantom, Recorded, Claims, Blank
    <3> QED BY <1>3, <1>4, <1>5, <1>15, <3>1 DEF ScaleRead
  <2> QED BY <2>2, <2>3
<1>16. ASSUME NEW t \in Tasks, BeatUnready(h, t) PROVE NoPhantom'
  <2>1. hb'[h].held = rec[t] /\ hb'[h].at = "clean" /\ hb'[h].task = t
    BY <1>0, <1>16 DEF BeatUnready, IdleBeat
  <2>2. Hold(hb'[h])
    BY <2>1 DEF NoPhantom
  <2> QED BY <1>3, <1>4, <1>5, <1>16, <2>2 DEF BeatUnready
<1> QED BY <1>8, <1>9, <1>10, <1>11, <1>12, <1>13, <1>14, <1>15, <1>16, <1>17

(* After every step, records, updates and copies speak of launched tasks   *)
(* only.                                                                   *)
LEMMA PhantomStep ==
  ASSUME TypeOK, Coherent, NoPhantom, [Next]_vars
  PROVE  NoPhantom'
<1>1. CASE UNCHANGED vars
  BY <1>1 DEF vars, NoPhantom
<1>2. CASE Disconnect \/ Restart
  <2>1. ~Claims(NoRecord) /\ Blank(NoRecord)
    BY DEF Claims, Blank, NoRecord
  <2>2. loop'.at = "down" /\ loop'.held = NoRecord
    BY <1>2 DEF Disconnect, Restart, IdleLoop
  <2>3. \A h \in Beats : hb'[h] = hb[h] \/ hb'[h].held = NoRecord
    BY <1>2 DEF Disconnect, Restart, IdleBeat
  <2>4. updates' \subseteq updates /\ UNCHANGED <<rec, mesos>>
    BY <1>2 DEF Disconnect, Restart, Retained
  <2> QED BY <2>1, <2>2, <2>3, <2>4 DEF NoPhantom
<1>3. CASE Next /\ ~(Disconnect \/ Restart)
  BY <1>3, PhantomMesos, PhantomUpdate, PhantomOffer, PhantomCheck, PhantomBeat
     DEF Next, MesosNext, LoopNext, CheckNext, BeatNext
<1> QED BY <1>1, <1>2, <1>3

-----------------------------------------------------------------------------
(* Records and copies                                                      *)

(* At the start there are no more records of a kind than configured, and   *)
(* no copies.                                                              *)
LEMMA FootprintInit == Init => FootprintBounded
<1> SUFFICES ASSUME Init, NEW k \in Kinds
             PROVE  /\ IsFiniteSet(Footprint(k))
                    /\ Cardinality(Footprint(k)) <= Max[k] + Cardinality(Holders)
  BY DEF FootprintBounded
<1> DEFINE S == {t \in Stored : KindOf[t] = k}
<1>1. loop.at = "down" /\ (\A c \in Checkers : chk[c].task = NoTask)
                      /\ (\A h \in Beats : hb[h].task = NoTask)
  BY DEF Init, IdleLoop, IdleChk, IdleBeat
<1>2. \A t \in Tasks : ~Held(t)
  BY <1>1, ConstantsAssumption DEF Held
<1>3. \A t \in Tasks : Recorded(t) => t \in Stored
  BY DEF Init, Recorded, NoRecord
<1>4. Footprint(k) \in SUBSET S
  BY <1>2, <1>3 DEF Footprint, HeldOf, RecordsOf, OfKind
<1>5. IsFiniteSet(S) /\ Cardinality(S) <= Max[k]
  <2>1. S \in SUBSET Stored
    OBVIOUS
  <2>2. IsFiniteSet(S)
    <3> HIDE DEF S
    <3> QED BY <2>1, ConstantsAssumption, FS_Subset
  <2> QED BY <2>2, ConstantsAssumption
<1>6. IsFiniteSet(Footprint(k)) /\ Cardinality(Footprint(k)) <= Cardinality(S)
  <2> HIDE DEF S
  <2> QED BY <1>4, <1>5, FS_Subset
<1>7. Cardinality(S) \in Nat /\ Cardinality(Footprint(k)) \in Nat
  <2> HIDE DEF S
  <2> QED BY <1>5, <1>6, FS_CardinalityType
<1>8. Max[k] \in Nat /\ Cardinality(Holders) \in Nat
  BY ConstantsAssumption, HoldersFinite
<1> HIDE DEF S
<1> QED BY <1>5, <1>6, <1>7, <1>8

(* Nothing new is recorded or held by a step that keeps to this.           *)
NothingNew(k) == \A t \in OfKind(k) : Recorded(t)' \/ Held(t)' => Recorded(t) \/ Held(t)

(* A step after which nothing new is recorded or held keeps the bound.     *)
LEMMA FootprintKept ==
  ASSUME NEW k \in Kinds, FootprintBounded, NothingNew(k)
  PROVE  /\ IsFiniteSet(Footprint(k)')
         /\ Cardinality(Footprint(k)') <= Max[k] + Cardinality(Holders)
<1>1. Footprint(k)' \in SUBSET Footprint(k)
  BY DEF NothingNew, Footprint, RecordsOf, HeldOf, OfKind
<1>2. IsFiniteSet(Footprint(k)) /\ Cardinality(Footprint(k)) <= Max[k] + Cardinality(Holders)
  BY DEF FootprintBounded
<1>3. IsFiniteSet(Footprint(k)') /\ Cardinality(Footprint(k)') <= Cardinality(Footprint(k))
  BY <1>1, <1>2, FS_Subset
<1>4. Cardinality(Footprint(k)) \in Nat /\ Cardinality(Footprint(k)') \in Nat
  BY <1>2, <1>3, FS_CardinalityType
<1>5. Max[k] \in Nat /\ Cardinality(Holders) \in Nat
  BY ConstantsAssumption, HoldersFinite
<1> QED BY <1>2, <1>3, <1>4, <1>5

(* A pass takes a new identifier only when the count allows one more.      *)
LEMMA FootprintStarted ==
  ASSUME NEW k \in Kinds, FootprintBounded, HeldSmall', UNCHANGED rec, Count(k) <= Max[k]
  PROVE  /\ IsFiniteSet(Footprint(k)')
         /\ Cardinality(Footprint(k)') <= Max[k] + Cardinality(Holders)
<1>1. RecordsOf(k)' = RecordsOf(k)
  BY DEF RecordsOf, OfKind, Recorded
<1>2. IsFiniteSet(RecordsOf(k)) /\ Cardinality(RecordsOf(k)) \in Nat /\ Cardinality(RecordsOf(k)) <= Max[k]
  BY CountType DEF Count
<1>3. /\ IsFiniteSet(HeldOf(k)')
      /\ Cardinality(HeldOf(k)') \in Nat
      /\ Cardinality(HeldOf(k)') <= Cardinality(Holders)
  BY DEF HeldSmall
<1>4. Footprint(k)' = RecordsOf(k) \cup HeldOf(k)'
  BY <1>1 DEF Footprint
<1>5. /\ IsFiniteSet(Footprint(k)') /\ IsFiniteSet(RecordsOf(k) \cap HeldOf(k)')
      /\ Cardinality(Footprint(k)')
           = Cardinality(RecordsOf(k)) + Cardinality(HeldOf(k)')
               - Cardinality(RecordsOf(k) \cap HeldOf(k)')
  BY <1>2, <1>3, <1>4, FS_Union, FS_Intersection
<1>6. Cardinality(RecordsOf(k) \cap HeldOf(k)') \in Nat /\ Cardinality(Footprint(k)') \in Nat
  BY <1>5, FS_CardinalityType
<1>7. Max[k] \in Nat /\ Cardinality(Holders) \in Nat
  BY ConstantsAssumption, HoldersFinite
<1> QED BY <1>2, <1>3, <1>5, <1>6, <1>7

(* The event loop and CheckState write only what is recorded or held       *)
(* already.                                                                *)
LEMMA NothingNewLoop ==
  ASSUME TypeOK, Coherent,
         \/ MesosNext \/ LoopNext \/ CheckNext \/ Disconnect \/ Restart
         \/ \E t \in Tasks : Reconcile(t) \/ ImplicitReconcile(t),
         NEW k \in Kinds
  PROVE  NothingNew(k)
<1> SUFFICES ASSUME NEW t \in Tasks, Recorded(t)' \/ Held(t)'
             PROVE  Recorded(t) \/ Held(t)
  BY DEF NothingNew, OfKind
<1> USE DEF Recorded, Held
<1>0. t # NoTask /\ NoRecord.state = "none" /\ IdleChk.task = NoTask /\ IdleBeat.task = NoTask
  BY ConstantsAssumption DEF NoRecord, IdleChk, IdleBeat
<1>1. CASE MesosNext \/ \E s \in Tasks : Reconcile(s) \/ ImplicitReconcile(s)
  BY <1>1 DEF MesosNext, TaskRuns, TaskEnds, Recycle, Reconcile, ImplicitReconcile
<1>2. CASE Disconnect \/ Restart
  BY <1>0, <1>2 DEF Disconnect, Restart, IdleLoop
<1>3. CASE LoopNext
  <2>1. CASE UpdateSave
    BY <2>1 DEF UpdateSave, IdleLoop, TypeOK
  <2>2. ASSUME NEW u \in updates, UpdateUnknown(u) PROVE Recorded(t) \/ Held(t)
    BY <2>2 DEF UpdateUnknown
  <2>3. ASSUME NEW u \in updates, UpdateTerminal(u) PROVE Recorded(t) \/ Held(t)
    BY <1>0, <2>3 DEF UpdateTerminal, TypeOK
  <2>4. ASSUME NEW u \in updates, UpdateRead(u) PROVE Recorded(t) \/ Held(t)
    BY <2>4 DEF UpdateRead
  <2>5. CASE Subscribe \/ SubscribeDone \/ OfferTake \/ OfferNone
             \/ OfferPutBack \/ OfferAccept \/ OfferRefused
    <3>1. UNCHANGED <<rec, chk, hb>>
      BY <2>5 DEF Subscribe, SubscribeDone, OfferTake, OfferNone, OfferPutBack,
                  OfferAccept, OfferRefused
    <3>2. CASE SubscribeDone \/ OfferPutBack \/ OfferAccept \/ OfferRefused
      BY <3>1, <3>2 DEF SubscribeDone, OfferPutBack, OfferAccept, OfferRefused, IdleLoop
    <3>3. CASE Subscribe \/ OfferTake \/ OfferNone
      BY <3>1, <3>3 DEF Subscribe, OfferTake, OfferNone, TypeOK
    <3> QED BY <2>5, <3>2, <3>3
  <2> QED BY <1>3, <2>1, <2>2, <2>3, <2>4, <2>5 DEF LoopNext
<1>4. CASE CheckNext
  <2>1. PICK c \in Checkers :
             \/ CheckCount(c) \/ CheckCorrupt(c) \/ CheckSend(c) \/ CheckSave(c)
             \/ \E s \in Tasks : CheckRead(c, s)
    BY <1>4 DEF CheckNext
  <2>2. loop'.at = loop.at /\ loop'.task = loop.task /\ UNCHANGED hb
    BY <2>1 DEF CheckCount, CheckCorrupt, CheckSend, CheckSave, CheckRead, TypeOK
  <2>3. CASE CheckCount(c) \/ CheckSend(c)
    <3>0. chk \in [Checkers -> [at : {"idle", "count", "send", "save"}, task : Tasks \cup {NoTask}]]
      BY DEF TypeOK
    <3>1. \A d \in Checkers : chk'[d].task = chk[d].task
      <4>1. CASE chk' = [chk EXCEPT ![c].at = "send"]
        BY <3>0, <4>1
      <4>2. CASE chk' = [chk EXCEPT ![c].at = "save"]
        BY <3>0, <4>2
      <4> QED BY <2>3, <4>1, <4>2 DEF CheckCount, CheckSend
    <3>2. UNCHANGED rec
      BY <2>3 DEF CheckCount, CheckSend
    <3> QED BY <2>2, <3>1, <3>2
  <2>4. CASE CheckCorrupt(c) \/ CheckSave(c)
    <3>1. rec'[t].state # "none" => rec[t].state # "none" \/ chk[c].task = t
      BY <1>0, <2>4 DEF CheckCorrupt, CheckSave, TypeOK
    <3>2. \A d \in Checkers : chk'[d].task = t => chk[d].task = t
      BY <1>0, <2>4 DEF CheckCorrupt, CheckSave, TypeOK
    <3> QED BY <2>2, <3>1, <3>2
  <2>5. ASSUME NEW s \in Tasks, CheckRead(c, s) PROVE Recorded(t) \/ Held(t)
    <3>1. rec[s].state # "none" /\ UNCHANGED rec
      BY <2>5 DEF CheckRead
    <3>2. \A d \in Checkers : chk'[d].task = t => chk[d].task = t \/ t = s
      BY <2>5 DEF CheckRead, TypeOK
    <3> QED BY <2>2, <3>1, <3>2
  <2> QED BY <2>1, <2>3, <2>4, <2>5
<1> QED BY <1>1, <1>2, <1>3, <1>4

(* A pass writes what it holds, and takes up recorded tasks or, in         *)
(* StartWith, new ones.                                                    *)
LEMMA NothingNewBeat ==
  ASSUME TypeOK, Coherent, FootprintBounded, NEW h \in Beats, NEW k \in Kinds,
         \/ BeatCount(h) \/ BeatRecount(h) \/ BeatStart(h)
         \/ ScaleWrite(h) \/ ScaleKill(h) \/ ScaleDone(h) \/ BeatClean(h)
         \/ \E j \in Kinds : BeatBegin(h, j)
         \/ \E t \in Tasks : ScaleRead(h, t) \/ BeatUnready(h, t)
  PROVE  NothingNew(k) \/ (UNCHANGED rec /\ Count(k) <= Max[k])
<1>0. /\ hb \in [Beats -> [at : BeatAt, kind : Kinds, task : Tasks \cup {NoTask},
                           held : Record, todo : SUBSET Tasks, kills : Nat, go : BOOLEAN]]
      /\ rec \in [Tasks -> Record]
      /\ DOMAIN hb' = Beats /\ \A g \in Beats \ {h} : hb'[g] = hb[g]
  BY BeatTable DEF TypeOK
<1>1. NoTask \notin Tasks /\ NoRecord.state = "none" /\ IdleBeat.task = NoTask
  BY ConstantsAssumption DEF NoRecord, IdleBeat
<1>2. ASSUME UNCHANGED <<loop, chk>>,
             \A t \in OfKind(k) : Recorded(t)' => Recorded(t) \/ hb[h].task = t,
             \A t \in OfKind(k) : hb'[h].task = t => hb[h].task = t \/ Recorded(t)
      PROVE  NothingNew(k)
  BY <1>0, <1>2 DEF NothingNew, Held
<1>3. \A t \in OfKind(k) : t # NoTask
  BY <1>1 DEF OfKind
<1>4. ASSUME NEW j \in Kinds, StartWith(h, j), Count(j) <= Max[j], UNCHANGED <<rec, loop, chk>>
      PROVE  NothingNew(k) \/ (UNCHANGED rec /\ Count(k) <= Max[k])
  <2>1. CASE k = j
    BY <1>4, <2>1
  <2>2. CASE k # j
    <3>1. hb'[h].task = NoTask \/ hb'[h].task \in OfKind(j)
      BY <1>0, <1>1, <1>4 DEF StartWith
    <3>2. \A t \in OfKind(k) : t \notin OfKind(j)
      BY <2>2 DEF OfKind
    <3> QED BY <1>2, <1>3, <1>4, <3>1, <3>2 DEF Recorded
  <2> QED BY <2>1, <2>2
<1>5. CASE BeatCount(h)
  <2>1. hb[h].kind \in Kinds /\ UNCHANGED <<rec, loop, chk>>
    BY <1>0, <1>5 DEF BeatCount
  <2>2. CASE hb' = [hb EXCEPT ![h] = IdleBeat] \/ hb' = [hb EXCEPT ![h].at = "recount"]
    <3>1. hb'[h].task \in {hb[h].task, NoTask}
      BY <1>0, <1>1, <2>2
    <3> QED BY <1>2, <1>3, <2>1, <3>1 DEF Recorded
  <2>3. CASE StartWith(h, hb[h].kind) /\ ~(Count("datastore") >= Max["datastore"])
                                      /\ hb[h].kind = "datastore"
    <3>1. Count("datastore") \in Nat /\ Max["datastore"] \in Nat
      BY <2>1, <2>3, CountType, ConstantsAssumption
    <3>2. Count("datastore") <= Max["datastore"]
      BY <2>3, <3>1
    <3> QED BY <1>4, <2>1, <2>3, <3>2
  <2> QED BY <1>5, <2>2, <2>3 DEF BeatCount
<1>6. CASE BeatRecount(h)
  <2>1. hb[h].kind \in Kinds /\ UNCHANGED <<rec, loop, chk>>
    BY <1>0, <1>6 DEF BeatRecount
  <2>2. CASE StartWith(h, hb[h].kind) /\ Count(hb[h].kind) <= Max[hb[h].kind]
    BY <1>4, <2>1, <2>2
  <2>3. CASE hb' = [hb EXCEPT ![h].at = "scale", ![h].todo = RecordsOf(hb[h].kind),
                              ![h].kills = Count(hb[h].kind) - Max[hb[h].kind]]
    <3>1. hb'[h].task = hb[h].task
      BY <1>0, <2>3
    <3> QED BY <1>2, <2>1, <3>1 DEF Recorded
  <2> QED BY <1>6, <2>2, <2>3 DEF BeatRecount
<1>7. CASE BeatStart(h)
  <2>1. hb'[h].task = NoTask
    BY <1>0, <1>1, <1>7 DEF BeatStart
  <2>2. \A t \in OfKind(k) : Recorded(t)' => Recorded(t) \/ hb[h].task = t
    BY <1>0, <1>7 DEF BeatStart, Recorded, OfKind
  <2> QED BY <1>2, <1>3, <1>7, <2>1, <2>2 DEF BeatStart
<1>8. CASE ScaleWrite(h)
  <2>1. hb'[h].task = IF hb[h].kills > 0 THEN hb[h].task ELSE NoTask
    BY <1>0, <1>8 DEF ScaleWrite
  <2>2. \A t \in OfKind(k) : Recorded(t)' => Recorded(t) \/ hb[h].task = t
    BY <1>0, <1>8 DEF ScaleWrite, Recorded, OfKind
  <2> QED BY <1>2, <1>3, <1>8, <2>1, <2>2 DEF ScaleWrite
<1>14. CASE ScaleKill(h)
  <2>1. hb'[h].task = NoTask
    BY <1>0, <1>14 DEF ScaleKill
  <2> QED BY <1>2, <1>3, <1>14, <2>1 DEF ScaleKill, Recorded
<1>9. CASE ScaleDone(h)
  <2>1. hb'[h].task = NoTask
    BY <1>0, <1>1, <1>9 DEF ScaleDone
  <2> QED BY <1>2, <1>3, <1>9, <2>1 DEF ScaleDone, Recorded
<1>10. CASE BeatClean(h)
  <2>1. hb'[h].task = NoTask
    BY <1>0, <1>1, <1>10 DEF BeatClean, IdleBeat
  <2>2. \A t \in OfKind(k) : Recorded(t)' => Recorded(t)
    BY <1>0, <1>1, <1>10 DEF BeatClean, Recorded, OfKind
  <2> QED BY <1>2, <1>3, <1>10, <2>1, <2>2 DEF BeatClean
<1>11. ASSUME NEW j \in Kinds, BeatBegin(h, j) PROVE NothingNew(k)
  <2>1. hb'[h].task = NoTask
    BY <1>0, <1>11 DEF BeatBegin, IdleBeat
  <2> QED BY <1>2, <1>3, <1>11, <2>1 DEF BeatBegin, Recorded
<1>12. ASSUME NEW t \in Tasks, ScaleRead(h, t) PROVE NothingNew(k)
  <2> DEFINE stage == IF Recorded(t) THEN "rewrite" ELSE "scale"
             found == IF Recorded(t) THEN t ELSE NoTask
             left  == IF Recorded(t) \/ hb[h].kills = 0 THEN hb[h].kills ELSE hb[h].kills - 1
  <2>0. hb' = [hb EXCEPT ![h] = [hb[h] EXCEPT !.at = stage, !.task = found, !.held = rec[t],
                                              !.todo = @ \ {t}, !.kills = left]]
    BY <1>0, <1>12 DEF ScaleRead
  <2>1. hb'[h].task = found
    <3> HIDE DEF stage, found, left
    <3> QED BY <1>0, <2>0
  <2>2. UNCHANGED <<rec, loop, chk>>
    BY <1>12 DEF ScaleRead
  <2> QED BY <1>2, <1>3, <2>1, <2>2 DEF Recorded
<1>13. ASSUME NEW t \in Tasks, BeatUnready(h, t) PROVE NothingNew(k)
  <2>1. hb'[h].task = t /\ Recorded(t)
    BY <1>0, <1>13 DEF BeatUnready, IdleBeat
  <2>2. UNCHANGED <<rec, loop, chk>>
    BY <1>13 DEF BeatUnready
  <2> QED BY <1>2, <2>1, <2>2 DEF Recorded
<1> QED BY <1>5, <1>6, <1>7, <1>8, <1>9, <1>10, <1>11, <1>12, <1>13, <1>14

(* The records of a kind and the copies of others stay within the bound,   *)
(* after every step.                                                       *)
LEMMA FootprintStep ==
  ASSUME TypeOK, Coherent, FootprintBounded, HeldSmall', [Next]_vars
  PROVE  FootprintBounded'
<1> SUFFICES ASSUME NEW k \in Kinds
             PROVE  /\ IsFiniteSet(Footprint(k)')
                    /\ Cardinality(Footprint(k)') <= Max[k] + Cardinality(Holders)
  BY DEF FootprintBounded
<1>1. CASE UNCHANGED vars
  <2>1. NothingNew(k)
    BY <1>1 DEF vars, NothingNew, Recorded, Held
  <2> QED BY <2>1, FootprintKept
<1>2. CASE Next /\ ~BeatNext
  <2>1. NothingNew(k)
    BY <1>2, NothingNewLoop DEF Next
  <2> QED BY <2>1, FootprintKept
<1>3. CASE BeatNext
  <2>1. NothingNew(k) \/ (UNCHANGED rec /\ Count(k) <= Max[k])
    BY <1>3, NothingNewBeat DEF BeatNext
  <2> QED BY <2>1, FootprintKept, FootprintStarted
<1> QED BY <1>1, <1>2, <1>3

-----------------------------------------------------------------------------
(* Launching                                                               *)

(* A command that is taken off the channel is its head, and the first in   *)
(* line for as long as HandleOffers has it.                                *)
LEMMA FirstInLine ==
  ASSUME NEW T, NEW s \in Seq(T), NEW x \in T
  PROVE  /\ s # <<>> => <<Head(s)>> \o Tail(s) = s
         /\ <<x>> \o s # <<>>
         /\ Head(<<x>> \o s) = x
         /\ Tail(<<x>> \o s) = s
         /\ \A y \in T : <<x>> \o Append(s, y) = Append(<<x>> \o s, y)
         /\ \A i \in DOMAIN (<<x>> \o s) :
              (<<x>> \o s)[i] = x \/ \E j \in DOMAIN s : (<<x>> \o s)[i] = s[j]
<1>1. /\ <<x>> \o s \in Seq(T) /\ Len(<<x>> \o s) = 1 + Len(s)
      /\ (<<x>> \o s)[1] = x
      /\ \A i \in 1 .. Len(s) : (<<x>> \o s)[1 + i] = s[i]
  OBVIOUS
<1>2. ASSUME s # <<>> PROVE <<Head(s)>> \o Tail(s) = s
  <2>1. /\ Head(s) \in T /\ Head(s) = s[1] /\ Tail(s) \in Seq(T) /\ Len(Tail(s)) = Len(s) - 1
        /\ Len(s) \in Nat /\ Len(s) >= 1
        /\ \A i \in 1 .. Len(s) - 1 : Tail(s)[i] = s[i + 1]
    BY <1>2
  <2> DEFINE r == <<Head(s)>> \o Tail(s)
  <2>2. /\ r \in Seq(T) /\ Len(r) = 1 + Len(Tail(s)) /\ r[1] = Head(s)
        /\ \A i \in 1 .. Len(Tail(s)) : r[1 + i] = Tail(s)[i]
    BY <2>1
  <2> HIDE DEF r
  <2>3. Len(r) = Len(s)
    BY <2>1, <2>2
  <2>4. ASSUME NEW i \in 1 .. Len(s) PROVE r[i] = s[i]
    <3>1. CASE i = 1
      BY <2>1, <2>2, <3>1
    <3>2. CASE i # 1
      <4>1. i - 1 \in 1 .. Len(s) - 1 /\ 1 + (i - 1) = i /\ (i - 1) + 1 = i
        BY <2>1, <3>2
      <4> QED
        BY <2>1, <2>2, <4>1
    <3> QED
      BY <3>1, <3>2
  <2>5. r = s
    BY <2>2, <2>3, <2>4
  <2> QED
    BY <2>5 DEF r
<1>3. Tail(<<x>> \o s) = s
  <2> DEFINE r == <<x>> \o s
  <2> HIDE DEF r
  <2>1. /\ r \in Seq(T) /\ Len(r) = 1 + Len(s) /\ Len(s) \in Nat
        /\ \A i \in 1 .. Len(s) : r[1 + i] = s[i]
    BY <1>1 DEF r
  <2>2. r # <<>>
    BY <2>1
  <2>3. /\ Tail(r) \in Seq(T) /\ Len(Tail(r)) = Len(r) - 1
        /\ \A i \in 1 .. Len(r) - 1 : Tail(r)[i] = r[i + 1]
    BY <2>1, <2>2
  <2>4. \A i \in 1 .. Len(s) : Tail(r)[i] = s[i]
    <3> TAKE i \in 1 .. Len(s)
    <3>1. i \in 1 .. Len(r) - 1 /\ i + 1 = 1 + i
      BY <2>1
    <3> QED
      BY <2>1, <2>3, <3>1
  <2> QED
    BY <2>1, <2>3, <2>4 DEF r
<1>4. ASSUME NEW y \in T PROVE <<x>> \o Append(s, y) = Append(<<x>> \o s, y)
  <2>1. <<x>> \in Seq(T) /\ <<y>> \in Seq(T) /\ <<x>> \o s \in Seq(T)
    BY <1>1
  <2>2. Append(s, y) = s \o <<y>> /\ Append(<<x>> \o s, y) = (<<x>> \o s) \o <<y>>
    BY <2>1, AppendIsConcat
  <2>3. (<<x>> \o s) \o <<y>> = <<x>> \o (s \o <<y>>)
    BY <2>1, ConcatAssociative
  <2> QED
    BY <2>2, <2>3
<1>5. ASSUME NEW i \in DOMAIN (<<x>> \o s)
      PROVE  (<<x>> \o s)[i] = x \/ \E j \in DOMAIN s : (<<x>> \o s)[i] = s[j]
  <2>1. i \in 1 .. 1 + Len(s) /\ DOMAIN s = 1 .. Len(s) /\ Len(s) \in Nat
    BY <1>1
  <2>2. CASE i = 1
    BY <1>1, <2>2
  <2>3. CASE i # 1
    <3>1. i - 1 \in 1 .. Len(s) /\ 1 + (i - 1) = i
      BY <2>1, <2>3
    <3> QED
      BY <1>1, <2>1, <3>1
  <2> QED
    BY <2>2, <2>3
<1>6. <<x>> \o s # <<>> /\ Head(<<x>> \o s) = x
  BY <1>1
<1> QED
  BY <1>2, <1>3, <1>4, <1>5, <1>6

(* What becomes of a task is read off what Mesos says of it alone ...      *)
LEMMA SameLives == UNCHANGED mesos => Lives' = Lives
  BY DEF Lives, Live

(* ... and what is noted of it off its record.                             *)
LEMMA SameNotes == UNCHANGED rec => Noted' = Noted
  BY DEF Noted, Recorded

(* A KILL call ends a task that is alive, or nothing happens to any.       *)
LEMMA KillEnds ==
  ASSUME TypeOK, NEW t \in Tasks, NEW ups, Kill(t, ups)
  PROVE  L!Over(t) \/ Lives' = Lives
<1>1. CASE UNCHANGED mesos
  BY <1>1, SameLives
<1>2. CASE Live(t) /\ mesos' = [mesos EXCEPT ![t] = "gone"]
  <2>1. mesos \in [Tasks -> {"none", "STAGING", "RUNNING", "gone"}]
    BY DEF TypeOK
  <2>2. Lives' = [Lives EXCEPT ![t] = "over"] /\ Lives[t] = "alive"
    BY <1>2, <2>1 DEF Lives, Live
  <2> QED
    BY <2>2 DEF L!Over
<1> QED
  BY <1>1, <1>2 DEF Kill

(* A record is written that claims nothing of a task that Mesos never      *)
(* launched, and nothing else changes but the end of its task.             *)
LEMMA RecordNoted ==
  ASSUME TypeOK, NEW t \in Tasks, NEW r \in Record, rec' = [rec EXCEPT ![t] = r],
         Claims(r) => mesos[t] # "none",
         L!Over(t) \/ Lives' = Lives, UNCHANGED Waiting
  PROVE  L!Note(t)
<1> DEFINE note(x) == IF Claims(x) THEN "claimed" ELSE IF x.state # "none" THEN "waiting" ELSE "none"
<1>1. Noted = [s \in Tasks |-> note(rec[s])] /\ Noted' = [s \in Tasks |-> note(rec'[s])]
  BY DEF Noted, Recorded
<1>2. note(r) \in L!Notes /\ (note(r) = "claimed" => Claims(r))
  BY DEF L!Notes
<1>3. Noted' = [Noted EXCEPT ![t] = note(r)]
  <2> HIDE DEF note
  <2>1. rec \in [Tasks -> Record]
    BY DEF TypeOK
  <2> QED
    BY <1>1, <2>1
<1>4. note(r) = "claimed" => Lives[t] # "new"
  BY <1>2 DEF Lives
<1> HIDE DEF note
<1> QED
  BY <1>2, <1>3, <1>4 DEF L!Note

(* A step of Launching or none.                                            *)
Launching == [L!LNext]_(L!lvars)

(* At the start no command waits, and the records are those of the tasks   *)
(* that run.                                                               *)
LEMMA InitBegins == Init => L!Begin
<1> SUFFICES ASSUME Init PROVE L!Begin
  OBVIOUS
<1>1. Waiting = <<>>
  BY DEF Init, IdleLoop, Waiting
<1>2. Lives = [t \in Tasks |-> IF t \in Stored THEN "alive" ELSE "new"]
  BY DEF Init, Lives, Live
<1>3. Noted = [t \in Tasks |-> IF t \in Stored THEN "claimed" ELSE "none"]
  BY DEF Init, Noted, Claims, Recorded, Running, NoRecord
<1> QED
  BY <1>1, <1>2, <1>3 DEF L!Begin

(* Mesos runs and ends tasks, and answers a reconciliation; an identifier  *)
(* comes back when it has left no trace.                                   *)
LEMMA MesosLaunches ==
  ASSUME IInv, NEW t \in Tasks,
         TaskRuns(t) \/ TaskEnds(t) \/ Recycle(t) \/ Reconcile(t) \/ ImplicitReconcile(t)
  PROVE  Launching
<1>0. /\ mesos \in [Tasks -> {"none", "STAGING", "RUNNING", "gone"}]
      /\ chan \in Seq(Tasks) /\ loop.task \in Tasks \cup {NoTask}
  BY DEF IInv, TypeOK
<1>1. Waiting' = Waiting /\ Noted' = Noted
  BY DEF TaskRuns, TaskEnds, Recycle, Reconcile, ImplicitReconcile, Waiting, Noted, Recorded
<1>2. CASE TaskRuns(t)
  <2>1. Lives' = Lives
    BY <1>0, <1>2 DEF TaskRuns, Lives, Live
  <2> QED
    BY <1>1, <2>1 DEF Launching, L!lvars
<1>3. CASE TaskEnds(t)
  <2>1. Lives' = [Lives EXCEPT ![t] = "over"] /\ Lives[t] = "alive"
    BY <1>0, <1>3 DEF TaskEnds, Lives, Live
  <2>2. L!End(t)
    BY <1>1, <2>1 DEF L!End, L!Over
  <2> QED
    BY <2>2 DEF Launching, L!LNext
<1>4. CASE Recycle(t)
  <2>1. Lives' = [Lives EXCEPT ![t] = "new"] /\ Lives[t] = "over"
    BY <1>0, <1>4 DEF Recycle, Lives, Live
  <2>2. Noted[t] = "none"
    <3>1. ~Recorded(t) /\ Blank(rec[t])
      BY <1>4 DEF Recycle, Traceless, IInv, NoPhantom
    <3> QED
      BY <3>1 DEF Noted, Recorded, Blank, Claims
  <2>3. \A i \in DOMAIN Waiting : Waiting[i] # t
    <3> DEFINE first == <<loop.task>> \o chan
    <3> HIDE DEF first
    <3>1. loop.task # t /\ \A i \in DOMAIN chan : chan[i] # t
      BY <1>4 DEF Recycle, Traceless
    <3>2. CASE loop.at \in {"offer", "putback"}
      <4>1. loop.task \in Tasks
        BY <3>2 DEF IInv, Coherent
      <4>2. \A i \in DOMAIN first : first[i] = loop.task \/ \E j \in DOMAIN chan : first[i] = chan[j]
        BY <1>0, <4>1, FirstInLine DEF first
      <4>3. Waiting = first
        BY <3>2 DEF Waiting, first
      <4> QED
        BY <3>1, <4>2, <4>3
    <3>3. CASE loop.at \notin {"offer", "putback"}
      BY <3>1, <3>3 DEF Waiting
    <3> QED
      BY <3>2, <3>3
  <2>4. L!Renew(t)
    BY <1>1, <2>1, <2>2, <2>3 DEF L!Renew
  <2> QED
    BY <2>4 DEF Launching, L!LNext
<1>5. CASE Reconcile(t) \/ ImplicitReconcile(t)
  <2>1. Lives' = Lives
    BY <1>5, SameLives DEF Reconcile, ImplicitReconcile
  <2> QED
    BY <1>1, <2>1 DEF Launching, L!lvars
<1> QED
  BY <1>2, <1>3, <1>4, <1>5

(* A new connection begins and ends, and a new process finds no command.   *)
LEMMA DownLaunches ==
  ASSUME IInv, Subscribe \/ SubscribeDone \/ Disconnect \/ Restart
  PROVE  Launching
<1>0. loop \in [at : LoopAt, task : Tasks \cup {NoTask}, held : Record, todo : SUBSET Tasks]
  BY DEF IInv, TypeOK
<1>1. Lives' = Lives /\ Noted' = Noted
  BY SameLives, SameNotes DEF Subscribe, SubscribeDone, Disconnect, Restart
<1>2. CASE Subscribe \/ SubscribeDone \/ Disconnect
  <2>1. loop.at \notin {"offer", "putback"} /\ chan' = chan
    BY <1>2 DEF Subscribe, SubscribeDone, Disconnect
  <2>2. loop'.at \notin {"offer", "putback"}
    <3>1. CASE Subscribe
      BY <1>0, <3>1 DEF Subscribe
    <3>2. CASE SubscribeDone \/ Disconnect
      BY <3>2 DEF SubscribeDone, Disconnect, IdleLoop
    <3> QED
      BY <1>2, <3>1, <3>2
  <2>3. Waiting' = Waiting
    BY <2>1, <2>2 DEF Waiting
  <2> QED
    BY <1>1, <2>3 DEF Launching, L!lvars
<1>3. CASE Restart
  <2>1. Waiting' = <<>>
    BY <1>3 DEF Restart, IdleLoop, Waiting
  <2>2. L!Crash
    BY <1>1, <2>1 DEF L!Crash
  <2> QED
    BY <2>2 DEF Launching, L!LNext
<1> QED
  BY <1>2, <1>3

(* HandleUpdate kills, deletes the record, or saves what the update said   *)
(* of a task that was launched.                                            *)
LEMMA UpdateLaunches ==
  ASSUME IInv,
         UpdateSave \/ \E u \in updates : UpdateUnknown(u) \/ UpdateTerminal(u) \/ UpdateRead(u)
  PROVE  Launching
<1>0. TypeOK /\ NoPhantom /\ Coherent
  BY DEF IInv
<1>1. CASE UpdateSave
  <2>1. loop.task \in Tasks /\ mesos[loop.task] # "none" /\ loop.held \in Record
    BY <1>0, <1>1 DEF UpdateSave, Coherent, NoPhantom, TypeOK
  <2>2. UNCHANGED Waiting
    BY <1>1 DEF UpdateSave, IdleLoop, Waiting
  <2>3. Lives' = Lives
    BY <1>1, SameLives DEF UpdateSave
  <2>4. rec' = [rec EXCEPT ![loop.task] = loop.held]
    BY <1>1 DEF UpdateSave
  <2>5. L!Note(loop.task)
    BY <1>0, <2>1, <2>2, <2>3, <2>4, RecordNoted
  <2> QED
    BY <2>1, <2>5 DEF Launching, L!LNext
<1>2. ASSUME NEW u \in updates, UpdateUnknown(u) PROVE Launching
  <2>1. u.task \in Tasks
    BY <1>0 DEF TypeOK, Update
  <2>2. Waiting' = Waiting /\ Noted' = Noted
    BY <1>2, SameNotes DEF UpdateUnknown, Waiting
  <2>3. L!Over(u.task) \/ Lives' = Lives
    BY <1>0, <1>2, <2>1, SameLives, KillEnds DEF UpdateUnknown
  <2>4. L!End(u.task) \/ UNCHANGED L!lvars
    BY <2>2, <2>3 DEF L!End, L!lvars
  <2> QED
    BY <2>1, <2>4 DEF Launching, L!LNext
<1>3. ASSUME NEW u \in updates, UpdateTerminal(u) PROVE Launching
  <2>1. u.task \in Tasks
    BY <1>0 DEF TypeOK, Update
  <2>2. UNCHANGED Waiting /\ Lives' = Lives
    BY <1>3, SameLives DEF UpdateTerminal, Waiting
  <2>3. rec' = [rec EXCEPT ![u.task] = NoRecord] /\ NoRecord \in Record /\ ~Claims(NoRecord)
    BY <1>3, RecordTypes DEF UpdateTerminal, NoRecord, Claims
  <2>4. L!Note(u.task)
    BY <1>0, <2>1, <2>2, <2>3, RecordNoted
  <2> QED
    BY <2>1, <2>4 DEF Launching, L!LNext
<1>4. ASSUME NEW u \in updates, UpdateRead(u) PROVE Launching
  <2>1. Lives' = Lives /\ Noted' = Noted
    BY <1>4, SameLives, SameNotes DEF UpdateRead
  <2>2. loop.at = "idle" /\ loop'.at = "update" /\ chan' = chan
    BY <1>4 DEF UpdateRead, Deliverable
  <2>3. Waiting' = Waiting
    BY <2>2 DEF Waiting
  <2> QED
    BY <2>1, <2>3 DEF Launching, L!lvars
<1> QED
  BY <1>1, <1>2, <1>3, <1>4

(* HandleOffers launches the first command, loses it, or puts it back.     *)
LEMMA OfferLaunches ==
  ASSUME IInv, OfferTake \/ OfferNone \/ OfferPutBack \/ OfferAccept \/ OfferRefused
  PROVE  Launching
<1>0. /\ TypeOK /\ Coherent /\ chan \in Seq(Tasks)
      /\ mesos \in [Tasks -> {"none", "STAGING", "RUNNING", "gone"}]
      /\ loop \in [at : LoopAt, task : Tasks \cup {NoTask}, held : Record, todo : SUBSET Tasks]
  BY DEF IInv, TypeOK
<1>1. Noted' = Noted
  BY SameNotes DEF OfferTake, OfferNone, OfferPutBack, OfferAccept, OfferRefused
<1>2. CASE OfferTake
  <2>1. Waiting = chan /\ chan # <<>> /\ Lives' = Lives
    BY <1>2, SameLives DEF OfferTake, Waiting
  <2>2. loop'.at = "offer" /\ loop'.task = Head(chan) /\ chan' = Tail(chan)
    BY <1>0, <1>2 DEF OfferTake
  <2>3. Head(chan) \in Tasks
    BY <1>0, <2>1
  <2>4. Waiting' = Waiting
    BY <1>0, <2>1, <2>2, <2>3, FirstInLine DEF Waiting
  <2> QED
    BY <1>1, <2>1, <2>4 DEF Launching, L!lvars
<1>3. CASE OfferNone
  <2>1. Lives' = Lives
    BY <1>3, SameLives DEF OfferNone
  <2>2. loop'.at = "putback" /\ loop'.task = loop.task /\ chan' = chan /\ loop.at = "offer"
    BY <1>0, <1>3 DEF OfferNone
  <2>3. Waiting' = Waiting
    BY <2>2 DEF Waiting
  <2> QED
    BY <1>1, <2>1, <2>3 DEF Launching, L!lvars
<1>4. ASSUME loop.at \in {"offer", "putback"}
      PROVE  /\ loop.task \in Tasks /\ Waiting # <<>>
             /\ Head(Waiting) = loop.task /\ Tail(Waiting) = chan
  <2>1. loop.task \in Tasks /\ Waiting = <<loop.task>> \o chan
    BY <1>0, <1>4 DEF Coherent, Waiting
  <2> QED
    BY <1>0, <2>1, FirstInLine
<1>5. CASE OfferPutBack
  <2>1. Lives' = Lives
    BY <1>5, SameLives DEF OfferPutBack
  <2>2. loop.at = "putback" /\ Waiting' = Append(chan, loop.task)
    BY <1>5 DEF OfferPutBack, IdleLoop, Waiting
  <2>3. L!PutBack
    BY <1>1, <1>4, <2>1, <2>2 DEF L!PutBack
  <2> QED
    BY <2>3 DEF Launching, L!LNext
<1>6. CASE OfferAccept
  <2>1. loop.at = "offer" /\ Waiting' = chan
    BY <1>6 DEF OfferAccept, IdleLoop, Waiting
  <2>2. CASE Live(loop.task)
    <3>1. Lives' = Lives
      BY <1>6, <2>2, SameLives DEF OfferAccept
    <3>2. L!Lose
      BY <1>1, <1>4, <2>1, <3>1 DEF L!Lose
    <3> QED
      BY <3>2 DEF Launching, L!LNext
  <2>3. CASE ~Live(loop.task)
    <3>1. mesos' = [mesos EXCEPT ![loop.task] = "STAGING"]
      BY <1>6, <2>3 DEF OfferAccept
    <3>2. Lives' = [Lives EXCEPT ![loop.task] = "alive"] /\ Lives[loop.task] # "alive"
      BY <1>0, <1>4, <2>1, <2>3, <3>1 DEF Lives, Live
    <3>3. L!Launch
      BY <1>1, <1>4, <2>1, <3>2 DEF L!Launch
    <3> QED
      BY <3>3 DEF Launching, L!LNext
  <2> QED
    BY <2>2, <2>3
<1>7. CASE OfferRefused
  <2>1. loop.at = "offer" /\ Waiting' = chan /\ Lives' = Lives
    BY <1>7, SameLives DEF OfferRefused, IdleLoop, Waiting
  <2>2. L!Lose
    BY <1>1, <1>4, <2>1 DEF L!Lose
  <2> QED
    BY <2>2 DEF Launching, L!LNext
<1> QED
  BY <1>2, <1>3, <1>5, <1>6, <1>7

(* CheckState sends a command, and deletes or rewrites a record that       *)
(* claims nothing.                                                         *)
LEMMA CheckLaunches ==
  ASSUME IInv, NEW c \in Checkers,
         \/ CheckCount(c) \/ CheckCorrupt(c) \/ CheckSend(c) \/ CheckSave(c)
         \/ \E t \in Tasks : CheckRead(c, t)
  PROVE  Launching
<1>0. /\ TypeOK /\ Coherent /\ chan \in Seq(Tasks)
      /\ loop \in [at : LoopAt, task : Tasks \cup {NoTask}, held : Record, todo : SUBSET Tasks]
  BY DEF IInv, TypeOK
<1>1. Lives' = Lives
  BY SameLives DEF CheckCount, CheckCorrupt, CheckSend, CheckSave, CheckRead
<1>2. CASE CheckCount(c) \/ \E t \in Tasks : CheckRead(c, t)
  <2>1. Noted' = Noted
    BY <1>2, SameNotes DEF CheckCount, CheckRead
  <2>2. loop'.at = loop.at /\ loop'.task = loop.task /\ chan' = chan
    BY <1>0, <1>2 DEF CheckCount, CheckRead
  <2>3. Waiting' = Waiting
    BY <2>2 DEF Waiting
  <2> QED
    BY <1>1, <2>1, <2>3 DEF Launching, L!lvars
<1>3. ASSUME CheckCorrupt(c) \/ CheckSave(c) PROVE Launching
  <2>1. chk[c].task \in Tasks
    BY <1>0, <1>3 DEF CheckCorrupt, CheckSave, Coherent
  <2>2. UNCHANGED Waiting
    BY <1>3 DEF CheckCorrupt, CheckSave, Waiting
  <2>3. PICK r \in {NoRecord, Queued} : rec' = [rec EXCEPT ![chk[c].task] = r]
    BY <1>3 DEF CheckCorrupt, CheckSave
  <2>4. r \in Record /\ ~Claims(r)
    <3>1. ~Claims(NoRecord) /\ ~Claims(Queued)
      BY DEF NoRecord, Queued, Claims
    <3> QED
      BY <2>3, <3>1, RecordTypes
  <2>5. L!Note(chk[c].task)
    BY <1>0, <1>1, <2>1, <2>2, <2>3, <2>4, RecordNoted
  <2> QED
    BY <2>1, <2>5 DEF Launching, L!LNext
<1>4. CASE CheckSend(c)
  <2>1. chk[c].task \in Tasks
    BY <1>0, <1>4 DEF CheckSend, Coherent
  <2>2. chan' = Append(chan, chk[c].task) /\ loop' = loop /\ Noted' = Noted
    BY <1>4, SameNotes DEF CheckSend
  <2>3. Waiting' = Append(Waiting, chk[c].task)
    <3>1. CASE loop.at \in {"offer", "putback"}
      <4>1. loop.task \in Tasks
        BY <1>0, <3>1 DEF Coherent
      <4>2. <<loop.task>> \o Append(chan, chk[c].task) = Append(<<loop.task>> \o chan, chk[c].task)
        BY <1>0, <2>1, <4>1, FirstInLine
      <4> QED
        BY <2>2, <3>1, <4>2 DEF Waiting
    <3>2. CASE loop.at \notin {"offer", "putback"}
      BY <2>2, <3>2 DEF Waiting
    <3> QED
      BY <3>1, <3>2
  <2>4. L!Order(chk[c].task)
    BY <1>1, <2>2, <2>3 DEF L!Order
  <2> QED
    BY <2>1, <2>4 DEF Launching, L!LNext
<1> QED
  BY <1>2, <1>3, <1>4

(* Heartbeat saves new records, Scale rewrites old ones and kills, and     *)
(* cleanupUnreadyTask does one or the other: none of them starts a task.   *)
LEMMA BeatLaunches ==
  ASSUME IInv, NEW h \in Beats,
         \/ BeatCount(h) \/ BeatRecount(h) \/ BeatStart(h)
         \/ ScaleWrite(h) \/ ScaleKill(h) \/ ScaleDone(h) \/ BeatClean(h)
         \/ \E k \in Kinds : BeatBegin(h, k)
         \/ \E t \in Tasks : ScaleRead(h, t) \/ BeatUnready(h, t)
  PROVE  Launching
<1>0. TypeOK /\ Coherent /\ NoPhantom
  BY DEF IInv
<1>1. UNCHANGED Waiting
  BY DEF BeatCount, BeatRecount, BeatStart, ScaleWrite, ScaleKill, ScaleDone, BeatClean, BeatBegin,
         ScaleRead, BeatUnready, Waiting
<1>2. CASE \/ BeatCount(h) \/ BeatRecount(h) \/ ScaleDone(h)
           \/ \E k \in Kinds : BeatBegin(h, k)
           \/ \E t \in Tasks : ScaleRead(h, t) \/ BeatUnready(h, t)
  <2>1. Noted' = Noted /\ Lives' = Lives
    BY <1>2, SameNotes, SameLives
       DEF BeatCount, BeatRecount, ScaleDone, BeatBegin, ScaleRead, BeatUnready
  <2> QED
    BY <1>1, <2>1 DEF Launching, L!lvars
<1>3. CASE BeatStart(h)
  <2>1. hb[h].task \in Tasks /\ rec' = [rec EXCEPT ![hb[h].task] = NewRecord] /\ Lives' = Lives
    BY <1>0, <1>3, SameLives DEF BeatStart, Coherent
  <2>2. NewRecord \in Record /\ ~Claims(NewRecord)
    BY RecordTypes DEF NewRecord, Claims
  <2>3. L!Note(hb[h].task)
    BY <1>0, <1>1, <2>1, <2>2, RecordNoted
  <2> QED
    BY <2>1, <2>3 DEF Launching, L!LNext
<1>4. CASE ScaleWrite(h)
  <2>1. hb[h].task \in Tasks /\ rec' = [rec EXCEPT ![hb[h].task] = hb[h].held]
    BY <1>0, <1>4 DEF ScaleWrite, Coherent
  <2>2. hb[h].held \in Record /\ (Claims(hb[h].held) => mesos[hb[h].task] # "none")
    BY <1>0 DEF NoPhantom, TypeOK
  <2>3. Lives' = Lives
    BY <1>4, SameLives DEF ScaleWrite
  <2>4. L!Note(hb[h].task)
    BY <1>0, <1>1, <2>1, <2>2, <2>3, RecordNoted
  <2> QED
    BY <2>1, <2>4 DEF Launching, L!LNext
<1>6. CASE ScaleKill(h)
  <2>1. hb[h].task \in Tasks /\ Noted' = Noted
    BY <1>0, <1>6, SameNotes DEF ScaleKill, Coherent
  <2>2. L!Over(hb[h].task) \/ Lives' = Lives
    BY <1>0, <1>6, <2>1, KillEnds DEF ScaleKill
  <2>3. L!End(hb[h].task) \/ UNCHANGED L!lvars
    BY <1>1, <2>1, <2>2 DEF L!End, L!lvars
  <2> QED
    BY <2>1, <2>3 DEF Launching, L!LNext
<1>5. CASE BeatClean(h)
  <2>1. hb[h].task \in Tasks
    BY <1>0, <1>5 DEF BeatClean, Coherent
  <2>2. CASE rec' = rec /\ Kill(hb[h].task, updates)
    <3>1. L!Over(hb[h].task) \/ Lives' = Lives
      BY <1>0, <2>1, <2>2, KillEnds
    <3>2. Noted' = Noted
      BY <2>2, SameNotes
    <3>3. L!End(hb[h].task) \/ UNCHANGED L!lvars
      BY <1>1, <3>1, <3>2 DEF L!End, L!lvars
    <3> QED
      BY <2>1, <3>3 DEF Launching, L!LNext
  <2>3. CASE rec' = [rec EXCEPT ![hb[h].task] = NoRecord] /\ UNCHANGED mesos
    <3>1. NoRecord \in Record /\ ~Claims(NoRecord) /\ Lives' = Lives
      BY <2>3, RecordTypes, SameLives DEF NoRecord, Claims
    <3>2. L!Note(hb[h].task)
      BY <1>0, <1>1, <2>1, <2>3, <3>1, RecordNoted
    <3> QED
      BY <2>1, <3>2 DEF Launching, L!LNext
  <2> QED
    BY <1>5, <2>2, <2>3 DEF BeatClean
<1> QED
  BY <1>2, <1>3, <1>4, <1>5, <1>6

(* Every step of the scheduler is one that Launching allows.               *)
LEMMA StepLaunches == IInv /\ [Next]_vars => Launching
<1> SUFFICES ASSUME IInv, [Next]_vars PROVE Launching
  OBVIOUS
<1>1. CASE UNCHANGED vars
  <2>1. Lives' = Lives /\ Noted' = Noted /\ Waiting' = Waiting
    BY <1>1, SameLives, SameNotes DEF vars, Waiting
  <2> QED
    BY <2>1 DEF Launching, L!lvars
<1>2. CASE MesosNext \/ \E t \in Tasks : Reconcile(t) \/ ImplicitReconcile(t)
  BY <1>2, MesosLaunches DEF MesosNext
<1>3. CASE LoopNext
  BY <1>3, DownLaunches, UpdateLaunches, OfferLaunches DEF LoopNext
<1>4. CASE CheckNext
  BY <1>4, CheckLaunches DEF CheckNext
<1>5. CASE BeatNext
  BY <1>5, BeatLaunches DEF BeatNext
<1>6. CASE Disconnect \/ Restart
  BY <1>6, DownLaunches
<1> QED
  BY <1>1, <1>2, <1>3, <1>4, <1>5, <1>6 DEF Next

-----------------------------------------------------------------------------
(* Theorems                                                                *)

(* The inductive invariant holds in every reachable state of the           *)
(* scheduler.                                                              *)
LEMMA Invariance == Spec => []IInv
<1>1. Init => IInv
  BY InitType, CoherentInit, PhantomInit, FootprintInit DEF IInv
<1>2. IInv /\ [Next]_vars => TypeOK' /\ Coherent' /\ NoPhantom'
  BY TypeStep, CoherentStep, PhantomStep DEF IInv
<1>3. TypeOK' /\ Coherent' => HeldSmall'
  BY HeldBounded, PTL
<1>4. IInv /\ [Next]_vars /\ HeldSmall' => FootprintBounded'
  BY FootprintStep DEF IInv
<1>5. IInv /\ [Next]_vars => IInv'
  BY <1>2, <1>3, <1>4 DEF IInv
<1> QED BY <1>1, <1>5, PTL DEF Spec

(* The type invariant of the scheduler, for every number of tasks, workers *)
(* and channel places: in particular CommandChan never exceeds its         *)
(* capacity, and no handler runs without the task it is about to write.    *)
THEOREM TypeCorrect == Spec => []TypeOK
<1>1. IInv => TypeOK
  BY DEF IInv
<1> QED BY <1>1, Invariance, PTL

(* A record is past "__NEW" only for a task that Mesos launched, in every  *)
(* order of updates, rewrites, reconciliations and restarts.               *)
THEOREM NoPhantomTasks == Spec => []NoPhantomTask
<1>1. IInv => NoPhantomTask
  BY DEF IInv, NoPhantom, NoPhantomTask
<1> QED BY <1>1, Invariance, PTL

(* However many Heartbeat and CheckState passes overlap, the records of a  *)
(* kind exceed the configured number by no more than the goroutines that   *)
(* can hold a copy of one: what is bounded, and inductive, is the records  *)
(* together with the copies.                                               *)
THEOREM RecordsStayBounded == Spec => []RecordsBounded
<1>1. IInv => RecordsBounded
  BY CountType DEF IInv, RecordsBounded
<1> QED BY <1>1, Invariance, PTL

(* The scheduler implements Launching, for any number of tasks, passes and *)
(* places in the channel, through restarts and lost connections: no        *)
(* command is doubled, overtaken or used twice, no task starts without one *)
(* or while it runs, and no record claims a task that was not launched.    *)
THEOREM ImplementsLaunching == Spec => Launches
<1>1. Init => L!Begin
  BY InitBegins
<1>2. IInv /\ [Next]_vars => [L!LNext]_(L!lvars)
  BY StepLaunches DEF Launching
<1> QED
  BY <1>1, <1>2, Invariance, PTL DEF Spec, Launches, L!LSpec
=============================================================================
