--------------------------- MODULE SuppressionProofs ---------------------------
(* Proofs about Suppression, for any number of Heartbeat passes beside     *)
(* each other: its types, and that suppressLock keeps Heartbeat from       *)
(* making more SUPPRESS calls than there are passes.                       *)
EXTENDS Suppression, FiniteSetTheorems, TLAPS

-----------------------------------------------------------------------------
(* Types                                                                   *)

(* A call to the master is made or lost.                                   *)
LEMMA CallTyped ==
  ASSUME TypeOK, NEW value \in BOOLEAN, Call(value)
  PROVE  suppressed' \in BOOLEAN /\ lost' \in 0 .. MaxLost
<1>1. CASE suppressed' = value /\ UNCHANGED lost
  BY <1>1 DEF TypeOK
<1>2. CASE lost < MaxLost /\ lost' = lost + 1 /\ UNCHANGED suppressed
  <2>1. lost' \in 0 .. MaxLost
    BY <1>2, ConstantsAssumption DEF TypeOK
  <2>2. suppressed' \in BOOLEAN
    BY <1>2 DEF TypeOK
  <2> QED
    BY <2>1, <2>2
<1> QED
  BY <1>1, <1>2 DEF Call

(* At the start of the process.                                            *)
THEOREM InitTypes == Init => TypeOK
<1> SUFFICES ASSUME Init PROVE TypeOK
  OBVIOUS
<1>1. beat \in [Beats -> Pass]
  BY DEF Init, IdlePass, Pass, BeatAt
<1>2. {suppressed, reviveLock, suppressLock, answered, orderly} \subseteq BOOLEAN
  BY DEF Init
<1>3. /\ task \in [Tasks -> {"none", "new", "queued", "up"}] /\ max \in [Kinds -> Nat]
      /\ checking \subseteq Tasks /\ stopping \subseteq Kinds
      /\ lost \in 0 .. MaxLost /\ faults \in 0 .. MaxFaults /\ calls \in Nat
  BY ConstantsAssumption DEF Init
<1>4. answered => stopping # {}
  BY DEF Init
<1> QED
  BY <1>1, <1>2, <1>3, <1>4 DEF TypeOK

(* Each step of a pass of Heartbeat keeps the types.                       *)
LEMMA BeatTypes == ASSUME TypeOK, NEW h \in Beats, BeatStep(h) PROVE TypeOK'
<1>a. beat[h] \in Pass
  BY DEF TypeOK
<1>b. ASSUME Begin(h) PROVE beat' \in [Beats -> Pass] /\ orderly' \in BOOLEAN
  <2>1. [at |-> "decide", todo |-> ToStart] \in Pass
    BY DEF Pass, BeatAt, ToStart
  <2>2. orderly' \in BOOLEAN
    BY <1>b DEF Begin
  <2> QED
    BY <1>b, <2>1, <2>2 DEF Begin, TypeOK
<1>1. CASE BeatHealth(h)
  BY <1>1, <1>b DEF BeatHealth, Begin, TypeOK, locks, api
<1>2. CASE BeatDecide(h)
  <2>1. beat' \in [Beats -> Pass]
    BY <1>2 DEF BeatDecide, TypeOK, Pass, BeatAt
  <2> QED
    BY <1>2, <2>1 DEF BeatDecide, TypeOK, locks, api, history
<1>3. CASE BeatRevive(h)
  <2>1. beat' \in [Beats -> Pass]
    BY <1>3 DEF BeatRevive, TypeOK, Pass, BeatAt
  <2> QED
    BY <1>3, <2>1, CallTyped DEF BeatRevive, TypeOK, locks, api, history
<1>4. CASE BeatLock(h)
  <2>1. beat' \in [Beats -> Pass]
    BY <1>4 DEF BeatLock, TypeOK, Pass, BeatAt
  <2> QED
    BY <1>4, <2>1 DEF BeatLock, TypeOK, api, history
<1>5. CASE BeatUnlock(h)
  <2>1. beat' \in [Beats -> Pass]
    BY <1>5 DEF BeatUnlock, TypeOK, Pass, BeatAt
  <2> QED
    BY <1>5, <2>1 DEF BeatUnlock, TypeOK, api
<1>6. ASSUME NEW k \in Kinds, BeatStart(h, k) PROVE TypeOK'
  <2>1. beat' \in [Beats -> Pass]
    <3>1. IdlePass \in Pass /\ [at |-> "start", todo |-> beat[h].todo \ {k}] \in Pass
      BY <1>a DEF IdlePass, Pass, BeatAt
    <3> QED
      BY <1>6, <3>1 DEF BeatStart, TypeOK
  <2>2. task' \in [Tasks -> {"none", "new", "queued", "up"}]
    BY <1>6 DEF BeatStart, TypeOK, OfKind
  <2> QED
    BY <1>6, <2>1, <2>2 DEF BeatStart, TypeOK, locks, api, history
<1>7. CASE BeatSuppress(h)
  <2>1. beat' \in [Beats -> Pass]
    BY <1>7 DEF BeatSuppress, TypeOK, Pass, BeatAt
  <2>2. calls' \in Nat
    BY <1>7 DEF BeatSuppress, TypeOK
  <2> QED
    BY <1>7, <2>1, <2>2, CallTyped DEF BeatSuppress, TypeOK, locks, api
<1>8. CASE BeatLocked(h)
  <2>1. beat' \in [Beats -> Pass]
    BY <1>8 DEF BeatLocked, TypeOK, Pass, BeatAt
  <2> QED
    BY <1>8, <2>1 DEF BeatLocked, TypeOK, api, history
<1>9. CASE BeatSuppressed(h)
  <2>1. beat' \in [Beats -> Pass]
    BY <1>9 DEF BeatSuppressed, TypeOK, IdlePass, Pass, BeatAt
  <2> QED
    BY <1>9, <2>1 DEF BeatSuppressed, TypeOK, api, history
<1>10. ASSUME NEW t \in Tasks, BeatRecall(h, t) PROVE TypeOK'
  <2>1. task' \in [Tasks -> {"none", "new", "queued", "up"}]
    BY <1>10 DEF BeatRecall, TypeOK
  <2> QED
    BY <1>10, <1>b, <2>1 DEF BeatRecall, Begin, TypeOK, locks, api
<1> QED
  BY <1>1, <1>2, <1>3, <1>4, <1>5, <1>6, <1>7, <1>8, <1>9, <1>10 DEF BeatStep

(* So does every other step.                                               *)
THEOREM StepTypes == TypeOK /\ [Next]_vars => TypeOK'
<1> SUFFICES ASSUME TypeOK, [Next]_vars PROVE TypeOK'
  OBVIOUS
<1>1. ASSUME NEW h \in Beats, BeatStep(h) PROVE TypeOK'
  BY <1>1, BeatTypes
<1>2. ASSUME NEW t \in Tasks, CheckRevive(t) PROVE TypeOK'
  BY <1>2, CallTyped DEF CheckRevive, TypeOK, locks, api, history
<1>3. ASSUME NEW t \in Tasks, CheckQueue(t) PROVE TypeOK'
  BY <1>3 DEF CheckQueue, TypeOK, locks, api, history
<1>4. ASSUME NEW t \in Tasks, Launch(t) PROVE TypeOK'
  BY <1>4 DEF Launch, TypeOK, locks, api, history
<1>5. ASSUME NEW t \in Tasks, Fail(t) PROVE TypeOK'
  BY <1>5, ConstantsAssumption DEF Fail, TypeOK, locks, api, history
<1>6. ASSUME NEW kinds \in Stops, Stop(kinds) PROVE TypeOK'
  <2>1. kinds \subseteq Kinds
    BY ConstantsAssumption
  <2>2. /\ max' \in [Kinds -> Nat]
        /\ task' \in [Tasks -> {"none", "new", "queued", "up"}]
        /\ faults' \in 0 .. MaxFaults
    BY <1>6, ConstantsAssumption DEF Stop, TypeOK
  <2> QED
    BY <1>6, <2>1, <2>2 DEF Stop, TypeOK, locks
<1>7. CASE StopSuppress
  BY <1>7, CallTyped DEF StopSuppress, TypeOK, locks, history
<1>8. CASE Start
  <2>1. max' \in [Kinds -> Nat]
    BY <1>8, ConstantsAssumption DEF Start, TypeOK
  <2> QED
    BY <1>8, <2>1 DEF Start, TypeOK, locks, history
<1>9. CASE Resubscribe
  <2>1. {suppressed, reviveLock, suppressLock, answered, orderly}' \subseteq BOOLEAN
    BY <1>9 DEF Resubscribe, TypeOK, api
  <2>2. faults' \in 0 .. MaxFaults
    BY <1>9, ConstantsAssumption DEF Resubscribe, TypeOK
  <2> QED
    BY <1>9, <2>1, <2>2 DEF Resubscribe, TypeOK, api
<1>10. CASE UNCHANGED vars
  BY <1>10 DEF vars, TypeOK
<1> QED
  BY <1>1, <1>2, <1>3, <1>4, <1>5, <1>6, <1>7, <1>8, <1>9, <1>10 DEF Next

(* Locks, passes and records keep their types, whatever overlaps, and a    *)
(* request answers only what it has stopped.                               *)
THEOREM TypeCorrect == Spec => []TypeOK
  BY InitTypes, StepTypes, PTL DEF Spec

-----------------------------------------------------------------------------
(* SUPPRESS calls                                                          *)

At(place) == {h \in Beats : beat[h].at = place}

(* With the lock open, each call so far was made by a pass that has yet to *)
(* take the lock.  With the lock taken, only the passes that had found it  *)
(* open have a call to make.                                               *)
CallsCounted ==
  /\ ~suppressLock => calls <= Cardinality(At("locked"))
  /\ calls + Cardinality(At("suppress")) <= Cardinality(Beats)

IInv == TypeOK /\ CallsCounted

(* The passes at a place are a finite number.                              *)
LEMMA AtFinite ==
  ASSUME NEW place
  PROVE  /\ IsFiniteSet(At(place)) /\ Cardinality(At(place)) \in Nat
         /\ IsFiniteSet(At(place)') /\ Cardinality(At(place)') \in Nat
<1>1. At(place) \subseteq Beats /\ At(place)' \subseteq Beats /\ IsFiniteSet(Beats)
  BY ConstantsAssumption DEF At
<1>2. IsFiniteSet(At(place)) /\ IsFiniteSet(At(place)')
  BY <1>1, FS_Subset
<1> QED
  BY <1>2, FS_CardinalityType

(* A pass that is elsewhere leaves room for the others.                    *)
LEMMA RoomForOne ==
  ASSUME NEW h \in Beats, beat[h].at \notin {"locked", "suppress"}
  PROVE  Cardinality(At("locked")) + Cardinality(At("suppress")) + 1 <= Cardinality(Beats)
<1> DEFINE both == At("locked") \cup At("suppress")
<1>1. Cardinality(At("locked") \cap At("suppress")) = 0
  <2>1. At("locked") \cap At("suppress") = {}
    BY DEF At
  <2> QED
    BY <2>1, FS_EmptySet
<1>2. IsFiniteSet(both) /\ Cardinality(both) = Cardinality(At("locked")) + Cardinality(At("suppress"))
  <2>1. /\ IsFiniteSet(At("locked")) /\ IsFiniteSet(At("suppress"))
        /\ Cardinality(At("locked")) \in Nat /\ Cardinality(At("suppress")) \in Nat
    BY AtFinite
  <2>2. /\ IsFiniteSet(both)
        /\ Cardinality(both) = Cardinality(At("locked")) + Cardinality(At("suppress"))
                                 - Cardinality(At("locked") \cap At("suppress"))
    BY <2>1, FS_Union
  <2> QED
    BY <1>1, <2>1, <2>2
<1>3. h \notin both /\ both \cup {h} \subseteq Beats
  BY DEF At
<1>4. Cardinality(both \cup {h}) = Cardinality(both) + 1 /\ IsFiniteSet(both \cup {h})
  BY <1>2, <1>3, FS_AddElement
<1>5. Cardinality(both \cup {h}) <= Cardinality(Beats)
  BY <1>3, ConstantsAssumption, FS_Subset
<1> QED
  BY <1>2, <1>4, <1>5

(* Passes are never more than there are.                                   *)
LEMMA AtBounded ==
  ASSUME NEW place PROVE Cardinality(At(place)) <= Cardinality(Beats) /\ Cardinality(Beats) \in Nat
<1>1. At(place) \subseteq Beats
  BY DEF At
<1> QED
  BY <1>1, ConstantsAssumption, FS_Subset, FS_CardinalityType

(* A step that neither brings a pass to its call or away from it, nor      *)
(* opens the lock or counts a call.                                        *)
LEMMA NothingCounted ==
  ASSUME IInv, At("suppress")' = At("suppress"), At("locked")' = At("locked") \/ suppressLock',
         suppressLock => suppressLock', UNCHANGED calls
  PROVE  CallsCounted'
  BY DEF IInv, CallsCounted

(* A pass that goes from one place to another.                             *)
LEMMA PassMoves ==
  ASSUME TypeOK, NEW h \in Beats, NEW pass \in Pass, beat' = [beat EXCEPT ![h] = pass], NEW place
  PROVE  /\ place \notin {beat[h].at, pass.at} => At(place)' = At(place)
         /\ place # pass.at => At(place)' = At(place) \ {h}
         /\ place = pass.at => At(place)' = At(place) \cup {h}
  BY DEF At, TypeOK

(* Each step of a pass.                                                    *)
LEMMA BeatCounted == ASSUME IInv, NEW h \in Beats, BeatStep(h) PROVE CallsCounted'
<1>a. TypeOK /\ CallsCounted /\ calls \in Nat /\ beat \in [Beats -> Pass] /\ beat[h] \in Pass
  BY DEF IInv, TypeOK
<1>b. /\ Cardinality(At("suppress")) \in Nat /\ Cardinality(At("locked")) \in Nat
      /\ Cardinality(Beats) \in Nat
  BY AtFinite, AtBounded
<1>c. ASSUME NEW pass \in Pass, beat' = [beat EXCEPT ![h] = pass],
             {beat[h].at, pass.at} \cap {"suppress", "locked"} = {}
      PROVE  At("suppress")' = At("suppress") /\ At("locked")' = At("locked")
  BY <1>a, <1>c, PassMoves
<1>d. ASSUME Begin(h) PROVE CallsCounted'
  <2>1. /\ [at |-> "decide", todo |-> ToStart] \in Pass
        /\ beat' = [beat EXCEPT ![h] = [at |-> "decide", todo |-> ToStart]]
        /\ beat[h].at = "idle" /\ UNCHANGED <<suppressLock, calls>>
    BY <1>d DEF Begin, Pass, BeatAt, ToStart, locks
  <2> QED
    BY <1>c, <2>1, NothingCounted
<1>1. CASE BeatHealth(h)
  BY <1>1, <1>d DEF BeatHealth
<1>2. CASE BeatDecide(h)
  <2> DEFINE next == IF beat[h].todo = {} THEN IF suppressLock THEN "idle" ELSE "suppress"
                     ELSE IF reviveLock THEN "unlock" ELSE "revive"
             pass == [beat[h] EXCEPT !.at = next]
  <2>1. /\ pass \in Pass /\ beat' = [beat EXCEPT ![h] = pass]
        /\ beat[h].at = "decide" /\ UNCHANGED <<suppressLock, calls>>
    BY <1>2, <1>a DEF BeatDecide, Pass, BeatAt, locks, history
  <2>2. CASE next # "suppress"
    <3>1. pass.at \notin {"suppress", "locked"}
      BY <2>2
    <3> HIDE DEF pass
    <3> QED
      BY <1>c, <2>1, <3>1, NothingCounted
  <2>3. CASE next = "suppress"
    <3>1. ~suppressLock /\ pass.at = "suppress"
      BY <2>3
    <3> HIDE DEF pass
    <3>2. At("suppress")' = At("suppress") \cup {h} /\ At("locked")' = At("locked")
      BY <1>a, <2>1, <3>1, PassMoves
    <3>3. h \notin At("suppress")
      BY <2>1 DEF At
    <3>4. Cardinality(At("suppress")') = Cardinality(At("suppress")) + 1
      BY <3>2, <3>3, AtFinite, FS_AddElement
    <3>5. Cardinality(At("locked")) + Cardinality(At("suppress")) + 1 <= Cardinality(Beats)
      BY <2>1, RoomForOne
    <3>6. calls <= Cardinality(At("locked"))
      BY <1>a, <3>1 DEF CallsCounted
    <3> QED
      BY <1>a, <1>b, <2>1, <3>2, <3>4, <3>5, <3>6 DEF CallsCounted
  <2> QED
    BY <2>2, <2>3
<1>3. CASE BeatRevive(h)
  <2> DEFINE pass == [beat[h] EXCEPT !.at = "lock"]
  <2>1. /\ pass \in Pass /\ pass.at = "lock" /\ beat' = [beat EXCEPT ![h] = pass]
        /\ beat[h].at = "revive" /\ UNCHANGED <<suppressLock, calls>>
    BY <1>3, <1>a DEF BeatRevive, Pass, BeatAt, locks, history
  <2> HIDE DEF pass
  <2> QED
    BY <1>c, <2>1, NothingCounted
<1>4. CASE BeatLock(h)
  <2> DEFINE pass == [beat[h] EXCEPT !.at = "unlock"]
  <2>1. /\ pass \in Pass /\ pass.at = "unlock" /\ beat' = [beat EXCEPT ![h] = pass]
        /\ beat[h].at = "lock" /\ UNCHANGED <<suppressLock, calls>>
    BY <1>4, <1>a DEF BeatLock, Pass, BeatAt, history
  <2> HIDE DEF pass
  <2> QED
    BY <1>c, <2>1, NothingCounted
<1>5. CASE BeatUnlock(h)
  <2>1. calls' = 0
    BY <1>5 DEF BeatUnlock
  <2>2. Cardinality(At("locked")') \in Nat /\ Cardinality(At("suppress")') <= Cardinality(Beats)
    <3>1. At("suppress")' \subseteq Beats
      BY DEF At
    <3> QED
      BY <3>1, ConstantsAssumption, FS_Subset, AtFinite
  <2> QED
    BY <1>b, <2>1, <2>2, AtFinite DEF CallsCounted
<1>6. ASSUME NEW k \in Kinds, BeatStart(h, k) PROVE CallsCounted'
  <2>1. PICK pass \in Pass : /\ beat' = [beat EXCEPT ![h] = pass]
                             /\ pass.at \in {"idle", "start"}
    <3>1. IdlePass \in Pass /\ [at |-> "start", todo |-> beat[h].todo \ {k}] \in Pass
      BY <1>a DEF IdlePass, Pass, BeatAt
    <3> QED
      BY <1>6, <3>1 DEF BeatStart, IdlePass
  <2>2. beat[h].at = "start" /\ UNCHANGED <<suppressLock, calls>>
    BY <1>6 DEF BeatStart, locks, history
  <2> QED
    BY <1>c, <2>1, <2>2, NothingCounted
<1>7. CASE BeatSuppress(h)
  <2> DEFINE pass == [beat[h] EXCEPT !.at = "locked"]
  <2>1. /\ pass \in Pass /\ pass.at = "locked" /\ beat' = [beat EXCEPT ![h] = pass]
        /\ beat[h].at = "suppress" /\ UNCHANGED suppressLock /\ calls' = calls + 1
    BY <1>7, <1>a DEF BeatSuppress, Pass, BeatAt, locks
  <2> HIDE DEF pass
  <2>2. At("suppress")' = At("suppress") \ {h} /\ At("locked")' = At("locked") \cup {h}
    BY <1>a, <2>1, PassMoves
  <2>3. h \in At("suppress") /\ h \notin At("locked")
    BY <2>1 DEF At
  <2>4. Cardinality(At("suppress")') = Cardinality(At("suppress")) - 1
    BY <2>2, <2>3, AtFinite, FS_RemoveElement
  <2>5. Cardinality(At("locked")') = Cardinality(At("locked")) + 1
    BY <2>2, <2>3, AtFinite, FS_AddElement
  <2> QED
    BY <1>a, <1>b, <2>1, <2>4, <2>5 DEF CallsCounted
<1>8. CASE BeatLocked(h)
  <2> DEFINE pass == [beat[h] EXCEPT !.at = "released"]
  <2>1. /\ pass \in Pass /\ pass.at = "released" /\ beat' = [beat EXCEPT ![h] = pass]
        /\ beat[h].at = "locked" /\ suppressLock' /\ UNCHANGED calls
    BY <1>8, <1>a DEF BeatLocked, Pass, BeatAt, history
  <2> HIDE DEF pass
  <2>2. At("suppress")' = At("suppress")
    BY <1>a, <2>1, PassMoves
  <2> QED
    BY <2>1, <2>2, NothingCounted
<1>9. CASE BeatSuppressed(h)
  <2>1. /\ IdlePass \in Pass /\ IdlePass.at = "idle" /\ beat' = [beat EXCEPT ![h] = IdlePass]
        /\ beat[h].at = "released" /\ UNCHANGED <<suppressLock, calls>>
    BY <1>9 DEF BeatSuppressed, IdlePass, Pass, BeatAt, history
  <2> QED
    BY <1>c, <2>1, NothingCounted
<1>10. ASSUME NEW t \in Tasks, BeatRecall(h, t) PROVE CallsCounted'
  BY <1>10, <1>d DEF BeatRecall
<1> QED
  BY <1>1, <1>2, <1>3, <1>4, <1>5, <1>6, <1>7, <1>8, <1>9, <1>10 DEF BeatStep

(* At the start of the process.                                            *)
THEOREM InitCounted == Init => IInv
<1> SUFFICES ASSUME Init PROVE IInv
  OBVIOUS
<1>1. calls = 0
  BY DEF Init
<1> QED
  BY <1>1, InitTypes, AtFinite, AtBounded DEF IInv, CallsCounted

(* Every step.                                                             *)
THEOREM StepCounted == IInv /\ [Next]_vars => IInv'
<1> SUFFICES ASSUME IInv, [Next]_vars PROVE IInv'
  OBVIOUS
<1>a. TypeOK'
  BY StepTypes DEF IInv
<1>1. ASSUME NEW h \in Beats, BeatStep(h) PROVE CallsCounted'
  BY <1>1, BeatCounted
<1>2. ASSUME UNCHANGED <<beat, suppressLock, calls>> PROVE CallsCounted'
  BY <1>2, NothingCounted DEF At
<1>3. ASSUME NEW t \in Tasks, CheckRevive(t) \/ CheckQueue(t) \/ Launch(t) \/ Fail(t)
      PROVE  UNCHANGED <<beat, suppressLock, calls>>
  BY <1>3 DEF CheckRevive, CheckQueue, Launch, Fail, locks, history
<1>4. ASSUME NEW kinds \in Stops, Stop(kinds) PROVE UNCHANGED <<beat, suppressLock, calls>>
  BY <1>4 DEF Stop, locks
<1>5. ASSUME StopSuppress \/ Start PROVE CallsCounted'
  BY <1>2, <1>5 DEF StopSuppress, Start, locks, history
<1>6. ASSUME Resubscribe PROVE CallsCounted'
  <2>1. calls' = 0 /\ At("suppress")' = At("suppress")
    BY <1>6 DEF Resubscribe, At
  <2> QED
    BY <2>1, AtFinite, AtBounded DEF CallsCounted
<1>7. ASSUME UNCHANGED vars PROVE CallsCounted'
  BY <1>2, <1>7 DEF vars
<1> QED
  BY <1>a, <1>1, <1>2, <1>3, <1>4, <1>5, <1>6, <1>7 DEF Next, IInv

(* For any number of passes, tasks, lost calls, requests and subscriptions,*)
(* Heartbeat makes no more SUPPRESS calls between two openings of its lock *)
(* than there are passes beside each other.                                *)
THEOREM CallsBounded == Spec => []SuppressionsBounded
<1>1. IInv => SuppressionsBounded
  BY AtFinite, AtBounded DEF IInv, TypeOK, CallsCounted, SuppressionsBounded
<1> QED
  BY <1>1, InitCounted, StepCounted, PTL DEF Spec
=============================================================================
