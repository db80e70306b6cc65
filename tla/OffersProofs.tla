----------------------------- MODULE OffersProofs -----------------------------
(* Proofs about Offers: every offer is answered, what is accepted is held, *)
(* and no offer that would do is turned down, whatever the offers are.     *)
EXTENDS Offers, TLAPS

-----------------------------------------------------------------------------
(* The event                                                               *)

(* Appending an offer to the event adds that offer to its set.             *)
LEMMA AppendInEvent ==
  ASSUME event \in Seq(Offers), NEW o \in Offers, event' = Append(event, o)
  PROVE  event' \in Seq(Offers) /\ InEvent' = InEvent \cup {o}
<1>1. event' \in Seq(Offers) /\ Len(event') = Len(event) + 1
  OBVIOUS
<1>2. \A i \in 1 .. Len(event) : event'[i] = event[i]
  OBVIOUS
<1>3. event'[Len(event) + 1] = o
  OBVIOUS
<1>4. DOMAIN event = 1 .. Len(event) /\ DOMAIN event' = 1 .. Len(event) + 1
  BY <1>1
<1>5. Len(event) \in Nat
  OBVIOUS
<1> QED
  BY <1>1, <1>2, <1>3, <1>4, <1>5 DEF InEvent

(* An empty event has no offers.                                           *)
LEMMA EmptyEvent == ASSUME event = <<>> PROVE InEvent = {} /\ event \in Seq(Offers)
  BY DEF InEvent

(* The offers of an event are offers.                                      *)
LEMMA InEventOffers == ASSUME event \in Seq(Offers) PROVE InEvent \subseteq Offers
  BY DEF InEvent

-----------------------------------------------------------------------------
(* The inductive invariant                                                 *)

(* What HandleOffers has in hand at each of its points.                    *)
InHand ==
  /\ pc = "idle" => taken = NoOffer
  /\ pc = "get" => taken = NoOffer /\ cmd \in Commands
  /\ pc = "decline" => taken \in InEvent \cup {NoOffer} /\ cmd \in Commands
  /\ pc \in {"accept", "again"} => taken \in InEvent

(* Nothing that may still be taken is declined.                            *)
NotDeclined ==
  /\ pc \in {"idle", "get", "decline"} => \A o \in InEvent : state[o] # "declined"
  /\ pc = "accept" => state[taken] # "declined"

(* An offer that is out is yet to be answered, or its answer was lost.     *)
Owed ==
  IF pc \in {"idle", "get", "decline"} THEN InEvent
  ELSE IF pc = "accept" THEN {taken} ELSE {}
Accounted == \A o \in Offers \ Owed : state[o] = "out" => o \in adrift

(* A command in hand without an offer matches none.                        *)
NoMatch ==
  pc = "decline" /\ taken = NoOffer => \A o \in InEvent : ~Matches(o, cmd)

IInv == TypeOK /\ InHand /\ NotDeclined /\ Accounted /\ NoMatch

-----------------------------------------------------------------------------
(* Steps                                                                   *)

(* The inductive invariant holds before the first event.                   *)
THEOREM InitInv == Init => IInv
  BY ConstantsAssumption, EmptyEvent
  DEF Init, IInv, TypeOK, InHand, NotDeclined, Owed, Accounted, NoMatch

(* The effect of a call on the offers in S, answered or lost.              *)
LEMMA CallEffect ==
  ASSUME IInv, NEW S \in SUBSET Offers, NEW answer \in {"free", "declined"},
         Answered(S, answer) \/ CallFails(S)
  PROVE  /\ state' \in [Offers -> {"free", "out", "declined"}]
         /\ adrift' \in SUBSET Offers
         /\ lost' \in 0 .. MaxLost
         /\ \A o \in Offers \ S : /\ state'[o] = state[o]
                                  /\ o \in adrift => o \in adrift'
         /\ \A o \in S : state'[o] = "out" => o \in adrift'
<1> USE DEF IInv, TypeOK
<1>1. CASE Answered(S, answer)
  BY <1>1 DEF Answered
<1>2. CASE CallFails(S)
  BY <1>2, ConstantsAssumption DEF CallFails
<1> QED
  BY <1>1, <1>2

(* When the event is over, all that was owed has been answered.            *)
LEMMA AfterReturn ==
  ASSUME IInv, Return,
         state' \in [Offers -> {"free", "out", "declined"}],
         adrift' \in SUBSET Offers, lost' \in 0 .. MaxLost,
         outcome' \in {"none", "launched", "error", "lost", "failed"},
         \A o \in Offers : state'[o] = "out" => o \in adrift'
  PROVE  IInv'
<1>1. InEvent' = {} /\ event' \in Seq(Offers)
  BY DEF Return, InEvent
<1> QED
  BY <1>1 DEF Return, IInv, TypeOK, InHand, NotDeclined, Owed, Accounted, NoMatch

(* Every step of HandleOffers and of the master keeps the inductive        *)
(* invariant.                                                              *)
THEOREM StepInv == IInv /\ [Next]_vars => IInv'
<1> SUFFICES ASSUME IInv, [Next]_vars PROVE IInv'
  OBVIOUS
<1> USE DEF IInv
<1>a. InEvent \subseteq Offers /\ Others \subseteq Offers
  BY InEventOffers DEF TypeOK, Others
<1>1. ASSUME NEW o \in Offers, MakeOffer(o) PROVE IInv'
  <2>1. event' \in Seq(Offers) /\ InEvent' = InEvent \cup {o}
    BY <1>1, AppendInEvent DEF MakeOffer, TypeOK
  <2>2. TypeOK'
    BY <1>1, <2>1 DEF MakeOffer, TypeOK
  <2>3. InHand' /\ NoMatch'
    BY <1>1 DEF MakeOffer, InHand, NoMatch
  <2>4. NotDeclined' /\ Accounted'
    BY <1>1, <2>1 DEF MakeOffer, TypeOK, NotDeclined, Owed, Accounted
  <2> QED
    BY <2>2, <2>3, <2>4
<1>2. ASSUME NEW o \in Offers, Rescind(o) PROVE IInv'
  <2>1. InEvent' = InEvent
    BY <1>2 DEF Rescind, InEvent
  <2> QED
    BY <1>2, <1>a, <2>1 DEF Rescind, TypeOK, InHand, NotDeclined, Owed, Accounted, NoMatch, Matches, HostAllowed
<1>3. ASSUME NEW c \in Commands, Receive(c) PROVE IInv'
  <2>1. InEvent' = InEvent
    BY <1>3 DEF Receive, InEvent
  <2> QED
    BY <1>3, <2>1 DEF Receive, TypeOK, InHand, NotDeclined, Owed, Accounted, NoMatch
<1>4. CASE NoCommandWaiting
  <2>1. Return /\ UNCHANGED outcome
    BY <1>4 DEF NoCommandWaiting
  <2>2. Answered(InEvent, "declined") \/ CallFails(InEvent)
    BY <1>4 DEF NoCommandWaiting, DeclineOffer
  <2>3. \A o \in Offers \ InEvent : state[o] = "out" => o \in adrift
    BY <1>4 DEF NoCommandWaiting, Owed, Accounted
  <2> HIDE DEF IInv
  <2>4. /\ state' \in [Offers -> {"free", "out", "declined"}]
        /\ adrift' \in SUBSET Offers /\ lost' \in 0 .. MaxLost
        /\ \A o \in Offers : state'[o] = "out" => o \in adrift'
    BY <1>a, <2>2, <2>3, CallEffect
  <2> QED
    BY <2>1, <2>4, AfterReturn DEF IInv, TypeOK
<1>5. CASE GetOffer
  <2>1. InEvent' = InEvent
    BY <1>5 DEF GetOffer, InEvent
  <2>2. taken' \in InEvent \/ (taken' = NoOffer /\ \A o \in InEvent : ~Matches(o, cmd))
    BY <1>5 DEF GetOffer, InEvent, InHand
  <2>3. NoOffer \notin InEvent
    BY <1>a, ConstantsAssumption
  <2>4. TypeOK' /\ InHand'
    BY <1>5, <1>a, <2>1, <2>2 DEF GetOffer, TypeOK, InHand
  <2>5. NotDeclined' /\ Accounted'
    BY <1>5, <2>1 DEF GetOffer, NotDeclined, Owed, Accounted
  <2>6. NoMatch'
    BY <1>5, <2>1, <2>2, <2>3 DEF GetOffer, NoMatch, Matches, HostAllowed
  <2> QED
    BY <2>4, <2>5, <2>6
<1>6. CASE DeclineOthers
  <2>1. Answered(Others, "declined") \/ CallFails(Others)
    BY <1>6 DEF DeclineOthers, DeclineOffer
  <2>2. \A o \in Offers \ InEvent : state[o] = "out" => o \in adrift
    BY <1>6 DEF DeclineOthers, Owed, Accounted
  <2> HIDE DEF IInv
  <2>3. /\ state' \in [Offers -> {"free", "out", "declined"}]
        /\ adrift' \in SUBSET Offers /\ lost' \in 0 .. MaxLost
        /\ \A o \in Offers \ Others : /\ state'[o] = state[o]
                                      /\ o \in adrift => o \in adrift'
        /\ \A o \in Others : state'[o] = "out" => o \in adrift'
    BY <1>a, <2>1, CallEffect
  <2>4. CASE taken = NoOffer /\ Return
    <3>1. Others = InEvent
      BY <1>a, <2>4, ConstantsAssumption DEF Others
    <3>2. \A o \in Offers : state'[o] = "out" => o \in adrift'
      BY <2>2, <2>3, <3>1
    <3> QED
      BY <1>6, <2>3, <2>4, <3>2, AfterReturn DEF DeclineOthers, IInv, TypeOK
  <2>5. CASE taken # NoOffer /\ pc' = "accept" /\ UNCHANGED <<event, cmd, taken>>
    <3>1. InEvent' = InEvent
      BY <2>5 DEF InEvent
    <3>2. taken \in InEvent
      BY <1>6, <2>5 DEF DeclineOthers, IInv, InHand
    <3>3. \A o \in Offers \ {taken} : state'[o] = "out" => o \in adrift'
      BY <2>2, <2>3 DEF Others
    <3>4. state'[taken] # "declined"
      BY <1>6, <1>a, <2>3, <3>2 DEF DeclineOthers, Others, IInv, NotDeclined
    <3> QED
      BY <1>6, <2>3, <2>5, <3>1, <3>2, <3>3, <3>4
      DEF DeclineOthers, IInv, TypeOK, InHand, NotDeclined, Owed, Accounted, NoMatch
  <2> QED
    BY <1>6, <2>4, <2>5 DEF DeclineOthers
<1>7. CASE Accept
  <2>1. taken \in Offers
    BY <1>7, <1>a DEF Accept, InHand
  <2>2. Answered({taken}, "free") \/ CallFails({taken})
    BY <1>7 DEF Accept
  <2>3. \A o \in Offers \ {taken} : state[o] = "out" => o \in adrift
    BY <1>7 DEF Accept, Owed, Accounted
  <2> HIDE DEF IInv
  <2>4. /\ state' \in [Offers -> {"free", "out", "declined"}]
        /\ adrift' \in SUBSET Offers /\ lost' \in 0 .. MaxLost
        /\ \A o \in Offers : state'[o] = "out" => o \in adrift'
    BY <2>1, <2>2, <2>3, CallEffect
  <2>5. CASE outcome' = "failed" /\ Return
    BY <2>4, <2>5, AfterReturn
  <2>6. CASE pc' = "again" /\ UNCHANGED <<event, cmd, taken>>
    <3>1. InEvent' = InEvent
      BY <2>6 DEF InEvent
    <3>2. outcome' \in {"none", "launched", "error", "lost", "failed"}
      BY <1>7 DEF Accept
    <3> QED
      BY <1>7, <2>4, <2>6, <3>1, <3>2
      DEF Accept, IInv, TypeOK, InHand, NotDeclined, Owed, Accounted, NoMatch
  <2> QED
    BY <1>7, <2>5, <2>6 DEF Accept
<1>8. CASE DeclineAgain
  <2>1. Return /\ UNCHANGED outcome
    BY <1>8 DEF DeclineAgain
  <2>2. Answered(Others, "declined") \/ CallFails(Others)
    BY <1>8 DEF DeclineAgain, DeclineOffer
  <2>3. \A o \in Offers : state[o] = "out" => o \in adrift
    BY <1>8 DEF DeclineAgain, Owed, Accounted
  <2> HIDE DEF IInv
  <2>4. /\ state' \in [Offers -> {"free", "out", "declined"}]
        /\ adrift' \in SUBSET Offers /\ lost' \in 0 .. MaxLost
        /\ \A o \in Offers : state'[o] = "out" => o \in adrift'
    BY <1>a, <2>2, <2>3, CallEffect
  <2> QED
    BY <2>1, <2>4, AfterReturn DEF IInv, TypeOK
<1>9. CASE UNCHANGED vars
  <2>1. InEvent' = InEvent
    BY <1>9 DEF vars, InEvent
  <2> QED
    BY <1>9, <2>1 DEF vars, TypeOK, InHand, NotDeclined, Owed, Accounted, NoMatch, Matches, HostAllowed
<1> QED
  BY <1>1, <1>2, <1>3, <1>4, <1>5, <1>6, <1>7, <1>8, <1>9 DEF Next

(* The inductive invariant holds in every reachable state of HandleOffers. *)
THEOREM Invariance == Spec => []IInv
  BY InitInv, StepInv, PTL DEF Spec

-----------------------------------------------------------------------------
(* Results                                                                 *)

(* Offers, the event and what is in hand keep their types ...              *)
THEOREM TypeCorrect == Spec => []TypeOK
<1>1. IInv => TypeOK
  BY DEF IInv
<1> QED
  BY <1>1, Invariance, PTL

(* Whatever the offers, the commands and the constraints are, HandleOffers *)
(* leaves no offer unanswered but by a failed call.                        *)
THEOREM AllOffersAnswered == Spec => []OffersAnswered
<1>1. IInv => OffersAnswered
  BY DEF IInv, Accounted, Owed, OffersAnswered
<1> QED
  BY <1>1, Invariance, PTL

(* ... never accepts an offer that it has declined ...                     *)
THEOREM AcceptedIsHeld == Spec => []TakenIsHeld
<1>1. IInv => TakenIsHeld
  BY InEventOffers DEF IInv, TypeOK, InHand, NotDeclined, TakenIsHeld
<1> QED
  BY <1>1, Invariance, PTL

(* ... and puts a command back only when no offer covers it: cpus and      *)
(* memory are compared with the same numbers that the launch asks for, and *)
(* an offer with every port of a task that maps one has one of them.       *)
THEOREM NothingOverlooked == Spec => []NoFitOverlooked
<1>1. IInv => NoFitOverlooked
  <2> SUFFICES ASSUME IInv, pc = "decline", taken = NoOffer,
                      NEW o \in InEvent, HostAllowed(o, cmd), Covers(Has[o], cmd.needs)
               PROVE  FALSE
    BY DEF NoFitOverlooked
  <2>1. cmd \in Commands /\ ~Matches(o, cmd)
    BY DEF IInv, InHand, NoMatch
  <2>2. cmd.needs.ports # {} /\ cmd.needs.ports \subseteq Has[o].ports
    BY <2>1, ConstantsAssumption DEF Covers
  <2>3. cmd.needs.ports \cap Has[o].ports # {}
    BY <2>2
  <2> QED
    BY <2>1, <2>3 DEF Matches, IsRessourceMatched, Covers
<1> QED
  BY <1>1, Invariance, PTL
=============================================================================
