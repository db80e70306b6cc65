-------------------------- MODULE EventStreamProofs --------------------------
(* Theorems of EventStream, for every set of identifiers, every length of  *)
(* the events and every number of faults: the loop stays in step with the  *)
(* stream, it delivers events as Delivery says, and an identifier is lost  *)
(* for the three reasons only.                                             *)
EXTENDS EventStream, TLAPS

-----------------------------------------------------------------------------
(* The inductive invariant                                                 *)

(* While there is a connection there is an event that has not been         *)
(* handled, since one is handled only when the next one is there.          *)
Wired == conn = "down" <=> wire = <<>>

(* What SUBSCRIBED says is what the master has noted for the connection.   *)
Announced ==
  /\ \A i \in 1 .. Len(wire) : wire[i].kind = "SUBSCRIBED" => wire[i].id = mine /\ mine \in Ids
  /\ saving => mine \in Ids

(* As long as nothing has made the identifier get lost, there is one, or   *)
(* SUBSCRIBED is still to be handled; and it is saved but for the time     *)
(* that SUBSCRIBED takes.                                                  *)
Unhandled == conn # "down" /\ wire[1].kind = "SUBSCRIBED"
Kept ==
  ~lost => /\ id \in Ids \/ Unhandled
           /\ id \in Ids /\ ~saving => saved = id

IInv == TypeOK /\ Wired /\ InStep /\ Announced /\ Kept

-----------------------------------------------------------------------------
(* Sequences of events                                                     *)

(* The first event of a connection is all that the wire has.               *)
LEMMA One ==
  ASSUME NEW e \in Event, wire' = <<e>>
  PROVE  wire' \in Seq(Event) /\ Len(wire') = 1 /\ wire'[1] = e /\ wire' # <<>>
  OBVIOUS

(* Sending leaves the events before as they are.                           *)
LEMMA More ==
  ASSUME wire \in Seq(Event), NEW e \in Event, wire' = Append(wire, e)
  PROVE  /\ wire' \in Seq(Event) /\ wire' # <<>>
         /\ Len(wire') = Len(wire) + 1 /\ wire'[Len(wire) + 1] = e
         /\ \A i \in 1 .. Len(wire) : wire'[i] = wire[i]
  OBVIOUS

(* Handling leaves the events behind as they are.                          *)
LEMMA Less ==
  ASSUME wire \in Seq(Event), Len(wire) > 1, wire' = Tail(wire)
  PROVE  /\ wire' \in Seq(Event) /\ wire' # <<>> /\ Len(wire') = Len(wire) - 1
         /\ \A i \in 1 .. Len(wire') : wire'[i] = wire[i + 1]
         /\ wire'[1] = wire[2] /\ Head(wire) = wire[1]
         /\ wire[1] \in Event /\ wire[2] \in Event
<1>1. Len(wire) \in Nat /\ wire # <<>>
  OBVIOUS
<1>2. Tail(wire) \in Seq(Event) /\ Len(Tail(wire)) = Len(wire) - 1
  BY <1>1
<1>3. \A i \in 1 .. Len(wire) - 1 : Tail(wire)[i] = wire[i + 1]
  BY <1>1
<1>4. wire[1] \in Event /\ wire[2] \in Event
  BY <1>1
<1>5. 1 \in 1 .. Len(wire) - 1
  BY <1>1
<1>6. Tail(wire)[1] = wire[2]
  BY <1>3, <1>5
<1>7. Tail(wire) # <<>> /\ Head(wire) = wire[1]
  BY <1>1, <1>2
<1> QED
  BY <1>2, <1>3, <1>4, <1>6, <1>7

(* Every kind has a length.                                                *)
LEMMA Sizes == ASSUME NEW e \in Event PROVE e.kind \in Kinds /\ Size[e.kind] \in Nat
  BY ConstantsAssumption DEF Event

(* In step, a line gives its event and the length of the next one.         *)
LEMMA ReadInStep ==
  ASSUME TypeOK, InStep, ReadLine
  PROVE  /\ wire \in Seq(Event) /\ Len(wire) > 1 /\ wire' = Tail(wire)
         /\ bytesCount = Size[wire[1].kind] /\ bytesCount' = Size[wire'[1].kind]
         /\ last' = wire[1] /\ last' \in Event /\ conn = "open" /\ ~saving
<1>1. wire \in Seq(Event) /\ Len(wire) > 1 /\ wire' = Tail(wire) /\ conn = "open" /\ ~saving
  BY DEF TypeOK, ReadLine, LineReady
<1>2. bytesCount = Size[wire[1].kind]
  BY <1>1 DEF InStep
<1>3. wire[1] \in Event /\ wire'[1] = wire[2]
  BY <1>1, Less
<1>4. bytesCount \in Nat /\ Size[wire[1].kind] \in Nat
  BY <1>3, Sizes DEF TypeOK
<1>5. bytesCount' = NextCount /\ last' = wire[1]
  BY <1>2, <1>4 DEF ReadLine
<1> QED
  BY <1>1, <1>2, <1>3, <1>5 DEF NextCount

-----------------------------------------------------------------------------
(* The invariant holds in the beginning, and every step keeps it.          *)
LEMMA InitInv == Init => IInv
<1> SUFFICES ASSUME Init PROVE IInv
  OBVIOUS
<1>1. wire = <<>> /\ wire \in Seq(Event) /\ Len(wire) = 0
  BY DEF Init
<1>2. TypeOK
  <2>1. faults \in 0 .. MaxFaults
    BY ConstantsAssumption DEF Init
  <2>2. {saving, remover, lost} \subseteq BOOLEAN /\ ~saving
    BY Zenon DEF Init
  <2> QED
    BY <1>1, <2>1, <2>2 DEF Init, TypeOK, NoId
<1> QED
  BY <1>1, <1>2 DEF Init, IInv, Wired, InStep, Announced, Kept

(* The response to a subscription.                                         *)
LEMMA RespondInv ==
  ASSUME IInv, conn = "down", NEW e \in Event, NEW x \in Ids \cup {Nil}, Respond(e, x),
         registered' \subseteq Ids, lost' \in BOOLEAN,
         e.kind = "SUBSCRIBED" => e.id = x /\ x \in Ids,
         id \in Ids => lost' = lost,
         id \in NoId => e.kind = "SUBSCRIBED"
  PROVE  IInv'
<1>1. wire' \in Seq(Event) /\ Len(wire') = 1 /\ wire'[1] = e /\ wire' # <<>>
  BY One DEF Respond
<1>2. ~saving
  BY DEF IInv, TypeOK
<1>3. TypeOK'
  BY <1>1, <1>2 DEF Respond, IInv, TypeOK
<1>4. Wired' /\ InStep'
  BY <1>1 DEF Respond, Wired, InStep
<1>5. Announced'
  BY <1>1, <1>2 DEF Respond, Announced
<1>6. Kept'
  <2>1. CASE id \in Ids
    BY <1>2, <2>1 DEF Respond, IInv, Kept, Unhandled
  <2>2. CASE id \notin Ids
    BY <1>1, <2>2 DEF Respond, IInv, Kept, Unhandled, TypeOK
  <2> QED
    BY <2>1, <2>2
<1> QED
  BY <1>3, <1>4, <1>5, <1>6 DEF IInv

(* The end of a connection.                                                *)
LEMMA ReturnInv ==
  ASSUME IInv, Return, bytesCount' = bytesCount, last' \in Event \cup {NoEvent},
         id' \in Ids \cup NoId, saved' = saved, saving' = FALSE,
         UNCHANGED <<registered, mine>>, remover' \in BOOLEAN, lost' \in BOOLEAN,
         faults' \in 0 .. MaxFaults,
         ~lost' => id' \in Ids /\ saved' = id'
  PROVE  IInv'
<1>1. wire' = <<>> /\ wire' \in Seq(Event) /\ Len(wire') = 0 /\ conn' = "down"
  BY DEF Return
<1>2. TypeOK'
  BY <1>1 DEF IInv, TypeOK
<1> QED
  BY <1>1, <1>2 DEF IInv, Wired, InStep, Announced, Kept

(* The reading of a line.                                                  *)
LEMMA ReadInv ==
  ASSUME IInv, ReadLine, conn' = conn, saved' = saved, UNCHANGED <<registered, mine, remover, lost, faults>>,
         \/ wire[1].kind = "SUBSCRIBED" /\ id' = wire[1].id /\ saving' = TRUE
         \/ wire[1].kind # "SUBSCRIBED" /\ id' = id /\ saving' = saving
  PROVE  IInv'
<1>1. /\ wire \in Seq(Event) /\ Len(wire) > 1 /\ wire' = Tail(wire)
      /\ bytesCount' = Size[wire'[1].kind] /\ last' \in Event /\ conn = "open" /\ ~saving
  BY ReadInStep DEF IInv
<1>2. /\ wire' \in Seq(Event) /\ wire' # <<>> /\ Len(wire') = Len(wire) - 1
      /\ \A i \in 1 .. Len(wire') : wire'[i] = wire[i + 1]
      /\ wire'[1] = wire[2] /\ wire[1] \in Event /\ wire[2] \in Event
  BY <1>1, Less
<1>3. wire[1].kind = "SUBSCRIBED" => wire[1].id \in Ids /\ wire[1].id = mine
  BY <1>1 DEF IInv, Announced
<1>4. bytesCount' \in Nat
  BY <1>1, <1>2, Sizes
<1>5. TypeOK'
  BY <1>1, <1>2, <1>3, <1>4 DEF IInv, TypeOK
<1>6. Wired' /\ InStep'
  BY <1>1, <1>2 DEF Wired, InStep
<1>7. Announced'
  <2>1. \A i \in 1 .. Len(wire') : i + 1 \in 1 .. Len(wire)
    BY <1>1, <1>2
  <2>2. \A i \in 1 .. Len(wire') : wire'[i].kind = "SUBSCRIBED" => wire'[i].id = mine /\ mine \in Ids
    BY <1>2, <2>1 DEF IInv, Announced
  <2> QED
    BY <1>1, <1>3, <2>2 DEF Announced
<1>8. Kept'
  BY <1>1, <1>3 DEF IInv, Kept, Unhandled
<1> QED
  BY <1>5, <1>6, <1>7, <1>8 DEF IInv

LEMMA StepInv == IInv /\ [Next]_vars => IInv'
<1> SUFFICES ASSUME IInv, [Next]_vars PROVE IInv'
  OBVIOUS
<1>a. Nil \notin Ids /\ Empty \notin Ids /\ Nil # Empty /\ MaxFaults \in Nat
  BY ConstantsAssumption
<1>b. Plain("ERROR") \in Event /\ Plain("HEARTBEAT") \in Event /\ Plain("UPDATE") \in Event
  BY DEF Plain, Event, Kinds
<1>1. ASSUME NEW x \in Ids, SubscribeNew(x) PROVE IInv'
  <2> DEFINE e == [kind |-> "SUBSCRIBED", id |-> x]
  <2>1. e \in Event /\ e.kind = "SUBSCRIBED" /\ e.id = x
    BY DEF Event, Kinds
  <2>2. conn = "down" /\ Respond(e, x) /\ lost' = FALSE /\ id \notin Ids
    BY <1>1, <1>a DEF SubscribeNew, NoId
  <2>3. registered' \subseteq Ids
    BY <1>1 DEF SubscribeNew, IInv, TypeOK
  <2> HIDE DEF e
  <2> QED
    BY <2>1, <2>2, <2>3, RespondInv
<1>2. CASE SubscribeAgain
  <2> DEFINE e == [kind |-> "SUBSCRIBED", id |-> id]
  <2>1. id \in Ids /\ conn = "down" /\ Respond(e, id) /\ UNCHANGED <<registered, lost>>
    BY <1>2 DEF SubscribeAgain, IInv, TypeOK
  <2>2. e \in Event /\ e.kind = "SUBSCRIBED" /\ e.id = id
    BY <2>1 DEF Event, Kinds
  <2>3. registered' \subseteq Ids /\ lost' \in BOOLEAN
    BY <2>1 DEF IInv, TypeOK
  <2> HIDE DEF e
  <2> QED
    BY <2>1, <2>2, <2>3, RespondInv
<1>3. CASE SubscribeRefused
  <2>1. id \in Ids /\ conn = "down" /\ Respond(Plain("ERROR"), Nil) /\ UNCHANGED <<registered, lost>>
    BY <1>3 DEF SubscribeRefused
  <2>2. Plain("ERROR").kind = "ERROR" /\ id \notin NoId
    BY <1>a, <2>1 DEF Plain, NoId
  <2>3. registered' \subseteq Ids /\ lost' \in BOOLEAN
    BY <2>1 DEF IInv, TypeOK
  <2> QED
    BY <1>b, <2>1, <2>2, <2>3, RespondInv
<1>4. ASSUME NEW k \in Kinds, MasterSends(k) PROVE IInv'
  <2>1. wire \in Seq(Event) /\ wire # <<>> /\ conn # "down"
    BY <1>4 DEF MasterSends, IInv, TypeOK, Wired
  <2>2. Plain(k) \in Event /\ Plain(k).kind # "SUBSCRIBED" /\ wire' = Append(wire, Plain(k))
    BY <1>4, <1>b DEF MasterSends, Plain
  <2>3. /\ wire' \in Seq(Event) /\ wire' # <<>>
        /\ Len(wire') = Len(wire) + 1 /\ wire'[Len(wire) + 1] = Plain(k)
        /\ \A i \in 1 .. Len(wire) : wire'[i] = wire[i]
    BY <2>1, <2>2, More
  <2>4. 1 \in 1 .. Len(wire) /\ wire'[1] = wire[1]
    BY <2>1, <2>3
  <2>5. \A i \in 1 .. Len(wire') : i \in 1 .. Len(wire) \/ i = Len(wire) + 1
    BY <2>1, <2>3
  <2>6. UNCHANGED <<conn, bytesCount, last, id, saved, saving, registered, mine, remover, lost, faults>>
    BY <1>4 DEF MasterSends
  <2>7. TypeOK'
    BY <2>3, <2>6 DEF IInv, TypeOK
  <2>8. Wired' /\ InStep'
    BY <2>1, <2>3, <2>4, <2>6 DEF IInv, Wired, InStep
  <2>9. Announced'
    BY <2>2, <2>3, <2>5, <2>6 DEF IInv, Announced
  <2>10. Kept'
    BY <2>4, <2>6 DEF IInv, Kept, Unhandled
  <2> QED
    BY <2>7, <2>8, <2>9, <2>10 DEF IInv
<1>5. ASSUME NEW x \in Ids, MasterForgets(x) PROVE IInv'
  <2>1. /\ registered' = registered \ {x} /\ UNCHANGED <<conn, wire, bytesCount, last>>
        /\ UNCHANGED <<id, saved, saving, mine, remover, lost>>
    BY <1>5 DEF MasterForgets, stream
  <2>2. faults' \in 0 .. MaxFaults
    BY <1>5, <1>a DEF MasterForgets, Fault, IInv, TypeOK
  <2>3. TypeOK'
    BY <2>1, <2>2 DEF IInv, TypeOK
  <2> QED
    BY <2>1, <2>3 DEF IInv, Wired, InStep, Announced, Kept, Unhandled
<1>6. CASE ReadFirst
  <2>1. wire \in Seq(Event) /\ wire # <<>>
    BY <1>6 DEF ReadFirst, IInv, TypeOK
  <2>2. wire[1] \in Event
    BY <2>1
  <2>3. Size[wire[1].kind] \in Nat
    BY <2>2, Sizes
  <2>4. TypeOK'
    BY <1>6, <2>3 DEF ReadFirst, IInv, TypeOK
  <2> QED
    BY <1>6, <2>4 DEF ReadFirst, IInv, Wired, InStep, Announced, Kept, Unhandled
<1>7. CASE HandleSubscribed
  BY <1>7, ReadInv DEF HandleSubscribed, Parsed
<1>8. CASE HandleOther
  <2>1. ReadLine /\ ~Parsed("SUBSCRIBED")
        /\ UNCHANGED <<conn, id, saved, saving, registered, mine, remover, lost, faults>>
    BY <1>8 DEF HandleOther
  <2>2. bytesCount = Size[wire[1].kind]
    BY <2>1, ReadInStep DEF IInv
  <2>3. wire[1].kind # "SUBSCRIBED"
    BY <2>1, <2>2 DEF Parsed
  <2> QED
    BY <2>1, <2>3, ReadInv
<1>9. CASE HandleHeartbeatReturn
  <2>1. wire \in Seq(Event) /\ Len(wire) > 1 /\ last' = wire[1] /\ ~saving /\ conn = "open"
    BY <1>9 DEF HandleHeartbeatReturn, LineReady, IInv, TypeOK
  <2>2. wire[1] \in Event
    BY <2>1
  <2>3. lost
    BY <1>9, <1>a DEF HandleHeartbeatReturn, Parsed, IInv, Kept, Unhandled
  <2> QED
    BY <1>9, <2>1, <2>2, <2>3, ReturnInv DEF HandleHeartbeatReturn, IInv, TypeOK
<1>10. CASE SaveFramework
  BY <1>10 DEF SaveFramework, stream, IInv, TypeOK, Wired, InStep, Announced, Kept, Unhandled
<1>11. CASE ReadError
  <2>1. Return /\ ~saving /\ UNCHANGED <<bytesCount, last, id, saved, saving, registered, mine, remover>>
    BY <1>11 DEF ReadError
  <2>2. faults' \in 0 .. MaxFaults
    BY <1>11, <1>a DEF ReadError, Fault, IInv, TypeOK
  <2>5. lost' \in BOOLEAN
    BY <1>11, Zenon DEF ReadError, IInv, TypeOK
  <2>3. Unhandled => mine \in Ids
    <3>1. ASSUME Unhandled PROVE 1 \in 1 .. Len(wire)
      BY <3>1 DEF Unhandled, IInv, Wired, TypeOK
    <3> QED
      BY <3>1 DEF IInv, Announced, Unhandled
  <2>4. ~lost' => id \in Ids /\ saved = id
    <3>1. CASE mine = Nil /\ lost' = lost
      BY <1>a, <2>1, <2>3, <3>1 DEF IInv, Kept
    <3>2. CASE lost' = (lost \/ id # mine)
      BY <2>1, <2>3, <3>2 DEF IInv, Kept
    <3> QED
      BY <1>11, <3>1, <3>2 DEF ReadError
  <2> QED
    BY <2>1, <2>2, <2>4, <2>5, ReturnInv DEF IInv, TypeOK
<1>12. CASE Crash
  <2>1. Return /\ id' = saved /\ saving' = FALSE /\ remover' = FALSE
        /\ UNCHANGED <<bytesCount, last, saved, registered, mine>>
    BY <1>12 DEF Crash
  <2>2. faults' \in 0 .. MaxFaults
    BY <1>12, <1>a DEF Crash, Fault, IInv, TypeOK
  <2>5. lost' \in BOOLEAN
    BY <1>12, Zenon DEF Crash, IInv, TypeOK
  <2>3. Unhandled => mine \in Ids
    <3>1. ASSUME Unhandled PROVE 1 \in 1 .. Len(wire)
      BY <3>1 DEF Unhandled, IInv, Wired, TypeOK
    <3> QED
      BY <3>1 DEF IInv, Announced, Unhandled
  <2>4. ~lost' => saved \in Ids
    BY <1>12, <2>3 DEF Crash, IInv, Kept, Announced, TypeOK
  <2> QED
    BY <2>1, <2>2, <2>4, <2>5, ReturnInv DEF IInv, TypeOK
<1>13. CASE RemoveCheck
  BY <1>13 DEF RemoveCheck, stream, IInv, TypeOK, Wired, InStep, Announced, Kept, Unhandled
<1>14. CASE RemoveClear
  BY <1>14 DEF RemoveClear, stream, IInv, TypeOK, NoId, Wired, InStep, Announced, Kept, Unhandled
<1>15. CASE UNCHANGED vars
  BY <1>15 DEF vars, IInv, TypeOK, Wired, InStep, Announced, Kept, Unhandled
<1> QED
  BY <1>1, <1>2, <1>3, <1>4, <1>5, <1>6, <1>7, <1>8, <1>9, <1>10, <1>11, <1>12, <1>13, <1>14, <1>15
  DEF Next, Subscribe, Reads

-----------------------------------------------------------------------------
(* Every reachable state satisfies the invariant.                          *)
LEMMA Invariance == Spec => []IInv
  BY InitInv, StepInv, PTL DEF Spec

(* State, stream and identifiers have their types, and an event is being   *)
(* handled only while its connection stands.                               *)
THEOREM TypeCorrect == Spec => []TypeOK
<1>1. IInv => TypeOK
  BY DEF IInv
<1> QED
  BY <1>1, Invariance, PTL

(* EventLoop never reads a line with the length of another event.          *)
THEOREM StaysInStep == Spec => []InStep
<1>1. IInv => InStep
  BY DEF IInv
<1> QED
  BY <1>1, Invariance, PTL

(* A new framework is registered for the three reasons only.               *)
THEOREM RegisteredOnce == Spec => RegistersOnce
<1> DEFINE A == \A x \in Ids : x \in registered' \ registered => lost
<1>1. IInv /\ [Next]_vars => [A]_vars
  <2> SUFFICES ASSUME IInv, Next PROVE A
    OBVIOUS
  <2>1. ASSUME NEW x \in Ids, SubscribeNew(x) PROVE lost
    <3>1. conn = "down" /\ id \notin Ids
      BY <2>1, ConstantsAssumption DEF SubscribeNew, NoId
    <3> QED
      BY <3>1 DEF IInv, Kept, Unhandled
  <2>2. CASE \E x \in Ids : SubscribeNew(x)
    BY <2>1, <2>2
  <2>3. CASE SubscribeAgain \/ SubscribeRefused
    BY <2>3 DEF SubscribeAgain, SubscribeRefused
  <2>4. CASE \E k \in Kinds : MasterSends(k)
    BY <2>4 DEF MasterSends
  <2>5. CASE \E x \in Ids : MasterForgets(x)
    BY <2>5 DEF MasterForgets
  <2>6. CASE Reads
    BY <2>6 DEF Reads, ReadFirst, HandleSubscribed, HandleHeartbeatReturn, HandleOther
  <2>7. CASE SaveFramework \/ ReadError \/ Crash \/ RemoveCheck \/ RemoveClear
    BY <2>7 DEF SaveFramework, ReadError, Crash, RemoveCheck, RemoveClear
  <2> QED
    BY <2>2, <2>3, <2>4, <2>5, <2>6, <2>7 DEF Next, Subscribe
<1>2. RegistersOnce <=> [][A]_vars
  BY DEF RegistersOnce
<1> QED
  BY <1>1, <1>2, Invariance, PTL DEF Spec

-----------------------------------------------------------------------------
(* Delivery                                                                *)

(* Every step of the stream is one that Delivery allows.                   *)
LEMMA StepDelivers == IInv /\ [Next]_vars => [D!DNext]_(D!dvars)
<1> SUFFICES ASSUME IInv, [Next]_vars PROVE D!DNext \/ UNCHANGED <<wire, last>>
  BY DEF D!dvars
<1>a. wire \in Seq(Event)
  BY DEF IInv, TypeOK
<1>1. ASSUME NEW e \in Event, NEW x, Respond(e, x), conn = "down" PROVE D!DNext
  <2>1. wire = <<>> /\ wire' = <<e>> /\ UNCHANGED last
    BY <1>1 DEF Respond, IInv, Wired
  <2>2. Append(wire, e) = <<e>>
    BY <2>1
  <2>3. D!Send(e)
    BY <2>1, <2>2 DEF D!Send
  <2> QED
    BY <2>3 DEF D!DNext
<1>2. CASE Subscribe
  <2>1. ASSUME NEW x \in Ids, SubscribeNew(x) PROVE D!DNext
    <3>1. [kind |-> "SUBSCRIBED", id |-> x] \in Event
      BY DEF Event, Kinds
    <3> QED
      BY <1>1, <2>1, <3>1 DEF SubscribeNew
  <2>2. CASE SubscribeAgain
    <3>1. id \in Ids
      BY <2>2 DEF SubscribeAgain, IInv, TypeOK
    <3>2. [kind |-> "SUBSCRIBED", id |-> id] \in Event
      BY <3>1 DEF Event, Kinds
    <3> QED
      BY <1>1, <2>2, <3>2 DEF SubscribeAgain
  <2>3. CASE SubscribeRefused
    <3>1. Plain("ERROR") \in Event
      BY DEF Plain, Event, Kinds
    <3> QED
      BY <1>1, <2>3, <3>1 DEF SubscribeRefused
  <2> QED
    BY <1>2, <2>1, <2>2, <2>3 DEF Subscribe
<1>3. ASSUME NEW k \in Kinds, MasterSends(k) PROVE D!DNext
  <2>1. Plain(k) \in Event
    BY DEF Plain, Event
  <2>2. D!Send(Plain(k))
    BY <1>3 DEF MasterSends, D!Send
  <2> QED
    BY <2>1, <2>2 DEF D!DNext
<1>4. CASE ReadLine
  <2>1. Len(wire) > 1 /\ wire' = Tail(wire) /\ last' = wire[1]
    BY <1>4, ReadInStep DEF IInv
  <2>2. Head(wire) = wire[1]
    BY <1>a, <2>1
  <2>3. D!Handle
    BY <2>1, <2>2 DEF D!Handle
  <2> QED
    BY <2>3 DEF D!DNext
<1>5. CASE HandleHeartbeatReturn
  <2>1. Len(wire) > 1 /\ wire' = <<>> /\ last' = wire[1]
    BY <1>5 DEF HandleHeartbeatReturn, LineReady, Return
  <2>2. Head(wire) = wire[1]
    BY <1>a, <2>1
  <2>3. D!Handle
    BY <2>1, <2>2 DEF D!Handle
  <2> QED
    BY <2>3 DEF D!DNext
<1>6. CASE ReadError \/ Crash
  <2>1. D!Close
    BY <1>6 DEF ReadError, Crash, Return, D!Close
  <2> QED
    BY <2>1 DEF D!DNext
<1>7. CASE ReadFirst \/ SaveFramework \/ RemoveCheck \/ RemoveClear \/ UNCHANGED vars
  BY <1>7 DEF ReadFirst, SaveFramework, RemoveCheck, RemoveClear, stream, vars
<1>8. ASSUME NEW x \in Ids, MasterForgets(x) PROVE UNCHANGED <<wire, last>>
  BY <1>8 DEF MasterForgets, stream
<1>9. HandleSubscribed \/ HandleOther => ReadLine
  BY DEF HandleSubscribed, HandleOther
<1> QED
  BY <1>2, <1>3, <1>4, <1>5, <1>6, <1>7, <1>8, <1>9 DEF Next, Reads

(* EventStream implements Delivery: on a connection every event is handled *)
(* in order, once, and none is left out.  (That it is handled at last, the *)
(* fairness in DFairSpec, is left to TLC.)                                 *)
THEOREM ImplementsDelivery == Spec => D!DSpec
<1>1. Init => D!Begin
  BY DEF Init, D!Begin
<1> QED
  BY <1>1, StepDelivers, Invariance, PTL DEF Spec, D!DSpec
=============================================================================
