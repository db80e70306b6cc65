----------------------------- MODULE EventStream -----------------------------
(***************************************************************************)
(* The connection to the Mesos master: subscription, the framework         *)
(* identifier, and the framing of the event stream in EventLoop            *)
(* (src/scheduler/scheduler.go), with the request that removes the         *)
(* identifier (src/api/V0FrameworkRemoveID.go) and the resubscription loop *)
(* of src/app.go.                                                          *)
(*                                                                         *)
(* The master writes each event as its length, a newline and its data,     *)
(* without a newline after the data.  EventLoop reads lines: but for the   *)
(* first, which has only a length, a line has the data of one event and    *)
(* the length of the next.  An event is a kind, and for SUBSCRIBED the     *)
(* identifier; what an UPDATE or OFFERS event does is in Scheduler.        *)
(***************************************************************************)
EXTENDS Naturals, Sequences

CONSTANTS Ids,        \* framework identifiers that the master gives
          Nil, Empty, \* no identifier yet; an identifier that was removed
          Size,       \* the length of the data of each kind of event
          MaxWire,    \* bound: events written and not read
          MaxFaults   \* bound: broken connections, crashes, failover timeouts

Kinds == {"SUBSCRIBED", "HEARTBEAT", "UPDATE", "ERROR"}

ASSUME ConstantsAssumption ==
  /\ Nil \notin Ids /\ Empty \notin Ids /\ Nil # Empty
  /\ Size \in [Kinds -> Nat \ {0}]
  /\ MaxWire \in Nat /\ MaxFaults \in Nat

VARIABLES conn,        \* EventLoop: no response, nothing read yet, reading
          wire,        \* the events whose data EventLoop has not read
          bytesCount,  \* the length that EventLoop has read last
          last,        \* history: the event that was handled last
          id,          \* FrameworkInfo.Id
          saved,       \* Redis: the identifier a new process starts with
          saving,      \* a SUBSCRIBED event is being handled
          registered,  \* the master: the frameworks it knows
          mine,        \* the master: the framework of this connection
          remover,     \* V0FrameworkRemoveID has found id unregistered
          lost,        \* history: the identifier of the last registration
                       \* was removed, or not handled, or not saved in time
          faults

vars == <<conn, wire, bytesCount, last, id, saved, saving, registered, mine,
          remover, lost, faults>>
stream == <<conn, wire, bytesCount, last>>

-----------------------------------------------------------------------------
(* State                                                                   *)

NoId  == {Nil, Empty}
Event == [kind : Kinds, id : Ids \cup {Nil}]
Plain(k) == [kind |-> k, id |-> Nil]
NoEvent  == Plain("none")

TypeOK ==
  /\ conn \in {"down", "first", "open"}
  /\ wire \in Seq(Event)
  /\ bytesCount \in Nat
  /\ last \in Event \cup {NoEvent}
  /\ id \in Ids \cup NoId /\ saved \in Ids \cup NoId
  /\ mine \in Ids \cup {Nil}
  /\ registered \subseteq Ids
  /\ {saving, remover, lost} \subseteq BOOLEAN
  /\ saving => conn = "open"
  /\ faults \in 0 .. MaxFaults

Init ==
  /\ conn = "down" /\ wire = <<>> /\ bytesCount = 0 /\ last = NoEvent
  /\ id = Nil /\ saved = Nil /\ saving = FALSE
  /\ registered = {} /\ mine = Nil
  /\ remover = FALSE /\ lost = TRUE
  /\ faults = 0

Fault == faults < MaxFaults /\ faults' = faults + 1

(* EventLoop returns; app.go subscribes again two seconds later.           *)
Return == conn' = "down" /\ wire' = <<>>

-----------------------------------------------------------------------------
(* SUBSCRIBE                                                               *)

Respond(e, x) ==
  /\ conn' = "first" /\ wire' = <<e>> /\ mine' = x
  /\ UNCHANGED <<bytesCount, last, id, saved, saving, remover, faults>>

(* Without an identifier the master registers a new framework.  A value    *)
(* of Ids that nobody knows any more stands for a new one.                 *)
SubscribeNew(x) ==
  /\ conn = "down" /\ id \in NoId
  /\ x \notin registered \cup {saved}
  /\ registered' = registered \cup {x}
  /\ Respond([kind |-> "SUBSCRIBED", id |-> x], x)
  /\ lost' = FALSE

SubscribeAgain ==
  /\ conn = "down" /\ id \in registered
  /\ Respond([kind |-> "SUBSCRIBED", id |-> id], id)
  /\ UNCHANGED <<registered, lost>>

(* A framework that was removed is told so, and the connection closed.     *)
SubscribeRefused ==
  /\ conn = "down" /\ id \in Ids \ registered
  /\ Respond(Plain("ERROR"), Nil)
  /\ UNCHANGED <<registered, lost>>

-----------------------------------------------------------------------------
(* The master (external)                                                   *)

MasterSends(k) ==
  /\ conn # "down" /\ mine # Nil /\ Len(wire) < MaxWire
  /\ k \in {"HEARTBEAT", "UPDATE"}
  /\ wire' = Append(wire, Plain(k))
  /\ UNCHANGED <<conn, bytesCount, last, id, saved, saving, registered, mine,
                 remover, lost, faults>>

(* The failover timeout: of a framework that is not connected.  It is a    *)
(* fault if it is one that may still come back.                            *)
MasterForgets(x) ==
  /\ x \in registered /\ (conn = "down" \/ mine # x)
  /\ IF x \in {id, saved} THEN Fault ELSE UNCHANGED faults
  /\ registered' = registered \ {x}
  /\ UNCHANGED <<stream, id, saved, saving, mine, remover, lost>>

-----------------------------------------------------------------------------
(* EventLoop                                                               *)

(* The first line, with the length of the first event.                     *)
ReadFirst ==
  /\ conn = "first" /\ wire # <<>>
  /\ conn' = "open" /\ bytesCount' = Size[wire[1].kind]
  /\ UNCHANGED <<wire, last, id, saved, saving, registered, mine, remover, lost, faults>>

(* A line is complete when the next event has been sent.                   *)
LineReady == conn = "open" /\ ~saving /\ Len(wire) > 1

(* Mutant: the length is taken for that of all events to come.             *)
NextCountKept == bytesCount

(* What is behind the data in a line is the length of the next event.      *)
NextCount == Size[wire[2].kind]

(* A line that is too short is skipped; one that is longer than announced  *)
(* gives neither an event nor a length.                                    *)
ReadLine ==
  /\ LineReady
  /\ wire' = Tail(wire)
  /\ bytesCount' = CASE bytesCount = Size[wire[1].kind] -> NextCount
                     [] bytesCount > Size[wire[1].kind] -> bytesCount
                     [] bytesCount < Size[wire[1].kind] -> 0
  /\ last' = IF bytesCount = Size[wire[1].kind] THEN wire[1] ELSE last

Parsed(k) == wire[1].kind = k /\ bytesCount = Size[k]

(* Mutant: an identifier that was removed is not replaced.                 *)
HandleSubscribedOnce ==
  /\ ReadLine /\ Parsed("SUBSCRIBED")
  /\ id' = (IF id = Nil THEN wire[1].id ELSE id) /\ saving' = TRUE
  /\ UNCHANGED <<conn, saved, registered, mine, remover, lost, faults>>

(* SUBSCRIBED.  Before the identifier is saved come reconcile and          *)
(* CheckState, which may take their time.                                  *)
HandleSubscribed ==
  /\ ReadLine /\ Parsed("SUBSCRIBED")
  /\ id' = wire[1].id /\ saving' = TRUE
  /\ UNCHANGED <<conn, saved, registered, mine, remover, lost, faults>>

SaveFramework ==
  /\ saving
  /\ saved' = id /\ saving' = FALSE
  /\ UNCHANGED <<stream, id, registered, mine, remover, lost, faults>>

(* Mutant: HEARTBEAT would not end the loop.                               *)
HandleHeartbeatStays ==
  /\ ReadLine /\ Parsed("HEARTBEAT") /\ id = Empty
  /\ UNCHANGED <<conn, id, saved, saving, registered, mine, remover, lost, faults>>

(* HEARTBEAT with an identifier that was removed.                          *)
HandleHeartbeatReturn ==
  /\ LineReady /\ Parsed("HEARTBEAT") /\ id = Empty
  /\ last' = wire[1]
  /\ Return
  /\ UNCHANGED <<bytesCount, id, saved, saving, registered, mine, remover, lost, faults>>

HandleOther ==
  /\ ReadLine
  /\ ~Parsed("SUBSCRIBED") /\ ~(Parsed("HEARTBEAT") /\ id = Empty)
  /\ UNCHANGED <<conn, id, saved, saving, registered, mine, remover, lost, faults>>

(* Mutant: the events are handled beside the loop.                         *)
ReadErrorBeside ==
  /\ conn # "down" /\ Fault /\ lost' = (lost \/ id # mine)
  /\ Return
  /\ UNCHANGED <<bytesCount, last, id, saved, saving, registered, mine, remover>>

(* A read error ends the loop: the connection breaks, or the master has    *)
(* closed it behind an ERROR, which is never handled.                      *)
ReadError ==
  /\ conn # "down" /\ ~saving
  /\ \/ mine = Nil /\ conn = "open" /\ UNCHANGED <<lost, faults>>
     \/ Fault /\ lost' = (lost \/ id # mine)
  /\ Return
  /\ UNCHANGED <<bytesCount, last, id, saved, saving, registered, mine, remover>>

(* A new process begins with the identifier in Redis.                      *)
Crash ==
  /\ Fault /\ lost' = (lost \/ saved # mine)
  /\ Return
  /\ id' = saved /\ saving' = FALSE /\ remover' = FALSE
  /\ UNCHANGED <<bytesCount, last, saved, registered, mine>>

-----------------------------------------------------------------------------
(* V0FrameworkRemoveID                                                     *)

(* The identifier is looked for among the frameworks of the master ...     *)
RemoveCheck ==
  /\ ~remover /\ id # Nil /\ id \notin registered
  /\ remover' = TRUE
  /\ UNCHANGED <<stream, id, saved, saving, registered, mine, lost, faults>>

(* ... and then it is emptied, whatever it is by now.                      *)
RemoveClear ==
  /\ remover
  /\ id' = Empty /\ saved' = Empty
  /\ remover' = FALSE /\ lost' = TRUE
  /\ UNCHANGED <<stream, saving, registered, mine, faults>>

-----------------------------------------------------------------------------

Subscribe == SubscribeAgain \/ SubscribeRefused \/ \E x \in Ids : SubscribeNew(x)

Reads == ReadFirst \/ HandleSubscribed \/ HandleHeartbeatReturn \/ HandleOther

Next ==
  \/ Subscribe
  \/ \E k \in Kinds : MasterSends(k)
  \/ \E x \in Ids : MasterForgets(x)
  \/ Reads \/ SaveFramework \/ ReadError
  \/ Crash \/ RemoveCheck \/ RemoveClear

Spec == Init /\ [][Next]_vars

(* The loop of app.go subscribes for ever, EventLoop reads what there is   *)
(* and finishes what it handles, a request that was begun is ended; the    *)
(* master sends HEARTBEAT events and gives up frameworks that are gone.    *)
FairSpec ==
  /\ Spec
  /\ WF_vars(Subscribe) /\ WF_vars(Reads) /\ WF_vars(SaveFramework)
  /\ WF_vars(mine = Nil /\ ReadError)
  /\ SF_vars(MasterSends("HEARTBEAT"))
  /\ \A x \in Ids : WF_vars(x \notin {id, saved} /\ MasterForgets(x))
  /\ WF_vars(RemoveClear)

-----------------------------------------------------------------------------
(* Properties                                                              *)

(* The length that EventLoop has is always that of the event it reads      *)
(* next.  Out of step once, it would skip events, or cut them wrong, until *)
(* the connection ends: nothing in the loop brings it in step again.       *)
InStep == conn = "open" => wire # <<>> /\ bytesCount = Size[wire[1].kind]

(* EventLoop delivers events as Delivery says: line by line the length     *)
(* that was read with one event is that of the next, on every connection.  *)
D == INSTANCE Delivery WITH queue <- wire, Events <- Event
Delivers == D!DFairSpec

(* A new framework, which leaves the old one and its tasks behind, is      *)
(* registered for three reasons only: the identifier of the last one was   *)
(* removed by a request, its connection broke before EventLoop handled     *)
(* SUBSCRIBED, or its process died before it was saved.  No reading of the *)
(* stream, refusal or resubscription makes the framework forget it.        *)
RegistersOnce ==
  [][\A x \in Ids : x \in registered' \ registered => lost]_vars

(* Whatever happens, in the end the framework is subscribed with the       *)
(* identifier that it has, unless that one was removed by the master, or   *)
(* somebody removes identifiers for ever.                                  *)
Subscribed == conn = "open" /\ id = mine /\ id \in registered
Refused    == id \in Ids \ registered
SubscribesAtLast == <>[]Subscribed \/ []<>Refused \/ []<>remover

(* V0FrameworkRemoveID.go:66, "If it's inside, then the framework is still *)
(* registered and we do not have to remove it": a registered identifier is *)
(* not removed.                                                            *)
RegisteredKept == [][RemoveClear => id \notin registered]_vars
=============================================================================
