------------------------------- MODULE Delivery -------------------------------
(***************************************************************************)
(* What the framework makes of the event stream of the Mesos master: on    *)
(* one connection every event is handled in the order it was sent, none is *)
(* left out and none is handled twice.  An event is handled when the next  *)
(* one has been sent, and not before; what has not been handled when the   *)
(* connection ends never is.  EventStream implements this specification.   *)
(***************************************************************************)
EXTENDS Sequences, Naturals

CONSTANTS Events, NoEvent

VARIABLES queue,  \* the events sent and not handled
          last    \* the event that was handled last

dvars == <<queue, last>>

Begin == queue = <<>> /\ last = NoEvent

Send(e) == queue' = Append(queue, e) /\ UNCHANGED last

(* The last event of a connection can be handled with it: some events make *)
(* the framework close it.                                                 *)
Handle ==
  /\ Len(queue) > 1
  /\ last' = Head(queue)
  /\ queue' \in {Tail(queue), <<>>}

Close == queue' = <<>> /\ UNCHANGED last

DNext == Handle \/ Close \/ \E e \in Events : Send(e)

DSpec == Begin /\ [][DNext]_dvars

(* On a connection that stays, what can be handled is handled.             *)
DFairSpec == DSpec /\ WF_dvars(Handle)
=============================================================================
