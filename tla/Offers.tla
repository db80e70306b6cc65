-------------------------------- MODULE Offers --------------------------------
(***************************************************************************)
(* One OFFERS event in the hands of HandleOffers: which offer is taken for *)
(* the command at the head of the channel, what Mesos is told about each   *)
(* offer, and what comes of the launch.  src/scheduler/handle_offers.go,   *)
(* with the matching of src/mesos/mesos.go and the resources that the      *)
(* launched task asks for, src/scheduler/prepare.go.                       *)
(*                                                                         *)
(* A call to the master is a step of its own and may fail.  The master     *)
(* rescinds an offer at any time; the event loop ignores RESCIND.  An      *)
(* offer names every resource once.  A command without a task ID, which    *)
(* HandleOffers drops, is never queued and has no part here.               *)
(***************************************************************************)
EXTENDS Naturals, Sequences

CONSTANTS Offers,      \* offer identifiers
          Hosts,       \* the agents' host names
          HostOf,      \* the host name in each offer
          Has,         \* the resources in each offer
          Ports,       \* host ports
          Amount,      \* bound: cpus, mem and disk are 0 .. Amount
          Commands,    \* what CheckState queues: a kind of task and its needs
          Constraint,  \* K3SServer-, K3SAgent- and DSConstraintHostname
          Anywhere,    \* no constraint, the empty string of the code
          NoOffer, NoCommand,
          EventLen,    \* bound: offers in one event
          MaxLost      \* bound: calls that fail

Kinds == {"datastore", "server", "agent"}

(* What an agent offers, and what a command needs.  The host ports of a    *)
(* command are chosen by the time it is queued (changeDockerPorts).        *)
Resources == [cpus : 0 .. Amount, mem : 0 .. Amount, disk : 0 .. Amount, ports : SUBSET Ports]

ASSUME ConstantsAssumption ==
  /\ Amount \in Nat /\ EventLen \in Nat /\ MaxLost \in Nat
  /\ HostOf \in [Offers -> Hosts] /\ Has \in [Offers -> Resources]
  /\ Commands \subseteq [kind : Kinds, needs : Resources]
  /\ \A c \in Commands : c.needs.ports # {}
  /\ Constraint \in [Kinds -> Hosts \cup {Anywhere}]
  /\ NoOffer \notin Offers /\ NoCommand \notin Commands /\ Anywhere \notin Hosts

VARIABLES pc,       \* where HandleOffers is
          event,    \* the offers of the event, in order
          state,    \* Mesos: an offer is out from when it is made until it is
                    \* declined, used or rescinded; then it may be made again
          cmd,      \* the command in hand
          taken,    \* takeOffer
          outcome,  \* Mesos: what came of the last ACCEPT
          adrift,   \* the offers whose last answer was lost on the way
          lost      \* the calls that failed so far

vars == <<pc, event, state, cmd, taken, outcome, adrift, lost>>

TypeOK ==
  /\ pc \in {"idle", "get", "decline", "accept", "again"}
  /\ event \in Seq(Offers)
  /\ state \in [Offers -> {"free", "out", "declined"}]
  /\ cmd \in Commands \cup {NoCommand}
  /\ pc = "idle" => cmd = NoCommand
  /\ taken \in Offers \cup {NoOffer}
  /\ outcome \in {"none", "launched", "error", "lost", "failed"}
  /\ adrift \in SUBSET Offers
  /\ lost \in 0 .. MaxLost

Init ==
  /\ pc = "idle" /\ event = <<>>
  /\ state = [o \in Offers |-> "free"]
  /\ cmd = NoCommand /\ taken = NoOffer
  /\ outcome = "none" /\ adrift = {} /\ lost = 0

-----------------------------------------------------------------------------
(* Matching                                                                *)

HostAllowed(o, c) == Constraint[c.kind] \in {Anywhere, HostOf[o]}

(* Mutant: an offer must have more than what is needed.                    *)
MatchedStrictly(r, needs) ==
  /\ r.cpus > needs.cpus
  /\ r.mem > needs.mem
  /\ needs.ports \cap r.ports # {}

(* Enough cpus, enough memory, and the host port of one of the mappings.   *)
IsRessourceMatched(r, needs) ==
  /\ r.cpus >= needs.cpus
  /\ r.mem >= needs.mem
  /\ needs.ports \cap r.ports # {}

Matches(o, c) == HostAllowed(o, c) /\ IsRessourceMatched(Has[o], c.needs)

(* The resources of the launched task: cpus, mem, disk and a range for     *)
(* every mapping.  The master refuses a task that exceeds its offer.       *)
Covers(r, needs) ==
  /\ r.cpus >= needs.cpus /\ r.mem >= needs.mem /\ r.disk >= needs.disk
  /\ needs.ports \subseteq r.ports

InEvent == {event[i] : i \in DOMAIN event}
AllInEvent == {event[i] : i \in DOMAIN event}   \* mutant: the offer taken is not removed
Others  == InEvent \ {taken}

-----------------------------------------------------------------------------
(* The master                                                              *)

MakeOffer(o) ==
  /\ pc = "idle" /\ state[o] # "out" /\ o \notin InEvent
  /\ Len(event) < EventLen
  /\ event' = Append(event, o)
  /\ state' = [state EXCEPT ![o] = "out"]
  /\ adrift' = adrift \ {o}
  /\ UNCHANGED <<pc, cmd, taken, outcome, lost>>

Rescind(o) ==
  /\ state[o] = "out"
  /\ state' = [state EXCEPT ![o] = "free"]
  /\ UNCHANGED <<pc, event, cmd, taken, outcome, adrift, lost>>

-----------------------------------------------------------------------------
(* Calls                                                                   *)

(* Mesos.Call reached the master: the offers in S have their answer ...    *)
Answered(S, answer) ==
  /\ state' = [o \in Offers |-> IF o \in S /\ state[o] = "out" THEN answer ELSE state[o]]
  /\ adrift' = adrift \ S
  /\ UNCHANGED lost

(* ... or it returned an error, and they do not.                           *)
CallFails(S) ==
  /\ lost < MaxLost
  /\ lost' = lost + 1
  /\ adrift' = adrift \cup S
  /\ UNCHANGED state

(* DECLINE: no caller within HandleOffers acts on its error.               *)
DeclineOffer(S) == Answered(S, "declined") \/ CallFails(S)

(* Mutant: the command stays in hand.                                      *)
ReturnKeeps ==
  /\ pc' = "idle" /\ event' = <<>> /\ taken' = NoOffer /\ UNCHANGED cmd

(* The event is over, and nothing of it is remembered.                     *)
Return ==
  /\ pc' = "idle" /\ event' = <<>> /\ cmd' = NoCommand /\ taken' = NoOffer

-----------------------------------------------------------------------------
(* HandleOffers                                                            *)

(* The channel has a command ...                                           *)
Receive(c) ==
  /\ pc = "idle" /\ event # <<>>
  /\ pc' = "get" /\ cmd' = c
  /\ UNCHANGED <<event, state, taken, outcome, adrift, lost>>

(* Mutant: without a command the event is dropped.                         *)
NoCommandDropped ==
  /\ pc = "idle" /\ event # <<>>
  /\ Return
  /\ UNCHANGED <<state, outcome, adrift, lost>>

(* ... or is empty: all the offers are declined.                           *)
NoCommandWaiting ==
  /\ pc = "idle" /\ event # <<>>
  /\ DeclineOffer(InEvent)
  /\ Return
  /\ UNCHANGED outcome

(* getOffer takes the first offer that matches, if there is one ...        *)
GetOffer ==
  /\ pc = "get"
  /\ \/ \E i \in DOMAIN event :
          /\ Matches(event[i], cmd)
          /\ \A j \in 1 .. i - 1 : ~Matches(event[j], cmd)
          /\ taken' = event[i]
     \/ /\ \A o \in InEvent : ~Matches(o, cmd)
        /\ UNCHANGED taken
  /\ pc' = "decline"
  /\ UNCHANGED <<event, state, cmd, outcome, adrift, lost>>

(* ... and declines the rest.  Without an offer the command returns to the *)
(* channel.                                                                *)
DeclineOthers ==
  /\ pc = "decline"
  /\ DeclineOffer(Others)
  /\ \/ taken = NoOffer /\ Return
     \/ taken # NoOffer /\ pc' = "accept" /\ UNCHANGED <<event, cmd, taken>>
  /\ UNCHANGED outcome

(* ACCEPT.  An offer the master took back loses the task, one that does    *)
(* not cover it is used up by an error.  HandleOffers returns when the     *)
(* call fails.                                                             *)
Accept ==
  /\ pc = "accept"
  /\ \/ /\ Answered({taken}, "free")
        /\ outcome' = IF state[taken] # "out" THEN "lost"
                      ELSE IF Covers(Has[taken], cmd.needs) THEN "launched" ELSE "error"
        /\ pc' = "again"
        /\ UNCHANGED <<event, cmd, taken>>
     \/ /\ CallFails({taken})
        /\ outcome' = "failed"
        /\ Return

(* After the launch the same offers are declined a second time.            *)
DeclineAgain ==
  /\ pc = "again"
  /\ DeclineOffer(Others)
  /\ Return
  /\ UNCHANGED outcome

Next ==
  \/ \E o \in Offers : MakeOffer(o) \/ Rescind(o)
  \/ \E c \in Commands : Receive(c)
  \/ NoCommandWaiting \/ GetOffer \/ DeclineOthers \/ Accept \/ DeclineAgain

Spec == Init /\ [][Next]_vars

-----------------------------------------------------------------------------
(* Properties                                                              *)

(* Every offer is answered on every path through HandleOffers: one that    *)
(* the framework still holds when the event is over is one whose last      *)
(* answer got lost on the way.                                             *)
OffersAnswered ==
  pc = "idle" => \A o \in Offers \ InEvent : state[o] = "out" => o \in adrift

(* The offer that ACCEPT names has not been declined by getOffer before:   *)
(* the launch is lost only if the master itself took the offer back.       *)
TakenIsHeld ==
  pc = "accept" => taken \in Offers /\ state[taken] # "declined"

(* A command goes back to the channel only if no offer of the event could  *)
(* have run it: the matching turns down no offer that covers the task.     *)
NoFitOverlooked ==
  pc = "decline" /\ taken = NoOffer =>
    \A o \in InEvent : HostAllowed(o, cmd) => ~Covers(Has[o], cmd.needs)

(* mesos.go:207, "check if the ressources of the offer are matching the    *)
(* needs of the cmd": a launch on a matching offer is not refused for      *)
(* asking too much.                                                        *)
MatchedIsLaunchable == outcome # "error"
=============================================================================
