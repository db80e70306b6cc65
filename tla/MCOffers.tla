------------------------------- MODULE MCOffers -------------------------------
(* TLC instances of Offers: five offers of two hosts, a command of two     *)
(* kinds; a server is bound to one host and maps two ports.                *)
EXTENDS Offers

CONSTANTS o1, o2, o3, o4, o5, h1, h2, p1, p2

Res(c, m, d, ports) == [cpus |-> c, mem |-> m, disk |-> d, ports |-> ports]

(* o1 has everything; o2 is on the other host; o3 lacks a port, o4 lacks   *)
(* disk, o5 lacks cpus.                                                    *)
MCHostOf == [o \in {o1, o2, o3, o4, o5} |-> IF o = o2 THEN h2 ELSE h1]
MCHas ==
  [o \in {o1, o2, o3, o4, o5} |->
     Res(IF o = o5 THEN 0 ELSE 1, 1, IF o = o4 THEN 0 ELSE 1,
         IF o = o3 THEN {p1} ELSE {p1, p2})]

MCCommands ==
  {[kind |-> "datastore", needs |-> Res(1, 1, 0, {p1})],
   [kind |-> "server", needs |-> Res(1, 1, 1, {p1, p2})],
   [kind |-> "agent", needs |-> Res(0, 1, 1, {p2})]}

MCConstraint == [k \in Kinds |-> IF k = "server" THEN h1 ELSE Anywhere]
=============================================================================
