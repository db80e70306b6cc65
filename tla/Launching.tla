------------------------------ MODULE Launching ------------------------------
(***************************************************************************)
(* What the scheduler promises of commands, tasks and records, whatever    *)
(* order its goroutines, the updates and the restarts come in.             *)
(*                                                                         *)
(* A task starts only by the command at the head of the queue, and never   *)
(* while it runs; a launch uses the command up.  Commands keep their       *)
(* order, but for one that goes back to the end, and none is doubled.  A   *)
(* record claims an agent, or a state past "__NEW", only for a task that   *)
(* was launched.  One record changes at a time, and a step that changes    *)
(* it starts nothing.  An identifier is used again only when nothing of it *)
(* is left.  Scheduler implements this specification.                      *)
(***************************************************************************)
EXTENDS Sequences, Naturals

CONSTANTS Tasks, Stored

VARIABLES queue,   \* the commands that wait, in the order of their launch
          life,    \* what became of each task: new, alive or over
          record   \* what Redis says of each task

lvars == <<queue, life, record>>

Notes == {"none", "waiting", "claimed"}

(* Tasks of an earlier process run, with their records; its commands are   *)
(* gone.                                                                   *)
Begin ==
  /\ queue = <<>>
  /\ life = [t \in Tasks |-> IF t \in Stored THEN "alive" ELSE "new"]
  /\ record = [t \in Tasks |-> IF t \in Stored THEN "claimed" ELSE "none"]

Order(t) == queue' = Append(queue, t) /\ UNCHANGED <<life, record>>

Launch ==
  /\ queue # <<>> /\ life[Head(queue)] # "alive"
  /\ life' = [life EXCEPT ![Head(queue)] = "alive"]
  /\ queue' = Tail(queue)
  /\ UNCHANGED record

(* The call fails, or the master refuses the launch.                       *)
Lose == queue # <<>> /\ queue' = Tail(queue) /\ UNCHANGED <<life, record>>

PutBack ==
  /\ queue # <<>>
  /\ queue' = Append(Tail(queue), Head(queue))
  /\ UNCHANGED <<life, record>>

Crash == queue' = <<>> /\ UNCHANGED <<life, record>>

Over(t) == life[t] = "alive" /\ life' = [life EXCEPT ![t] = "over"]

End(t) == Over(t) /\ UNCHANGED <<queue, record>>

(* A record is written or deleted; Scale kills the task of the one that it *)
(* writes.                                                                 *)
Note(t) ==
  /\ \E n \in Notes : /\ n = "claimed" => life[t] # "new"
                      /\ record' = [record EXCEPT ![t] = n]
  /\ Over(t) \/ UNCHANGED life
  /\ UNCHANGED queue

Renew(t) ==
  /\ life[t] = "over" /\ record[t] = "none"
  /\ \A i \in DOMAIN queue : queue[i] # t
  /\ life' = [life EXCEPT ![t] = "new"]
  /\ UNCHANGED <<queue, record>>

LNext ==
  \/ Launch \/ Lose \/ PutBack \/ Crash
  \/ \E t \in Tasks : Order(t) \/ End(t) \/ Note(t) \/ Renew(t)

LSpec == Begin /\ [][LNext]_lvars
=============================================================================
