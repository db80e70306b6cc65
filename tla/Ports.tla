-------------------------------- MODULE Ports --------------------------------
(***************************************************************************)
(* The host ports of tasks: getRandomHostPort, portInUse,                  *)
(* changeDockerPorts and changeDiscoveryInfo of src/scheduler/scheduler.go,*)
(* called by CheckState (src/scheduler/heatbeat.go).                       *)
(*                                                                         *)
(* A pass of CheckState looks for ports that no record has, one port after *)
(* another, and saves the record later; passes overlap, and others read a  *)
(* record and write it back meanwhile (HandleUpdate, Scale).  When a       *)
(* record gets the state __NEW, and what becomes of the task then, is in   *)
(* Scheduler.                                                              *)
(***************************************************************************)
EXTENDS Integers, Sequences, FiniteSets

CONSTANTS Tasks, NoTask,
          Passes,    \* CheckState passes that run beside each other
          Holders,   \* HandleUpdate and Scale calls beside them
          From, To,  \* PORTRANGE_FROM, PORTRANGE_TO
          Template   \* the host ports that a task is created with: those of
                     \* the configuration, and 0 for those to be chosen

ASSUME ConstantsAssumption ==
  /\ IsFiniteSet(Passes) /\ IsFiniteSet(Holders) /\ Passes \cap Holders = {}
  /\ NoTask \notin Tasks
  /\ From \in Nat /\ To \in Nat
  /\ Template \in [Tasks -> Seq(Nat)]
  /\ \A t \in Tasks : Len(Template[t]) <= From  \* a few ports, and From is large

VARIABLES ports,     \* Redis: the host ports of each record
          state,     \* Redis: the state of each record
          pass,      \* the CheckState passes
          holder     \* the copies of records that others have

vars == <<ports, state, pass, holder>>

-----------------------------------------------------------------------------
(* State                                                                   *)

Port == Nat

(* A record that is not there has no ports.  The states that Mesos reports *)
(* count as __NEW: CheckState asks only for the empty one.                 *)
States == {"none", "", "__NEW"}
Copy   == [task : Tasks \cup {NoTask}, ports : Seq(Port), state : States]

(* A pass that probes has found the ports from base on to be free, as many *)
(* as are in found.                                                        *)
Pass == [at : {"idle", "probe", "save"}, task : Tasks \cup {NoTask},
         ports : Seq(Port), base : Nat, found : Nat]

TypeOK ==
  /\ ports \in [Tasks -> Seq(Port)] /\ state \in [Tasks -> States]
  /\ pass \in [Passes -> Pass]
  /\ holder \in [Holders -> Copy]

IdlePass == [at |-> "idle", task |-> NoTask, ports |-> <<>>, base |-> 0, found |-> 0]
NoCopy   == [task |-> NoTask, ports |-> <<>>, state |-> "none"]

Init ==
  /\ ports = [t \in Tasks |-> <<>>] /\ state = [t \in Tasks |-> "none"]
  /\ pass = [p \in Passes |-> IdlePass]
  /\ holder = [h \in Holders |-> NoCopy]

Save(t, s, st) ==
  /\ ports' = [ports EXCEPT ![t] = s]
  /\ state' = [state EXCEPT ![t] = st]

-----------------------------------------------------------------------------
(* CheckState                                                              *)

(* A record without a state is read.  Whether there may be so many         *)
(* instances is asked here too; it is in Scheduler.                        *)
PassRead(p, t) ==
  /\ pass[p].at = "idle" /\ state[t] = ""
  /\ pass' = [pass EXCEPT ![p] = [at |-> "probe", task |-> t, ports |-> ports[t],
                                  base |-> From + 1, found |-> 0]]
  /\ UNCHANGED <<ports, state, holder>>

(* portInUse.                                                              *)
InUse(q) == \E t \in Tasks : \E n \in DOMAIN ports[t] : ports[t][n] = q

(* Mutant: the end of the range belongs to it.                             *)
ProbingTo(p) == pass[p].at = "probe" /\ pass[p].base <= To

Probing(p) == pass[p].at = "probe" /\ pass[p].base < To

(* Mutant: nothing but the first port is looked at.                        *)
ProbeFreeFirst(p) ==
  /\ Probing(p) /\ pass[p].found < Len(pass[p].ports)
  /\ pass[p].found = 0 => ~InUse(pass[p].base)
  /\ pass' = [pass EXCEPT ![p].found = @ + 1]
  /\ UNCHANGED <<ports, state, holder>>

ProbeFree(p) ==
  /\ Probing(p) /\ pass[p].found < Len(pass[p].ports)
  /\ ~InUse(pass[p].base + pass[p].found)
  /\ pass' = [pass EXCEPT ![p].found = @ + 1]
  /\ UNCHANGED <<ports, state, holder>>

(* The search begins again behind base.                                    *)
ProbeUsed(p) ==
  /\ Probing(p) /\ pass[p].found < Len(pass[p].ports)
  /\ InUse(pass[p].base + pass[p].found)
  /\ pass' = [pass EXCEPT ![p].base = @ + 1, ![p].found = 0]
  /\ UNCHANGED <<ports, state, holder>>

(* Mutant: the count of the ports begins one too low.                      *)
AssignBefore(s, base) == [n \in DOMAIN s |-> IF s[n] = 0 THEN base + n - 2 ELSE s[n]]

(* changeDockerPorts: the nth port is the nth from the one that was found. *)
Assign(s, base) == [n \in DOMAIN s |-> IF s[n] = 0 THEN base + n - 1 ELSE s[n]]

(* As many ports as are wanted have been found, or there are none: then 0. *)
(* The command is put into the channel, which may take its time.           *)
PassChoose(p) ==
  /\ pass[p].at = "probe"
  /\ \E base \in {pass[p].base, 0} :
       /\ IF base = 0 THEN ~Probing(p)
                      ELSE Probing(p) /\ pass[p].found = Len(pass[p].ports)
       /\ pass' = [pass EXCEPT ![p].at = "save", ![p].ports = Assign(@, base)]
  /\ UNCHANGED <<ports, state, holder>>

(* SaveTaskRedis, whatever has become of the record.                       *)
PassSave(p) ==
  /\ pass[p].at = "save"
  /\ Save(pass[p].task, pass[p].ports, "__NEW")
  /\ pass' = [pass EXCEPT ![p] = IdlePass]
  /\ UNCHANGED holder

-----------------------------------------------------------------------------
(* The others                                                              *)

InHand(t) == \/ \E p \in Passes : pass[p].task = t
             \/ \E h \in Holders : holder[h].task = t

(* StartDatastore, StartK3SServer, StartK3SAgent: a new identifier.        *)
Want(t) ==
  /\ state[t] = "none" /\ ~InHand(t)
  /\ Save(t, Template[t], "")
  /\ UNCHANGED <<pass, holder>>

(* A task that has ended, a server or agent that has waited for too long,  *)
(* a record that CheckState takes for corrupt.                             *)
Delete(t) ==
  /\ state[t] # "none"
  /\ Save(t, <<>>, "none")
  /\ UNCHANGED <<pass, holder>>

(* HandleUpdate and Scale read a record and write it back, deleted or not: *)
(* Scale with the state it had, HandleUpdate with the one that is reported.*)
HolderRead(h, t) ==
  /\ holder[h] = NoCopy /\ state[t] # "none"
  /\ holder' = [holder EXCEPT ![h] = [task |-> t, ports |-> ports[t], state |-> state[t]]]
  /\ UNCHANGED <<ports, state, pass>>

HolderWrite(h) ==
  /\ holder[h] # NoCopy
  /\ \E st \in {holder[h].state, "__NEW"} : Save(holder[h].task, holder[h].ports, st)
  /\ holder' = [holder EXCEPT ![h] = NoCopy]
  /\ UNCHANGED pass

(* A new process: what was in hand is lost.                                *)
Restart ==
  /\ pass' = [p \in Passes |-> IdlePass] /\ holder' = [h \in Holders |-> NoCopy]
  /\ UNCHANGED <<ports, state>>

-----------------------------------------------------------------------------

CheckState(p) ==
  \/ \E t \in Tasks : PassRead(p, t)
  \/ ProbeFree(p) \/ ProbeUsed(p) \/ PassChoose(p) \/ PassSave(p)

Next ==
  \/ \E p \in Passes : CheckState(p)
  \/ \E h \in Holders : HolderWrite(h) \/ \E t \in Tasks : HolderRead(h, t)
  \/ \E t \in Tasks : Want(t) \/ Delete(t)
  \/ Restart

Spec == Init /\ [][Next]_vars

-----------------------------------------------------------------------------
(* Properties                                                              *)

(* The ports of a task that were chosen, not configured.                   *)
Chosen(t, s) == {s[n] : n \in {m \in DOMAIN s \cap DOMAIN Template[t] : Template[t][m] = 0}}

Sharers(q) == {t \in Tasks : q \in Chosen(t, ports[t])}

(* A port of an exhausted search, which are counted from 0                 *)
(* (scheduler.go:216, 275) and which nobody looked up.                     *)
Unprobed(q) == \E t \in Sharers(q) : q < Len(Template[t])

(* Nobody holds a lock from the probe to the save.  Still, at most as many *)
(* tasks get the same port of a successful search as there are CheckState  *)
(* passes and holders of old records beside each other: with one pass and  *)
(* nobody else, such ports differ.  Those of an exhausted search are the   *)
(* exception: any number of tasks share them, with one pass too            *)
(* (MCPorts_exhausted.cfg).                                                *)
ChosenPorts == UNION {Chosen(t, ports[t]) : t \in Tasks}
Few(q)      == Cardinality(Sharers(q)) <= Cardinality(Passes) + Cardinality(Holders)
SharingBounded == \A q \in ChosenPorts : Few(q) \/ Unprobed(q)

(* scheduler.go:198, "search two free ports": the same without exception.  *)
(* The code does not have it.  0 is no port, but one yet to be chosen.     *)
AllSharingBounded == \A q \in ChosenPorts \ {0} : Few(q)

(* A port that was chosen is in the range, or runs out of its end by less  *)
(* than the number of ports of the task, or the range was exhausted and    *)
(* ports are counted from 0.                                               *)
ChosenNearRange ==
  \A t \in Tasks : \A q \in Chosen(t, ports[t]) :
    \/ From < q /\ q < To + Len(Template[t]) - 1
    \/ q < Len(Template[t])

(* docs/src/vars.md:62, "Set the portrange, M3s is suposed to use for the  *)
(* container outside of K8".                                               *)
ChosenInRange ==
  \A t \in Tasks : state[t] = "__NEW" => Chosen(t, ports[t]) \subseteq From .. To - 1
=============================================================================
