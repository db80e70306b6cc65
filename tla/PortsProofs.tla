----------------------------- MODULE PortsProofs -----------------------------
(* Theorems of Ports, for every set of tasks, every range, every number of *)
(* passes beside each other and every choice of configured ports.          *)
EXTENDS Ports, FiniteSetTheorems, TLAPS

-----------------------------------------------------------------------------
(* The inductive invariant                                                 *)

(* A record without a state, and every copy of one, has the ports that the *)
(* task was created with; a record has as many as that in any case.        *)
Fits(t, s, st) ==
  /\ st = "none" => s = <<>>
  /\ st = "" => s = Template[t]
  /\ st = "__NEW" => Len(s) = Len(Template[t])

FromTemplate ==
  /\ \A t \in Tasks : Fits(t, ports[t], state[t])
  /\ \A h \in Holders :
       IF holder[h].task = NoTask THEN holder[h] = NoCopy
       ELSE holder[h].state # "none" /\ Fits(holder[h].task, holder[h].ports, holder[h].state)
  /\ \A p \in Passes :
       /\ pass[p].at = "idle" => pass[p] = IdlePass
       /\ pass[p].at = "probe" => /\ pass[p].task \in Tasks
                                  /\ pass[p].ports = Template[pass[p].task]
                                  /\ pass[p].base > From
       /\ pass[p].at = "save" => /\ pass[p].task \in Tasks
                                 /\ Len(pass[p].ports) = Len(Template[pass[p].task])

(* Who has a port: a record, a copy of a record, a pass that is about to   *)
(* save it, and a pass that has found it free.                             *)
Found(p)      == IF pass[p].at = "probe"
                 THEN {q \in Nat : pass[p].base <= q /\ q < pass[p].base + pass[p].found}
                 ELSE {}
PassHas(p, q) == \/ q \in Found(p)
                 \/ pass[p].at = "save" /\ q \in Chosen(pass[p].task, pass[p].ports)
HoldHas(h, q) == holder[h].task \in Tasks /\ q \in Chosen(holder[h].task, holder[h].ports)
Having(q) == Sharers(q) \cup {t \in Tasks : \/ \E p \in Passes : pass[p].task = t /\ PassHas(p, q)
                                            \/ \E h \in Holders : holder[h].task = t /\ HoldHas(h, q)}

(* The ports that no exhausted search counts up to from 0.                 *)
InRange == {q \in Nat : q > From}
Bound   == Cardinality(Passes) + Cardinality(Holders)

HavingBounded ==
  \A q \in InRange : IsFiniteSet(Having(q)) /\ Cardinality(Having(q)) <= Bound

Near(t, s) == \A q \in Chosen(t, s) : \/ From < q /\ q < To + Len(Template[t]) - 1
                                      \/ q < Len(Template[t])
AllNear ==
  /\ \A t \in Tasks : Near(t, ports[t])
  /\ \A h \in Holders : holder[h].task \in Tasks => Near(holder[h].task, holder[h].ports)
  /\ \A p \in Passes : pass[p].at = "save" => Near(pass[p].task, pass[p].ports)

-----------------------------------------------------------------------------
(* Chosen ports                                                            *)

(* What changeDockerPorts makes of ports: as many ports.                   *)
LEMMA AssignType ==
  ASSUME NEW s \in Seq(Nat), NEW base \in Nat
  PROVE  Assign(s, base) \in Seq(Nat) /\ Len(Assign(s, base)) = Len(s)
<1>1. DOMAIN s = 1 .. Len(s) /\ Len(s) \in Nat
  OBVIOUS
<1>2. \A n \in 1 .. Len(s) : (IF s[n] = 0 THEN base + n - 1 ELSE s[n]) \in Nat
  OBVIOUS
<1>3. Assign(s, base) \in [1 .. Len(s) -> Nat]
  BY <1>1, <1>2 DEF Assign
<1> QED
  BY <1>1, <1>3

(* The ports chosen for a template lie one behind the other from the base. *)
LEMMA ChosenAssign ==
  ASSUME NEW t \in Tasks, NEW base \in Nat,
         NEW q \in Chosen(t, Assign(Template[t], base))
  PROVE  q \in Nat /\ base <= q /\ q < base + Len(Template[t])
<1>1. Template[t] \in Seq(Nat)
  BY ConstantsAssumption
<1>2. PICK n \in DOMAIN Template[t] : Template[t][n] = 0 /\ q = Assign(Template[t], base)[n]
  BY DEF Chosen
<1>3. n \in 1 .. Len(Template[t]) /\ Len(Template[t]) \in Nat
  BY <1>1, <1>2
<1>4. q = base + n - 1
  BY <1>2 DEF Assign
<1> QED
  BY <1>3, <1>4

(* No port of a template, or of nothing, was chosen in the range.          *)
LEMMA ChosenTemplate ==
  ASSUME NEW t \in Tasks
  PROVE  /\ \A q \in Chosen(t, Template[t]) : q = 0 /\ q < Len(Template[t])
         /\ Chosen(t, <<>>) = {}
<1>1. Template[t] \in Seq(Nat)
  BY ConstantsAssumption
<1>2. \A n \in DOMAIN Template[t] : 0 < Len(Template[t])
  BY <1>1
<1> QED
  BY <1>2 DEF Chosen

-----------------------------------------------------------------------------
(* Types                                                                   *)

(* The initial state has its types, and records as they are created.       *)
LEMMA InitTyped == Init => TypeOK /\ FromTemplate
<1> SUFFICES ASSUME Init PROVE TypeOK /\ FromTemplate
  OBVIOUS
<1>1. TypeOK
  BY ConstantsAssumption DEF Init, TypeOK, States, Port, Pass, Copy, IdlePass, NoCopy
<1>2. FromTemplate
  BY ConstantsAssumption DEF Init, FromTemplate, Fits, IdlePass, NoCopy
<1> QED
  BY <1>1, <1>2

(* A step that changes one pass, to one that is as it should be.           *)
PassFits(x) ==
  /\ x.at = "idle" => x = IdlePass
  /\ x.at = "probe" => x.task \in Tasks /\ x.ports = Template[x.task] /\ x.base > From
  /\ x.at = "save" => x.task \in Tasks /\ Len(x.ports) = Len(Template[x.task])

LEMMA OnePass ==
  ASSUME TypeOK, FromTemplate, NEW p \in Passes, NEW x \in Pass, PassFits(x),
         pass' = [pass EXCEPT ![p] = x], UNCHANGED <<ports, state, holder>>
  PROVE  TypeOK' /\ FromTemplate'
<1>1. pass' \in [Passes -> Pass] /\ pass'[p] = x /\ \A r \in Passes \ {p} : pass'[r] = pass[r]
  BY DEF TypeOK
<1>2. \A r \in Passes : PassFits(pass'[r])
  BY <1>1 DEF FromTemplate, PassFits
<1>3. TypeOK'
  BY <1>1 DEF TypeOK
<1>4. FromTemplate'
  BY <1>2 DEF FromTemplate, PassFits, Fits
<1> QED
  BY <1>3, <1>4

(* Every step keeps them.                                                  *)
LEMMA StepTyped == TypeOK /\ FromTemplate /\ [Next]_vars => TypeOK' /\ FromTemplate'
<1> SUFFICES ASSUME TypeOK, FromTemplate, [Next]_vars PROVE TypeOK' /\ FromTemplate'
  OBVIOUS
<1>a. From \in Nat /\ To \in Nat /\ NoTask \notin Tasks /\ Template \in [Tasks -> Seq(Nat)]
  BY ConstantsAssumption
<1>b. IdlePass \in Pass /\ NoCopy \in Copy
  <2>1. <<>> \in Seq(Nat)
    OBVIOUS
  <2> QED
    BY <2>1 DEF Pass, Copy, States, Port, IdlePass, NoCopy
<1>c. \A p \in Passes : /\ pass[p] \in Pass
                         /\ pass[p].task \in Tasks \cup {NoTask} /\ pass[p].ports \in Seq(Nat)
                         /\ pass[p].base \in Nat /\ pass[p].found \in Nat
  BY DEF TypeOK, Pass, Port
<1>d. \A h \in Holders : /\ holder[h] \in Copy
                          /\ holder[h].task \in Tasks \cup {NoTask}
                          /\ holder[h].ports \in Seq(Nat) /\ holder[h].state \in States
  BY DEF TypeOK, Copy, Port
<1>e. \A t \in Tasks : ports[t] \in Seq(Nat) /\ state[t] \in States
  BY DEF TypeOK, Port
<1>1. ASSUME NEW p \in Passes, NEW t \in Tasks, PassRead(p, t) PROVE TypeOK' /\ FromTemplate'
  <2> DEFINE x == [at |-> "probe", task |-> t, ports |-> ports[t], base |-> From + 1, found |-> 0]
  <2>1. x \in Pass
    BY <1>a, <1>e DEF Pass, Port
  <2>2. ports[t] = Template[t]
    BY <1>1 DEF PassRead, FromTemplate, Fits
  <2>3. PassFits(x)
    BY <1>a, <2>2 DEF PassFits
  <2>4. pass' = [pass EXCEPT ![p] = x] /\ UNCHANGED <<ports, state, holder>>
    BY <1>1 DEF PassRead
  <2> QED
    BY <2>1, <2>3, <2>4, OnePass
<1>2. ASSUME NEW p \in Passes, ProbeFree(p) \/ ProbeUsed(p) PROVE TypeOK' /\ FromTemplate'
  <2>1. pass[p].at = "probe" /\ UNCHANGED <<ports, state, holder>>
    BY <1>2 DEF ProbeFree, ProbeUsed, Probing
  <2>2. pass[p].found + 1 \in Nat /\ pass[p].base + 1 \in Nat
    BY <1>c
  <2>3. pass[p].base > From /\ pass[p].task \in Tasks /\ pass[p].ports = Template[pass[p].task]
    BY <2>1 DEF FromTemplate
  <2>4. CASE ProbeFree(p)
    <3> DEFINE x == [pass[p] EXCEPT !.found = @ + 1]
    <3>1. x \in Pass /\ PassFits(x)
      BY <1>c, <2>1, <2>2, <2>3 DEF Pass, PassFits
    <3>2. pass' = [pass EXCEPT ![p] = x]
      BY <2>4 DEF ProbeFree
    <3> QED
      BY <2>1, <3>1, <3>2, OnePass
  <2>5. CASE ProbeUsed(p)
    <3> DEFINE x == [pass[p] EXCEPT !.base = @ + 1, !.found = 0]
    <3>0. pass[p].base + 1 > From
      BY <1>a, <1>c, <2>3
    <3>1. x \in Pass /\ x.at = "probe" /\ x.task = pass[p].task /\ x.ports = pass[p].ports
          /\ x.base = pass[p].base + 1
      BY <1>c, <2>1, <2>2 DEF Pass
    <3>3. PassFits(x)
      BY <2>3, <3>0, <3>1 DEF PassFits
    <3>2. pass' = [pass EXCEPT ![p] = x]
      BY <2>5 DEF ProbeUsed
    <3> QED
      BY <2>1, <3>1, <3>2, <3>3, OnePass
  <2> QED
    BY <1>2, <2>4, <2>5
<1>3. ASSUME NEW p \in Passes, PassChoose(p) PROVE TypeOK' /\ FromTemplate'
  <2>1. PICK base \in Nat : pass' = [pass EXCEPT ![p].at = "save", ![p].ports = Assign(@, base)]
    BY <1>3, <1>c DEF PassChoose
  <2> DEFINE s == Assign(pass[p].ports, base)
             x == [pass[p] EXCEPT !.at = "save", !.ports = s]
  <2>2. s \in Seq(Nat) /\ Len(s) = Len(pass[p].ports)
    BY <1>c, AssignType
  <2>3. pass[p].at = "probe" /\ UNCHANGED <<ports, state, holder>>
    BY <1>3 DEF PassChoose
  <2>4. x \in Pass /\ x.at = "save" /\ x.task = pass[p].task /\ x.ports = s
    BY <1>c, <2>2 DEF Pass, Port
  <2>5. PassFits(x)
    BY <2>2, <2>3, <2>4 DEF PassFits, FromTemplate
  <2>6. pass' = [pass EXCEPT ![p] = x]
    BY <2>1
  <2> QED
    BY <2>3, <2>4, <2>5, <2>6, OnePass
<1>4. ASSUME NEW t \in Tasks, NEW s \in Seq(Nat), NEW st \in States, Save(t, s, st), Fits(t, s, st)
      PROVE  /\ ports' \in [Tasks -> Seq(Nat)] /\ state' \in [Tasks -> States]
             /\ \A u \in Tasks : Fits(u, ports'[u], state'[u])
  BY <1>4 DEF Save, TypeOK, Port, FromTemplate, Fits
<1>5. ASSUME NEW p \in Passes, PassSave(p) PROVE TypeOK' /\ FromTemplate'
  <2>1. pass[p].task \in Tasks /\ Fits(pass[p].task, pass[p].ports, "__NEW")
    BY <1>5 DEF PassSave, FromTemplate, Fits
  <2>2. /\ ports' \in [Tasks -> Seq(Nat)] /\ state' \in [Tasks -> States]
        /\ \A u \in Tasks : Fits(u, ports'[u], state'[u])
    BY <1>4, <1>5, <1>b, <1>c, <1>d, <1>e, <2>1 DEF PassSave, States
  <2>3. pass' \in [Passes -> Pass] /\ pass'[p] = IdlePass /\ \A r \in Passes \ {p} : pass'[r] = pass[r]
    BY <1>5, <1>b, <1>c, <1>d, <1>e DEF PassSave, TypeOK
  <2>4. IdlePass.at = "idle" /\ holder' = holder
    BY <1>5 DEF IdlePass, PassSave
  <2> QED
    BY <2>2, <2>3, <2>4 DEF TypeOK, FromTemplate, Port
<1>6. ASSUME NEW t \in Tasks, Want(t) \/ Delete(t) PROVE TypeOK' /\ FromTemplate'
  <2>0. <<>> \in Seq(Nat) /\ Template[t] \in Seq(Nat)
    BY <1>a
  <2>1. PICK s \in Seq(Nat), st \in States : Save(t, s, st) /\ Fits(t, s, st)
    BY <1>6, <2>0 DEF Want, Delete, States, Fits
  <2>2. UNCHANGED <<pass, holder>>
    BY <1>6 DEF Want, Delete
  <2> QED
    BY <1>4, <2>1, <2>2 DEF TypeOK, FromTemplate, Port
<1>7. ASSUME NEW h \in Holders, NEW t \in Tasks, HolderRead(h, t) PROVE TypeOK' /\ FromTemplate'
  <2>1. holder'[h] \in Copy /\ holder'[h].task = t /\ holder'[h].ports = ports[t]
        /\ holder'[h].state = state[t]
    BY <1>7, <1>b, <1>c, <1>d, <1>e DEF HolderRead, TypeOK, Copy, Port
  <2>2. holder' \in [Holders -> Copy] /\ \A r \in Holders \ {h} : holder'[r] = holder[r]
    BY <1>7, <2>1 DEF HolderRead, TypeOK
  <2> QED
    BY <1>7, <1>a, <2>1, <2>2 DEF HolderRead, TypeOK, FromTemplate
<1>8. ASSUME NEW h \in Holders, HolderWrite(h) PROVE TypeOK' /\ FromTemplate'
  <2>0. PICK st \in {holder[h].state, "__NEW"} : Save(holder[h].task, holder[h].ports, st)
    BY <1>8 DEF HolderWrite
  <2>a. /\ holder[h].task \in Tasks /\ holder[h].state # "none"
        /\ Fits(holder[h].task, holder[h].ports, holder[h].state)
    BY <1>8, <1>a, <1>d DEF HolderWrite, FromTemplate
  <2>b. holder[h].state \in {"", "__NEW"}
    BY <1>d, <2>a DEF States
  <2>c. Len(holder[h].ports) = Len(Template[holder[h].task])
    BY <2>a, <2>b DEF Fits
  <2>d. Fits(holder[h].task, holder[h].ports, "__NEW")
    BY <2>c DEF Fits
  <2>1. Fits(holder[h].task, holder[h].ports, st) /\ st \in States
    BY <2>0, <2>a, <2>d, <1>d DEF States
  <2>2. /\ ports' \in [Tasks -> Seq(Nat)] /\ state' \in [Tasks -> States]
        /\ \A u \in Tasks : Fits(u, ports'[u], state'[u])
    BY <1>4, <1>d, <2>0, <2>1, <2>a
  <2>3. holder' \in [Holders -> Copy] /\ holder'[h] = NoCopy /\ \A r \in Holders \ {h} : holder'[r] = holder[r]
    BY <1>8, <1>b, <1>c, <1>d, <1>e DEF HolderWrite, TypeOK
  <2>4. NoCopy.task = NoTask /\ pass' = pass
    BY <1>8 DEF HolderWrite, NoCopy
  <2> QED
    BY <2>2, <2>3, <2>4 DEF TypeOK, FromTemplate, Port
<1>9. CASE Restart
  <2>1. IdlePass.at = "idle" /\ NoCopy.task = NoTask
    BY DEF IdlePass, NoCopy
  <2> QED
    BY <1>9, <1>b, <1>c, <1>d, <1>e, <2>1 DEF Restart, TypeOK, FromTemplate
<1>10. CASE UNCHANGED vars
  BY <1>10 DEF vars, TypeOK, FromTemplate, Fits
<1> QED
  BY <1>1, <1>2, <1>3, <1>5, <1>6, <1>7, <1>8, <1>9, <1>10 DEF Next, CheckState

(* Ports, states and copies have their types, and there is always a record *)
(* behind what a pass or a holder has in hand.                             *)
THEOREM TypeCorrect == Spec => []TypeOK
<1>1. Init => TypeOK /\ FromTemplate
  BY InitTyped
<1>2. TypeOK /\ FromTemplate /\ [Next]_vars => (TypeOK /\ FromTemplate)'
  BY StepTyped
<1> QED
  BY <1>1, <1>2, PTL DEF Spec

-----------------------------------------------------------------------------
(* The range                                                               *)

(* A save of near ports leaves all records with near ports.                *)
LEMMA SaveNear ==
  ASSUME TypeOK, AllNear, NEW t \in Tasks, NEW s, NEW st, Save(t, s, st), Near(t, s)
  PROVE  \A u \in Tasks : Near(u, ports'[u])
<1>1. ports'[t] = s /\ \A u \in Tasks \ {t} : ports'[u] = ports[u]
  BY DEF Save, TypeOK
<1> QED
  BY <1>1 DEF AllNear

(* Ports from a template are near.                                         *)
LEMMA TemplateNear == ASSUME NEW t \in Tasks PROVE Near(t, Template[t]) /\ Near(t, <<>>)
  BY ChosenTemplate DEF Near

LEMMA StepNear == TypeOK /\ FromTemplate /\ AllNear /\ [Next]_vars => AllNear'
<1> SUFFICES ASSUME TypeOK, FromTemplate, AllNear, [Next]_vars PROVE AllNear'
  OBVIOUS
<1>a. From \in Nat /\ To \in Nat /\ NoTask \notin Tasks
  BY ConstantsAssumption
<1>1. ASSUME NEW p \in Passes, \/ \E t \in Tasks : PassRead(p, t)
                               \/ ProbeFree(p) \/ ProbeUsed(p)
      PROVE  AllNear'
  <2>0. pass[p] \in Pass
    BY DEF TypeOK
  <2>1. CASE \E t \in Tasks : PassRead(p, t)
    <3>1. PICK t \in Tasks : PassRead(p, t)
      BY <2>1
    <3>2. pass'[p].at = "probe" /\ \A r \in Passes \ {p} : pass'[r] = pass[r]
      BY <3>1 DEF PassRead, TypeOK
    <3> QED
      BY <3>1, <3>2 DEF PassRead, AllNear
  <2>2. CASE ProbeFree(p)
    <3>1. pass'[p].at = "probe" /\ \A r \in Passes \ {p} : pass'[r] = pass[r]
      BY <2>0, <2>2 DEF ProbeFree, Probing, TypeOK, Pass
    <3> QED
      BY <2>2, <3>1 DEF ProbeFree, AllNear
  <2>3. CASE ProbeUsed(p)
    <3>1. pass'[p].at = "probe" /\ \A r \in Passes \ {p} : pass'[r] = pass[r]
      BY <2>0, <2>3 DEF ProbeUsed, Probing, TypeOK, Pass
    <3> QED
      BY <2>3, <3>1 DEF ProbeUsed, AllNear
  <2> QED
    BY <1>1, <2>1, <2>2, <2>3
<1>2. ASSUME NEW p \in Passes, PassChoose(p) PROVE AllNear'
  <2>1. pass[p].at = "probe" /\ UNCHANGED <<ports, state, holder>>
    BY <1>2 DEF PassChoose
  <2>2. pass[p].task \in Tasks /\ pass[p].ports = Template[pass[p].task]
        /\ pass[p].base > From /\ pass[p].base \in Nat
    BY <2>1 DEF FromTemplate, TypeOK, Pass
  <2>3. PICK base \in {pass[p].base, 0} :
          /\ base # 0 => pass[p].base < To
          /\ pass' = [pass EXCEPT ![p].at = "save", ![p].ports = Assign(@, base)]
    BY <1>2 DEF PassChoose, Probing
  <2>4. pass'[p].task = pass[p].task /\ pass'[p].ports = Assign(Template[pass[p].task], base)
        /\ \A r \in Passes \ {p} : pass'[r] = pass[r]
    BY <2>2, <2>3 DEF TypeOK, Pass
  <2>5. ASSUME NEW q \in Chosen(pass[p].task, Assign(Template[pass[p].task], base))
        PROVE  \/ From < q /\ q < To + Len(Template[pass[p].task]) - 1
               \/ q < Len(Template[pass[p].task])
    <3>1. q \in Nat /\ base <= q /\ q < base + Len(Template[pass[p].task])
      BY <2>2, <2>3, ChosenAssign
    <3>2. Len(Template[pass[p].task]) \in Nat
      BY <2>2, ConstantsAssumption
    <3>3. CASE base = 0
      BY <3>1, <3>2, <3>3
    <3>4. CASE base # 0
      BY <1>a, <2>2, <2>3, <3>1, <3>2, <3>4
    <3> QED
      BY <3>3, <3>4
  <2>6. Near(pass'[p].task, pass'[p].ports)
    BY <2>4, <2>5 DEF Near
  <2> QED
    BY <2>1, <2>4, <2>6 DEF AllNear
<1>3. ASSUME NEW p \in Passes, PassSave(p) PROVE AllNear'
  <2>1. pass[p].task \in Tasks /\ Near(pass[p].task, pass[p].ports)
    BY <1>3 DEF PassSave, FromTemplate, AllNear
  <2>2. \A u \in Tasks : Near(u, ports'[u])
    BY <1>3, <2>1, SaveNear DEF PassSave
  <2>3. pass'[p].at = "idle" /\ \A r \in Passes \ {p} : pass'[r] = pass[r]
    BY <1>3 DEF PassSave, TypeOK, IdlePass
  <2> QED
    BY <1>3, <2>2, <2>3 DEF PassSave, AllNear
<1>4. ASSUME NEW t \in Tasks, Want(t) \/ Delete(t) PROVE AllNear'
  <2>1. \A u \in Tasks : Near(u, ports'[u])
    BY <1>4, TemplateNear, SaveNear DEF Want, Delete
  <2> QED
    BY <1>4, <2>1 DEF Want, Delete, AllNear
<1>5. ASSUME NEW h \in Holders, NEW t \in Tasks, HolderRead(h, t) PROVE AllNear'
  <2>1. holder'[h].task = t /\ holder'[h].ports = ports[t]
        /\ \A r \in Holders \ {h} : holder'[r] = holder[r]
    BY <1>5 DEF HolderRead, TypeOK
  <2> QED
    BY <1>5, <2>1 DEF HolderRead, AllNear
<1>6. ASSUME NEW h \in Holders, HolderWrite(h) PROVE AllNear'
  <2>1. holder[h].task \in Tasks /\ Near(holder[h].task, holder[h].ports)
    BY <1>6 DEF HolderWrite, FromTemplate, AllNear, TypeOK, Copy
  <2>0. PICK st : Save(holder[h].task, holder[h].ports, st)
    BY <1>6 DEF HolderWrite
  <2>2. \A u \in Tasks : Near(u, ports'[u])
    BY <2>0, <2>1, SaveNear
  <2>3. holder'[h].task = NoTask /\ \A r \in Holders \ {h} : holder'[r] = holder[r]
    BY <1>6 DEF HolderWrite, TypeOK, NoCopy
  <2> QED
    BY <1>a, <1>6, <2>2, <2>3 DEF HolderWrite, AllNear
<1>7. CASE Restart
  BY <1>a, <1>7 DEF Restart, AllNear, IdlePass, NoCopy
<1>8. CASE UNCHANGED vars
  BY <1>8 DEF vars, AllNear
<1> QED
  BY <1>1, <1>2, <1>3, <1>4, <1>5, <1>6, <1>7, <1>8 DEF Next, CheckState

(* A port that was chosen lies in the range, or behind its end by less     *)
(* than the ports of the task, or is counted from 0 in an exhausted range. *)
THEOREM NearRange == Spec => []ChosenNearRange
<1>1. Init => AllNear
  BY TemplateNear, ConstantsAssumption DEF Init, AllNear, IdlePass, NoCopy
<1>2. AllNear => ChosenNearRange
  BY DEF AllNear, Near, ChosenNearRange
<1> QED
  BY <1>1, <1>2, InitTyped, StepTyped, StepNear, PTL DEF Spec

-----------------------------------------------------------------------------
(* The bound                                                               *)

(* The tasks that Passes and Holders have in hand are at most as many as   *)
(* they are.                                                               *)
LEMMA HandBound ==
  ASSUME NEW f, NEW T, \A t \in T : \E a \in Passes \cup Holders : f[a] = t
  PROVE  IsFiniteSet(T) /\ Cardinality(T) <= Bound
<1> DEFINE S == {a \in Passes \cup Holders : f[a] \in T}
           g == [a \in S |-> f[a]]
<1>1. IsFiniteSet(Passes \cup Holders) /\ Cardinality(Passes \cup Holders) = Bound
  <2>1. Cardinality(Passes \cap Holders) = 0
    BY ConstantsAssumption, FS_EmptySet
  <2>2. Cardinality(Passes) \in Nat /\ Cardinality(Holders) \in Nat
    BY ConstantsAssumption, FS_CardinalityType
  <2>3. /\ IsFiniteSet(Passes \cup Holders)
        /\ Cardinality(Passes \cup Holders) =
             Cardinality(Passes) + Cardinality(Holders) - Cardinality(Passes \cap Holders)
    BY ConstantsAssumption, FS_Union
  <2> QED
    BY <2>1, <2>2, <2>3 DEF Bound
<1>2. IsFiniteSet(S) /\ Cardinality(S) <= Bound
  BY <1>1, FS_Subset
<1>3. g \in Surjection(S, T)
  BY DEF Surjection
<1>4. IsFiniteSet(T) /\ Cardinality(T) <= Cardinality(S)
  BY <1>2, <1>3, FS_Surjection
<1>5. Cardinality(S) \in Nat /\ Cardinality(T) \in Nat /\ Bound \in Nat
  BY <1>1, <1>2, <1>4, FS_CardinalityType
<1> QED
  BY <1>2, <1>4, <1>5

(* Where nobody new has a port, the bound stays.                           *)
LEMMA Fewer ==
  ASSUME NEW A, NEW B \in SUBSET A, IsFiniteSet(A), Cardinality(A) <= Bound
  PROVE  IsFiniteSet(B) /\ Cardinality(B) <= Bound
<1>1. IsFiniteSet(B) /\ Cardinality(B) <= Cardinality(A)
  BY FS_Subset
<1>2. Cardinality(A) \in Nat /\ Cardinality(B) \in Nat /\ Bound \in Nat
  BY <1>1, FS_CardinalityType, ConstantsAssumption DEF Bound
<1> QED
  BY <1>1, <1>2

LEMMA StaysBounded ==
  ASSUME HavingBounded, NEW q \in InRange, Having(q)' \subseteq Having(q)
  PROVE  IsFiniteSet(Having(q)') /\ Cardinality(Having(q)') <= Bound
  BY Fewer DEF HavingBounded

(* A save by somebody who has the ports already, or of none in the range.  *)
LEMMA SaveHaving ==
  ASSUME TypeOK, NEW t \in Tasks, NEW s, NEW st, Save(t, s, st), NEW q \in InRange,
         q \in Chosen(t, s) => t \in Having(q)
  PROVE  Sharers(q)' \subseteq Having(q)
<1>1. ports'[t] = s /\ \A u \in Tasks \ {t} : ports'[u] = ports[u]
  BY DEF Save, TypeOK
<1> QED
  BY <1>1 DEF Sharers, Having

LEMMA StepBounded == TypeOK /\ FromTemplate /\ HavingBounded /\ [Next]_vars => HavingBounded'
<1> SUFFICES ASSUME TypeOK, FromTemplate, HavingBounded, [Next]_vars, NEW q \in InRange
             PROVE  IsFiniteSet(Having(q)') /\ Cardinality(Having(q)') <= Bound
  BY DEF HavingBounded
<1>a. From \in Nat /\ To \in Nat /\ NoTask \notin Tasks /\ q \in Nat /\ q > From
  BY ConstantsAssumption DEF InRange
<1>b. \A t \in Tasks : q \notin Chosen(t, Template[t]) /\ q \notin Chosen(t, <<>>)
  BY <1>a, ChosenTemplate
<1>1. ASSUME NEW p \in Passes, NEW t \in Tasks, PassRead(p, t) PROVE Having(q)' \subseteq Having(q)
  <2>1. pass'[p].at = "probe" /\ pass'[p].base = From + 1 /\ pass'[p].found = 0
        /\ \A r \in Passes \ {p} : pass'[r] = pass[r]
    BY <1>1 DEF PassRead, TypeOK
  <2>2. ~PassHas(p, q)'
    BY <1>a, <2>1 DEF PassHas, Found
  <2>3. \A r \in Passes : PassHas(r, q)' => PassHas(r, q) /\ pass'[r].task = pass[r].task
    BY <2>1, <2>2 DEF PassHas, Found, Chosen
  <2> QED
    BY <1>1, <2>3 DEF PassRead, Having, Sharers, HoldHas
<1>2. ASSUME NEW p \in Passes, ProbeFree(p), q # pass[p].base + pass[p].found
      PROVE  Having(q)' \subseteq Having(q)
  <2>1. pass[p].at = "probe" /\ pass[p].base \in Nat /\ pass[p].found \in Nat
    BY <1>2 DEF ProbeFree, Probing, TypeOK, Pass
  <2>2. pass'[p].at = "probe" /\ pass'[p].task = pass[p].task /\ pass'[p].base = pass[p].base
        /\ pass'[p].found = pass[p].found + 1 /\ \A r \in Passes \ {p} : pass'[r] = pass[r]
    BY <1>2, <2>1 DEF ProbeFree, TypeOK, Pass
  <2>3. PassHas(p, q)' => PassHas(p, q)
    BY <1>a, <1>2, <2>1, <2>2 DEF PassHas, Found
  <2> QED
    BY <1>2, <2>2, <2>3 DEF ProbeFree, Having, Sharers, PassHas, Found, HoldHas
<1>3. ASSUME NEW p \in Passes, ProbeFree(p), q = pass[p].base + pass[p].found
      PROVE  IsFiniteSet(Having(q)') /\ Cardinality(Having(q)') <= Bound
  <2>1. Sharers(q)' = {}
    BY <1>3 DEF ProbeFree, InUse, Sharers, Chosen
  <2> DEFINE f == [a \in Passes \cup Holders |->
                     IF a \in Passes THEN pass'[a].task ELSE holder'[a].task]
  <2>2. \A t \in Having(q)' : \E a \in Passes \cup Holders : f[a] = t
    BY <2>1, ConstantsAssumption DEF Having
  <2> HIDE DEF f
  <2> QED
    BY <2>2, HandBound
<1>4. ASSUME NEW p \in Passes, ProbeUsed(p) PROVE Having(q)' \subseteq Having(q)
  <2>1. pass'[p].at = "probe" /\ pass'[p].found = 0 /\ pass'[p].base \in Nat
        /\ \A r \in Passes \ {p} : pass'[r] = pass[r]
    BY <1>4 DEF ProbeUsed, Probing, TypeOK, Pass
  <2>2. ~PassHas(p, q)'
    BY <1>a, <2>1 DEF PassHas, Found
  <2>3. \A r \in Passes : PassHas(r, q)' => PassHas(r, q) /\ pass'[r].task = pass[r].task
    BY <2>1, <2>2 DEF PassHas, Found, Chosen
  <2> QED
    BY <1>4, <2>3 DEF ProbeUsed, Having, Sharers, HoldHas
<1>5. ASSUME NEW p \in Passes, PassChoose(p) PROVE Having(q)' \subseteq Having(q)
  <2>1. pass[p].at = "probe" /\ UNCHANGED <<ports, state, holder>>
    BY <1>5 DEF PassChoose
  <2>2. pass[p].task \in Tasks /\ pass[p].ports = Template[pass[p].task]
        /\ pass[p].base \in Nat /\ pass[p].found \in Nat
    BY <2>1 DEF FromTemplate, TypeOK, Pass
  <2>3. PICK base \in {pass[p].base, 0} :
          /\ base # 0 => pass[p].found = Len(pass[p].ports)
          /\ pass' = [pass EXCEPT ![p].at = "save", ![p].ports = Assign(@, base)]
    BY <1>5 DEF PassChoose
  <2>4. pass'[p].at = "save" /\ pass'[p].task = pass[p].task
        /\ pass'[p].ports = Assign(Template[pass[p].task], base)
        /\ \A r \in Passes \ {p} : pass'[r] = pass[r]
    BY <2>2, <2>3 DEF TypeOK, Pass
  <2>5. ASSUME q \in Chosen(pass[p].task, Assign(Template[pass[p].task], base))
        PROVE  q \in Found(p)
    <3>1. base <= q /\ q < base + Len(Template[pass[p].task])
      BY <2>2, <2>3, <2>5, ChosenAssign
    <3>2. Len(Template[pass[p].task]) <= From /\ Len(Template[pass[p].task]) \in Nat
      BY <2>2, ConstantsAssumption
    <3>3. base # 0
      BY <1>a, <3>1, <3>2
    <3> QED
      BY <1>a, <2>1, <2>2, <2>3, <3>1, <3>2, <3>3 DEF Found
  <2>6. PassHas(p, q)' => PassHas(p, q)
    BY <2>4, <2>5 DEF PassHas, Found, Chosen
  <2> QED
    BY <2>1, <2>4, <2>6 DEF Having, Sharers, PassHas, Found, HoldHas
<1>6. ASSUME NEW p \in Passes, PassSave(p) PROVE Having(q)' \subseteq Having(q)
  <2>1. pass[p].at = "save" /\ pass[p].task \in Tasks
    BY <1>6 DEF PassSave, FromTemplate
  <2>2. q \in Chosen(pass[p].task, pass[p].ports) => pass[p].task \in Having(q)
    BY <2>1 DEF Having, PassHas
  <2>3. Sharers(q)' \subseteq Having(q)
    BY <1>6, <2>1, <2>2, SaveHaving DEF PassSave
  <2>4. pass'[p].at = "idle" /\ \A r \in Passes \ {p} : pass'[r] = pass[r]
    BY <1>6 DEF PassSave, TypeOK, IdlePass
  <2>5. ~PassHas(p, q)'
    BY <2>4 DEF PassHas, Found
  <2> QED
    BY <1>6, <2>3, <2>4, <2>5 DEF PassSave, Having, PassHas, Found, HoldHas
<1>7. ASSUME NEW t \in Tasks, Want(t) \/ Delete(t) PROVE Having(q)' \subseteq Having(q)
  <2>1. Sharers(q)' \subseteq Having(q)
    BY <1>7, <1>b, SaveHaving DEF Want, Delete
  <2> QED
    BY <1>7, <2>1 DEF Want, Delete, Having, PassHas, Found, HoldHas
<1>8. ASSUME NEW h \in Holders, NEW t \in Tasks, HolderRead(h, t) PROVE Having(q)' \subseteq Having(q)
  <2>1. holder'[h].task = t /\ holder'[h].ports = ports[t]
        /\ \A r \in Holders \ {h} : holder'[r] = holder[r]
    BY <1>8 DEF HolderRead, TypeOK
  <2>2. HoldHas(h, q)' => t \in Sharers(q)
    BY <2>1 DEF HoldHas, Sharers
  <2> QED
    BY <1>8, <2>1, <2>2 DEF HolderRead, Having, Sharers, PassHas, Found, HoldHas
<1>9. ASSUME NEW h \in Holders, HolderWrite(h) PROVE Having(q)' \subseteq Having(q)
  <2>1. holder[h].task \in Tasks
    BY <1>9 DEF HolderWrite, FromTemplate, TypeOK, Copy
  <2>2. q \in Chosen(holder[h].task, holder[h].ports) => holder[h].task \in Having(q)
    BY <2>1 DEF Having, HoldHas
  <2>0. PICK st : Save(holder[h].task, holder[h].ports, st)
    BY <1>9 DEF HolderWrite
  <2>3. Sharers(q)' \subseteq Having(q)
    BY <2>0, <2>1, <2>2, SaveHaving
  <2>4. holder'[h].task = NoTask /\ \A r \in Holders \ {h} : holder'[r] = holder[r]
    BY <1>9 DEF HolderWrite, TypeOK, NoCopy
  <2>5. ~HoldHas(h, q)'
    BY <1>a, <2>4 DEF HoldHas
  <2> QED
    BY <1>9, <2>3, <2>4, <2>5 DEF HolderWrite, Having, PassHas, Found, HoldHas
<1>10. CASE Restart
  <2>1. \A p \in Passes : ~PassHas(p, q)'
    BY <1>10 DEF Restart, PassHas, Found, IdlePass
  <2>2. \A h \in Holders : ~HoldHas(h, q)'
    BY <1>a, <1>10 DEF Restart, HoldHas, NoCopy
  <2>3. Having(q)' \subseteq Having(q)
    BY <1>10, <2>1, <2>2 DEF Restart, Having, Sharers
  <2> QED
    BY <2>3, StaysBounded
<1>11. CASE UNCHANGED vars
  <2>1. Having(q)' \subseteq Having(q)
    BY <1>11 DEF vars, Having, Sharers, PassHas, Found, HoldHas
  <2> QED
    BY <2>1, StaysBounded
<1> QED
  BY <1>1, <1>2, <1>3, <1>4, <1>5, <1>6, <1>7, <1>8, <1>9, <1>10, <1>11, StaysBounded
  DEF Next, CheckState

(* No more tasks share a port than there are passes and holders beside     *)
(* each other, whichever port was chosen for a task, unless an exhausted   *)
(* search counted up to it from 0.                                         *)
THEOREM PortsShared == Spec => []SharingBounded
<1>1. Init => HavingBounded
  <2> SUFFICES ASSUME Init, NEW q \in InRange PROVE IsFiniteSet(Having(q)) /\ Cardinality(Having(q)) <= Bound
    BY DEF HavingBounded
  <2>1. Sharers(q) = {}
    BY ChosenTemplate DEF Init, Sharers
  <2>2. \A p \in Passes : ~PassHas(p, q)
    BY DEF Init, PassHas, Found, IdlePass
  <2>3. \A h \in Holders : ~HoldHas(h, q)
    BY ConstantsAssumption DEF Init, HoldHas, NoCopy
  <2>4. Having(q) = {}
    BY <2>1, <2>2, <2>3 DEF Having
  <2>5. \A t \in Having(q) : \E a \in Passes \cup Holders : NoTask[a] = t
    BY <2>4
  <2> QED
    BY <2>5, HandBound
<1>2. TypeOK /\ AllNear /\ HavingBounded => SharingBounded
  <2> SUFFICES ASSUME TypeOK, AllNear, HavingBounded, NEW q \in ChosenPorts, ~Unprobed(q)
               PROVE  Few(q)
    BY DEF SharingBounded
  <2>1. PICK t \in Tasks : q \in Chosen(t, ports[t])
    BY DEF ChosenPorts
  <2>2. ports[t] \in Seq(Nat)
    BY DEF TypeOK, Port
  <2>3. q \in Nat
    BY <2>1, <2>2 DEF Chosen
  <2>4. t \in Sharers(q)
    BY <2>1 DEF Sharers
  <2>5. ~(q < Len(Template[t]))
    BY <2>4 DEF Unprobed
  <2>6. From < q
    BY <2>1, <2>5 DEF AllNear, Near
  <2>7. q \in InRange
    BY <2>3, <2>6 DEF InRange
  <2>8. Sharers(q) \subseteq Having(q)
    BY DEF Having
  <2>9. Cardinality(Sharers(q)) <= Bound
    BY <2>7, <2>8, Fewer DEF HavingBounded
  <2> QED
    BY <2>9 DEF Few, Bound
<1>3. Init => AllNear
  BY TemplateNear, ConstantsAssumption DEF Init, AllNear, IdlePass, NoCopy
<1> QED
  BY <1>1, <1>2, <1>3, InitTyped, StepTyped, StepNear, StepBounded, PTL DEF Spec
=============================================================================
