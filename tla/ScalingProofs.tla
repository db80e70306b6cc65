----------------------------- MODULE ScalingProofs -----------------------------
(* Proofs about Scaling: the restore numbers in Redis are those in memory  *)
(* whatever the requests are; requests that stop and start the whole       *)
(* cluster forget no number; and with the cluster to itself a restart      *)
(* leaves every number as it found it, a shutdown leaves 0 and a start     *)
(* what was remembered.                                                    *)
EXTENDS Scaling, SequenceTheorems, FiniteSetTheorems, TLAPS

-----------------------------------------------------------------------------
(* Programs                                                                *)

(* An operation on one kind names it, and what Scale kills down to or sets *)
(* is a number.                                                            *)
ProperOp ==
  {op \in Operation :
     /\ op.do \in {"scale", "kill", "set", "start"} => \E k \in Kinds : op.kinds = {k}
     /\ op.do \in {"kill", "set"} => op.to \in 0 .. Limit}

Saving == {"save", "scale"}

(* Only the first operation may be to remember; what is remembered is      *)
(* saved by one that follows.                                              *)
Program(ops) ==
  /\ ops \in Seq(ProperOp)
  /\ \A i \in 2 .. Len(ops) : ops[i].do # "remember"
  /\ ops # <<>> /\ ops[1].do = "remember" => Len(ops) >= 2 /\ ops[2].do \in Saving

(* The empty program.                                                      *)
LEMMA EmptyProgram == Program(<<>>) /\ Len(<<>>) = 0
  BY DEF Program

(* What is left of a program when its first operation is done.             *)
LEMMA TailProgram ==
  ASSUME NEW ops, Program(ops), ops # <<>>
  PROVE  /\ Program(Tail(ops))
         /\ Len(Tail(ops)) = Len(ops) - 1
         /\ \A i \in 1 .. Len(ops) - 1 : Tail(ops)[i] = ops[i + 1]
         /\ \A i \in 1 .. Len(Tail(ops)) : Tail(ops)[i].do # "remember"
<1>1. ops \in Seq(ProperOp)
  BY DEF Program
<1>2. /\ Tail(ops) \in Seq(ProperOp) /\ Len(Tail(ops)) = Len(ops) - 1
      /\ \A i \in 1 .. Len(ops) - 1 : Tail(ops)[i] = ops[i + 1]
  BY <1>1
<1>3. Len(ops) \in Nat
  BY <1>1
<1>4. \A i \in 1 .. Len(Tail(ops)) : Tail(ops)[i].do # "remember"
  BY <1>2, <1>3 DEF Program
<1>5. Tail(ops) # <<>> => 1 \in 1 .. Len(Tail(ops))
  BY <1>2, <1>3
<1> QED
  BY <1>2, <1>3, <1>4, <1>5 DEF Program

(* A program with operations after it that remember nothing.               *)
LEMMA JoinedProgram ==
  ASSUME NEW s, Program(s), NEW t \in Seq(ProperOp),
         \A i \in 1 .. Len(t) : t[i].do # "remember"
  PROVE  /\ Program(s \o t)
         /\ Len(s \o t) = Len(s) + Len(t)
         /\ \A i \in 1 .. Len(s) : (s \o t)[i] = s[i]
         /\ \A i \in 1 .. Len(t) : (s \o t)[Len(s) + i] = t[i]
<1>1. s \in Seq(ProperOp)
  BY DEF Program
<1>2. /\ s \o t \in Seq(ProperOp)
      /\ Len(s \o t) = Len(s) + Len(t)
      /\ \A i \in 1 .. Len(s) : (s \o t)[i] = s[i]
      /\ \A i \in 1 .. Len(t) : (s \o t)[Len(s) + i] = t[i]
  BY <1>1
<1>3. Len(s) \in Nat /\ Len(t) \in Nat
  BY <1>1
<1>4. \A i \in 2 .. Len(s \o t) : (s \o t)[i].do # "remember"
  <2> SUFFICES ASSUME NEW i \in 2 .. Len(s \o t) PROVE (s \o t)[i].do # "remember"
    OBVIOUS
  <2>1. CASE i <= Len(s)
    BY <1>2, <1>3, <2>1 DEF Program
  <2>2. CASE i > Len(s)
    <3>1. i - Len(s) \in 1 .. Len(t) /\ Len(s) + (i - Len(s)) = i
      BY <1>2, <1>3, <2>2
    <3> QED
      BY <1>2, <3>1
  <2> QED
    BY <1>3, <2>1, <2>2
<1>5. s \o t # <<>> /\ (s \o t)[1].do = "remember"
      => Len(s \o t) >= 2 /\ (s \o t)[2].do \in Saving
  <2> SUFFICES ASSUME s \o t # <<>>, (s \o t)[1].do = "remember"
               PROVE  Len(s \o t) >= 2 /\ (s \o t)[2].do \in Saving
    OBVIOUS
  <2>1. s # <<>>
    <3>1. CASE s = <<>>
      <4>1. Len(s) = 0 /\ Len(t) >= 1
        BY <1>2, <1>3, <3>1
      <4>2. (s \o t)[1] = t[1] /\ 1 \in 1 .. Len(t)
        BY <1>2, <1>3, <4>1
      <4> QED
        BY <4>2
    <3> QED
      BY <3>1
  <2>2. Len(s) >= 1 /\ (s \o t)[1] = s[1]
    BY <1>1, <1>2, <1>3, <2>1
  <2>3. Len(s) >= 2 /\ s[2].do \in Saving
    BY <2>1, <2>2 DEF Program
  <2> QED
    BY <1>2, <1>3, <2>3
<1> QED
  BY <1>2, <1>4, <1>5 DEF Program

(* The operations that handlers are made of.                               *)
LEMMA ProperOps ==
  /\ \A K \in SUBSET Kinds : Remember(K) \in ProperOp /\ Wait(K) \in ProperOp
  /\ Save \in ProperOp
  /\ \A k \in Kinds, n \in 0 .. Restored : ScaleTo(k, n) \in ProperOp
  /\ \A k \in Kinds : Op("start", {k}, 0) \in ProperOp
  BY ConstantsAssumption
  DEF ProperOp, Operation, Remember, Wait, Save, ScaleTo, Op, Restored

(* What each operation does.                                               *)
LEMMA Does ==
  /\ \A K : Remember(K).do = "remember" /\ Wait(K).do = "wait"
  /\ Save.do = "save"
  /\ \A k, n : ScaleTo(k, n).do = "scale"
  BY DEF Remember, Wait, Save, ScaleTo, Op

(* Short sequences of operations are programs.                             *)
LEMMA OneOp ==
  ASSUME NEW a \in ProperOp, a.do # "remember"
  PROVE  Program(<<a>>)
  BY DEF Program

(* The four operations in which both stopping requests begin.              *)
LEMMA FourOps ==
  ASSUME NEW a \in ProperOp, NEW b \in ProperOp, NEW c \in ProperOp, NEW d \in ProperOp,
         b.do \in Saving, c.do # "remember", d.do # "remember"
  PROVE  Program(<<a, b, c, d>>)
<1>1. \A i \in 2 .. 4 : i = 2 \/ i = 3 \/ i = 4
  OBVIOUS
<1> QED
  BY <1>1 DEF Program, Saving

(* A program that remembers nothing, to be joined to another.              *)
Plain(ops) == ops \in Seq(ProperOp) /\ \A i \in 1 .. Len(ops) : ops[i].do # "remember"

LEMMA PlainOps ==
  /\ Plain(<<>>)
  /\ \A a \in ProperOp : a.do # "remember" => Plain(<<a>>)
  /\ \A a, b \in ProperOp : a.do # "remember" /\ b.do # "remember" => Plain(<<a, b>>)
  /\ \A a, b, c \in ProperOp :
       a.do # "remember" /\ b.do # "remember" /\ c.do # "remember" => Plain(<<a, b, c>>)
<1>1. Plain(<<>>)
  BY DEF Plain
<1>2. ASSUME NEW a \in ProperOp, a.do # "remember" PROVE Plain(<<a>>)
  BY <1>2 DEF Plain
<1>3. ASSUME NEW a \in ProperOp, NEW b \in ProperOp, a.do # "remember", b.do # "remember"
      PROVE  Plain(<<a, b>>)
  BY <1>3 DEF Plain
<1>4. ASSUME NEW a \in ProperOp, NEW b \in ProperOp, NEW c \in ProperOp,
             a.do # "remember", b.do # "remember", c.do # "remember"
      PROVE  Plain(<<a, b, c>>)
  <2>1. \A i \in 1 .. 3 : i = 1 \/ i = 2 \/ i = 3
    OBVIOUS
  <2> QED
    BY <1>4, <2>1 DEF Plain
<1> QED
  BY <1>1, <1>2, <1>3, <1>4

(* The programs of the requests.  Those for the whole cluster begin by     *)
(* remembering all the numbers, or are a start or an adjustment; each      *)
(* scales to 0, or to the number to restore.                               *)
WholeOps ==
  {op \in ProperOp :
     /\ op.do \notin {"kill", "set"}
     /\ op.do = "remember" => op.kinds = Kinds
     /\ op.do = "scale" => op.to \in {0, Restored}}
Whole == {"shutdown", "start", "cluster", "ds", "adjust"}

LEMMA ClusterStopProgram ==
  ASSUME NEW ds \in BOOLEAN
  PROVE  /\ Program(ClusterStop(ds)) /\ ClusterStop(ds) \in Seq(WholeOps)
         /\ Len(ClusterStop(ds)) >= 1 /\ ClusterStop(ds)[1].do = "remember"
<1> DEFINE s == <<Remember(Kinds), Save, ScaleTo("agent", 0), ScaleTo("server", 0)>>
           d == IF ds THEN <<ScaleTo("datastore", 0)>> ELSE <<>>
           e == <<Save>>
<1>1. ClusterStop(ds) = s \o d \o e
  BY DEF ClusterStop
<1>2. /\ Remember(Kinds) \in ProperOp /\ Save \in ProperOp
      /\ \A k \in Kinds : ScaleTo(k, 0) \in ProperOp
      /\ {"agent", "server", "datastore"} \subseteq Kinds
  BY ProperOps, ConstantsAssumption DEF Restored, Kinds
<1>3. Program(s)
  BY <1>2, Does, FourOps DEF Saving
<1>4. Plain(d) /\ Plain(e)
  BY <1>2, Does, PlainOps
<1>5. /\ Remember(Kinds) \in WholeOps /\ Save \in WholeOps
      /\ \A k \in Kinds : ScaleTo(k, 0) \in WholeOps
  BY <1>2 DEF WholeOps, Remember, Save, ScaleTo, Op
<1>6. s \in Seq(WholeOps) /\ d \in Seq(WholeOps) /\ e \in Seq(WholeOps)
  BY <1>2, <1>5
<1>7. Len(s) = 4 /\ s[1].do = "remember"
  BY Does
<1> HIDE DEF s, d, e
<1>8. Program(s \o d) /\ (s \o d)[1] = s[1] /\ Len(s \o d) >= 4
  <2>1. Len(d) \in Nat
    BY <1>4 DEF Plain
  <2>2. /\ Program(s \o d) /\ Len(s \o d) = Len(s) + Len(d)
        /\ \A i \in 1 .. Len(s) : (s \o d)[i] = s[i]
    BY <1>3, <1>4, JoinedProgram DEF Plain
  <2> QED
    BY <1>7, <2>1, <2>2
<1>9. Program(s \o d \o e) /\ (s \o d \o e)[1] = s[1] /\ Len(s \o d \o e) >= 1
  <2>1. Len(e) \in Nat /\ Len(s \o d) \in Nat
    BY <1>4, <1>8 DEF Plain, Program
  <2> QED
    BY <1>4, <1>8, <2>1, JoinedProgram DEF Plain
<1>10. s \o d \o e \in Seq(WholeOps)
  BY <1>6
<1> QED
  BY <1>1, <1>7, <1>9, <1>10

LEMMA ClusterStartPlain == Plain(ClusterStart) /\ ClusterStart \in Seq(WholeOps)
<1>1. \A k \in Kinds : ScaleTo(k, Restored) \in ProperOp
  BY ProperOps, ConstantsAssumption DEF Restored
<1>2. \A k \in Kinds : ScaleTo(k, Restored) \in WholeOps
  BY <1>1 DEF WholeOps, ScaleTo, Op
<1>3. {"agent", "server", "datastore"} \subseteq Kinds
  BY DEF Kinds
<1> QED
  BY <1>1, <1>2, <1>3, Does, PlainOps DEF ClusterStart

(* Stop, wait, start: the three parts of a restart.                        *)
LEMMA ThreeParts ==
  ASSUME NEW s, Program(s), Len(s) >= 1, NEW K \in SUBSET Kinds, NEW t, Plain(t)
  PROVE  /\ Program(s \o <<Wait(K)>> \o t)
         /\ (s \o <<Wait(K)>> \o t)[1] = s[1] /\ Len(s \o <<Wait(K)>> \o t) >= 1
<1> DEFINE w == <<Wait(K)>>
<1>1. Plain(w)
  BY ProperOps, Does, PlainOps
<1> HIDE DEF w
<1>2. Len(w) \in Nat /\ Len(t) \in Nat /\ Len(s) \in Nat
  BY <1>1 DEF Plain, Program
<1>3. Program(s \o w) /\ (s \o w)[1] = s[1] /\ Len(s \o w) >= 1
  BY <1>1, <1>2, JoinedProgram DEF Plain
<1>4. Len(s \o w) \in Nat
  BY <1>3 DEF Program
<1>5. Program(s \o w \o t) /\ (s \o w \o t)[1] = s[1] /\ Len(s \o w \o t) >= 1
  BY <1>2, <1>3, <1>4, JoinedProgram DEF Plain
<1> QED
  BY <1>5 DEF w

(* Every request has a program ...                                         *)
LEMMA Handlers ==
  ASSUME NEW name \in Requests \ {"scale"}
  PROVE  Program(Handler(name)) /\ Handler(name) # <<>>
<1> USE DEF Handler
<1>a. /\ \A k \in Kinds : ScaleTo(k, 0) \in ProperOp /\ ScaleTo(k, Restored) \in ProperOp
      /\ \A K \in SUBSET Kinds : Remember(K) \in ProperOp
      /\ Save \in ProperOp
      /\ {"agent", "server", "datastore"} \subseteq Kinds
  BY ProperOps, ConstantsAssumption DEF Restored, Kinds
<1>b. \A s : Program(s) /\ Len(s) >= 1 => s # <<>>
  BY EmptyProgram
<1>1. CASE name = "shutdown"
  BY <1>1, <1>b, ClusterStopProgram
<1>2. CASE name = "start"
  <2>1. Plain(ClusterStart) /\ Len(ClusterStart) = 3
    BY ClusterStartPlain DEF ClusterStart
  <2>2. Program(ClusterStart)
    BY <2>1 DEF Plain, Program
  <2> QED
    BY <1>2, <1>b, <2>1, <2>2
<1>3. CASE name = "adjust"
  BY <1>3, <1>a, Does, OneOp DEF Adjust
<1>4. CASE name = "cluster"
  BY <1>4, <1>a, <1>b, ClusterStopProgram, ClusterStartPlain, ThreeParts
<1>5. CASE name = "ds"
  BY <1>5, <1>b, ClusterStopProgram, ClusterStartPlain, ThreeParts
<1>6. CASE name = "server"
  <2>1. Program(ServerAndAgentStop) /\ Len(ServerAndAgentStop) >= 1
    BY <1>a, Does, FourOps DEF ServerAndAgentStop, Saving
  <2>2. Plain(ServerAndAgentStart)
    BY <1>a, Does, PlainOps DEF ServerAndAgentStart
  <2> QED
    BY <1>6, <1>a, <1>b, <2>1, <2>2, ThreeParts
<1>7. CASE name = "agent"
  <2>1. Program(AgentStop) /\ Len(AgentStop) >= 1
    BY <1>a, Does DEF AgentStop, Program, Saving
  <2>2. Plain(AgentStart)
    BY <1>a, Does, PlainOps DEF AgentStart
  <2> QED
    BY <1>7, <1>a, <1>b, <2>1, <2>2, ThreeParts
<1> QED
  BY <1>1, <1>2, <1>3, <1>4, <1>5, <1>6, <1>7 DEF Requests, Restarts

(* ... and what the requests for the whole cluster have in common.         *)
LEMMA WholeHandlers ==
  ASSUME NEW name \in Whole
  PROVE  /\ Handler(name) \in Seq(WholeOps)
         /\ name \in {"shutdown", "cluster", "ds"} => Handler(name)[1].do = "remember"
         /\ name = "adjust" => Handler(name) = <<Save>>
<1>1. \A K \in SUBSET Kinds : Wait(K) \in WholeOps
  BY ProperOps DEF WholeOps, Wait, Op
<1>2. \A K \in SUBSET Kinds : <<Wait(K)>> \in Seq(WholeOps)
  BY <1>1
<1>3. {"server", "agent"} \in SUBSET Kinds
  BY DEF Kinds
<1>4. CASE name = "shutdown"
  BY <1>4, ClusterStopProgram DEF Handler
<1>5. CASE name = "start"
  BY <1>5, ClusterStartPlain DEF Handler
<1>6. CASE name = "adjust"
  <2>1. Save \in WholeOps
    BY ProperOps DEF WholeOps, Save, Op
  <2> QED
    BY <1>6, <2>1 DEF Adjust, Handler
<1>7. CASE name = "cluster"
  <2>1. Handler(name) = ClusterStop(FALSE) \o <<Wait({"server", "agent"})>> \o ClusterStart
    BY <1>7 DEF Handler
  <2>2. Handler(name)[1].do = "remember"
    <3>1. /\ Program(ClusterStop(FALSE)) /\ Len(ClusterStop(FALSE)) >= 1
          /\ ClusterStop(FALSE)[1].do = "remember"
      BY ClusterStopProgram
    <3>2. {"server", "agent"} \in SUBSET Kinds
      BY <1>3
    <3>3. (ClusterStop(FALSE) \o <<Wait({"server", "agent"})>> \o ClusterStart)[1] = ClusterStop(FALSE)[1]
      BY <3>1, <3>2, ClusterStartPlain, ThreeParts, Zenon
    <3> QED
      BY <2>1, <3>1, <3>3
  <2>3. Handler(name) \in Seq(WholeOps)
    <3> DEFINE s == ClusterStop(FALSE)
               w == <<Wait({"server", "agent"})>>
               t == ClusterStart
    <3>1. s \in Seq(WholeOps) /\ w \in Seq(WholeOps) /\ t \in Seq(WholeOps)
      BY <1>2, <1>3, ClusterStopProgram, ClusterStartPlain
    <3> HIDE DEF s, w, t
    <3>2. s \o w \o t \in Seq(WholeOps)
      BY <3>1
    <3> QED
      BY <2>1, <3>2 DEF s, w, t
  <2> QED
    BY <1>7, <2>2, <2>3
<1>8. CASE name = "ds"
  <2>1. Handler(name) = ClusterStop(TRUE) \o <<Wait(Kinds)>> \o ClusterStart
    BY <1>8 DEF Handler
  <2>2. Handler(name)[1].do = "remember"
    <3>1. /\ Program(ClusterStop(TRUE)) /\ Len(ClusterStop(TRUE)) >= 1
          /\ ClusterStop(TRUE)[1].do = "remember"
      BY ClusterStopProgram
    <3>2. Kinds \in SUBSET Kinds
      OBVIOUS
    <3>3. (ClusterStop(TRUE) \o <<Wait(Kinds)>> \o ClusterStart)[1] = ClusterStop(TRUE)[1]
      BY <3>1, <3>2, ClusterStartPlain, ThreeParts, Zenon
    <3> QED
      BY <2>1, <3>1, <3>3
  <2>3. Handler(name) \in Seq(WholeOps)
    <3> DEFINE s == ClusterStop(TRUE)
               w == <<Wait(Kinds)>>
               t == ClusterStart
    <3>1. s \in Seq(WholeOps) /\ w \in Seq(WholeOps) /\ t \in Seq(WholeOps)
      BY <1>2, ClusterStopProgram, ClusterStartPlain
    <3> HIDE DEF s, w, t
    <3>2. s \o w \o t \in Seq(WholeOps)
      BY <3>1
    <3> QED
      BY <2>1, <3>2 DEF s, w, t
  <2> QED
    BY <1>8, <2>2, <2>3
<1> QED
  BY <1>4, <1>5, <1>6, <1>7, <1>8 DEF Whole

-----------------------------------------------------------------------------
(* The inductive invariant                                                 *)

Programs == \A p \in Processes : Program(proc[p].ops)

(* Heartbeat starts and kills, but never changes the configuration.        *)
BeatOnlyKills == \A i \in 1 .. Len(proc[Beat].ops) : proc[Beat].ops[i].do \in {"start", "kill"}

(* Numbers that are remembered and not yet saved will be saved by some     *)
(* request in progress.                                                    *)
WillSave(p) == \E i \in 1 .. Len(proc[p].ops) : proc[p].ops[i].do \in Saving
SaveAhead == saved.restore = conf.restore \/ \E r \in Reqs : WillSave(r)

IInv == TypeOK /\ Programs /\ BeatOnlyKills /\ SaveAhead

(* What is true of everybody's program stays so when p's is replaced by a  *)
(* program: proc' is typed, and the programs are.                          *)
LEMMA NewProgram ==
  ASSUME IInv, NEW p \in Processes, NEW new \in Process, Program(new.ops),
         proc' = [proc EXCEPT ![p] = new],
         p = Beat => \A i \in 1 .. Len(new.ops) : new.ops[i].do \in {"start", "kill"}
  PROVE  /\ proc' \in [Processes -> Process] /\ Programs' /\ BeatOnlyKills'
         /\ proc'[p] = new /\ \A q \in Processes \ {p} : proc'[q] = proc[q]
<1>1. /\ proc' \in [Processes -> Process]
      /\ proc'[p] = new /\ \A q \in Processes \ {p} : proc'[q] = proc[q]
  BY DEF IInv, TypeOK
<1>2. Programs'
  BY <1>1 DEF IInv, Programs, Processes
<1>3. Beat \in Processes
  BY DEF Processes
<1>4. BeatOnlyKills'
  BY <1>1, <1>3 DEF IInv, BeatOnlyKills
<1> QED
  BY <1>1, <1>2, <1>4

(* The process that has nothing to do.                                     *)
LEMMA NoProcessTyped == NoProcess \in Process /\ Program(NoProcess.ops) /\ NoProcess.ops = <<>>
<1>1. Zero \in Amounts
  BY ConstantsAssumption DEF Zero, Amounts
<1>2. <<>> \in Seq(Operation)
  OBVIOUS
<1> QED
  BY <1>1, <1>2, EmptyProgram DEF NoProcess, Process

(* A program is a sequence of operations.                                  *)
LEMMA ProgramOperations == ASSUME NEW ops, Program(ops) PROVE ops \in Seq(Operation)
<1>1. ops \in Seq(ProperOp) /\ ProperOp \subseteq Operation
  BY DEF Program, ProperOp
<1> QED
  BY <1>1

(* The state of p when its first operation is done.                        *)
LEMMA AdvancedProgram ==
  ASSUME IInv, NEW p \in Processes, Busy(p), proc' = Advanced(p)
  PROVE  /\ proc' \in [Processes -> Process] /\ Programs' /\ BeatOnlyKills'
         /\ proc'[p].ops = Tail(proc[p].ops)
         /\ \A q \in Processes \ {p} : proc'[q] = proc[q]
<1> DEFINE ops == proc[p].ops
           new == IF Len(ops) = 1 THEN NoProcess ELSE [proc[p] EXCEPT !.ops = Tail(ops)]
<1>1. proc[p] \in Process /\ Program(ops) /\ ops # <<>>
  BY DEF IInv, TypeOK, Programs, Busy
<1>2. /\ Program(Tail(ops)) /\ Len(Tail(ops)) = Len(ops) - 1
      /\ \A i \in 1 .. Len(ops) - 1 : Tail(ops)[i] = ops[i + 1]
  BY <1>1, TailProgram
<1>3. ops \in Seq(ProperOp) /\ Tail(ops) \in Seq(ProperOp)
  BY <1>1, <1>2 DEF Program
<1>4. Len(ops) = 1 => Tail(ops) = <<>>
  <2>1. \A s \in Seq(ProperOp) : Len(s) = 0 => s = <<>>
    BY EmptySeq
  <2>2. Len(ops) = 1 => Len(Tail(ops)) = 0
    BY <1>2
  <2> QED
    BY <1>3, <2>1, <2>2
<1>5. Tail(ops) \in Seq(Operation)
  BY <1>2, ProgramOperations
<1>6. new \in Process /\ new.ops = Tail(ops)
  <2>1. CASE Len(ops) = 1
    BY <1>4, <2>1, NoProcessTyped
  <2>2. CASE Len(ops) # 1
    BY <1>1, <1>5, <2>2 DEF Process
  <2> QED
    BY <2>1, <2>2
<1>7. p = Beat => \A i \in 1 .. Len(new.ops) : new.ops[i].do \in {"start", "kill"}
  <2>1. Len(ops) \in Nat
    BY <1>3
  <2>2. p = Beat => \A i \in 1 .. Len(ops) : ops[i].do \in {"start", "kill"}
    BY DEF IInv, BeatOnlyKills
  <2>3. \A i \in 1 .. Len(ops) - 1 : i + 1 \in 1 .. Len(ops)
    BY <2>1
  <2> HIDE DEF ops, new
  <2> QED
    BY <1>2, <1>6, <2>1, <2>2, <2>3
<1>8. proc' = [proc EXCEPT ![p] = new]
  BY DEF Advanced
<1> HIDE DEF new
<1> QED
  BY <1>2, <1>6, <1>7, <1>8, NewProgram

(* The first operation of a process that has one.                          *)
LEMMA FirstOp ==
  ASSUME IInv, NEW p \in Processes, Busy(p)
  PROVE  /\ Len(proc[p].ops) >= 1 /\ Len(proc[p].ops) \in Nat
         /\ Head(proc[p].ops) = proc[p].ops[1]
         /\ proc[p].ops[1] \in ProperOp
<1>1. proc[p].ops \in Seq(ProperOp) /\ proc[p].ops # <<>>
  BY DEF IInv, Programs, Program, Busy
<1> QED
  BY <1>1

(* The kind that an operation is about.                                    *)
LEMMA KindOfOp ==
  ASSUME IInv, NEW p \in Processes, Busy(p),
         proc[p].ops[1].do \in {"scale", "kill", "set", "start"}
  PROVE  KindAt(p) \in Kinds /\ proc[p].ops[1].kinds = {KindAt(p)}
  BY FirstOp DEF ProperOp, KindAt

(* An operation that does not save leaves the one that will.               *)
LEMMA StillAhead ==
  ASSUME IInv, NEW p \in Processes, Busy(p), proc' = Advanced(p),
         proc[p].ops[1].do \notin Saving,
         conf'.restore = conf.restore, saved'.restore = saved.restore
  PROVE  SaveAhead'
<1>1. CASE saved.restore = conf.restore
  BY <1>1 DEF SaveAhead
<1>2. CASE \E r \in Reqs : WillSave(r)
  <2>1. PICK r \in Reqs : WillSave(r)
    BY <1>2
  <2>2. PICK i \in 1 .. Len(proc[r].ops) : proc[r].ops[i].do \in Saving
    BY <2>1 DEF WillSave
  <2>3. CASE r # p
    BY <2>2, <2>3, AdvancedProgram DEF SaveAhead, WillSave, Processes
  <2>4. CASE r = p
    <3>1. /\ Len(proc[p].ops) \in Nat
          /\ Program(proc[p].ops) /\ proc[p].ops # <<>>
      BY FirstOp DEF IInv, Programs, Busy
    <3>2. i # 1 /\ i - 1 \in 1 .. Len(proc[p].ops) - 1 /\ (i - 1) + 1 = i
      BY <2>2, <2>4, <3>1
    <3>3. /\ Tail(proc[p].ops)[i - 1] = proc[p].ops[(i - 1) + 1]
          /\ Len(Tail(proc[p].ops)) = Len(proc[p].ops) - 1
      BY <3>1, <3>2, TailProgram
    <3>4. proc'[p].ops[i - 1].do \in Saving /\ i - 1 \in 1 .. Len(proc'[p].ops)
      BY <2>2, <2>4, <3>2, <3>3, AdvancedProgram
    <3> QED
      BY <2>4, <3>4 DEF SaveAhead, WillSave
  <2> QED
    BY <2>3, <2>4
<1> QED
  BY <1>1, <1>2 DEF IInv, SaveAhead

(* A request in progress has an operation to do, and Quiet is its absence. *)
LEMMA NotQuiet == ASSUME NEW r \in Reqs, WillSave(r), IInv PROVE Busy(r)
<1>1. proc[r].ops = <<>> => Len(proc[r].ops) = 0
  BY EmptyProgram
<1> QED
  BY <1>1 DEF WillSave, Busy

-----------------------------------------------------------------------------
(* Steps                                                                   *)

(* The inductive invariant holds at the first start.                       *)
THEOREM InitInv == Init => IInv
<1> SUFFICES ASSUME Init PROVE IInv
  OBVIOUS
<1>1. TypeOK
  <2>1. conf \in Config
    BY ConstantsAssumption DEF Init, Config, Amounts, Zero
  <2>2. proc \in [Processes -> Process]
    BY NoProcessTyped DEF Init
  <2> QED
    BY <2>1, <2>2, ConstantsAssumption DEF Init, TypeOK
<1>2. Programs
  BY NoProcessTyped DEF Init, Programs
<1>3. BeatOnlyKills
  <2>1. proc[Beat].ops = <<>>
    BY NoProcessTyped DEF Init, Processes
  <2> QED
    BY <2>1, EmptyProgram DEF BeatOnlyKills
<1>4. SaveAhead
  BY DEF Init, SaveAhead
<1> QED
  BY <1>1, <1>2, <1>3, <1>4 DEF IInv

(* A request arrives.                                                      *)
LEMMA ArriveInv ==
  ASSUME IInv, NEW r \in Reqs, NEW name \in Requests, NEW ops,
         Program(ops), ops # <<>>, Arrive(r, name, ops)
  PROVE  IInv'
<1>1. r \in Processes /\ r # Beat /\ Beat \in Processes
  BY ConstantsAssumption DEF Processes
<1>2. \A p \in Processes : proc'[p].ops = IF p = r THEN ops ELSE proc[p].ops
  <2> SUFFICES ASSUME NEW p \in Processes
               PROVE  proc'[p].ops = IF p = r THEN ops ELSE proc[p].ops
    OBVIOUS
  <2>1. proc[p] \in Process
    BY DEF IInv, TypeOK
  <2>2. CASE p = r
    BY <2>2 DEF Arrive
  <2>3. CASE p # r
    <3>1. proc'[p] = [proc[p] EXCEPT !.alone = FALSE, !.before = Zero]
      BY <2>3 DEF Arrive
    <3> QED
      BY <2>1, <2>3, <3>1 DEF Process
  <2> QED
    BY <2>2, <2>3
<1>3. proc' \in [Processes -> Process]
  <2> SUFFICES ASSUME NEW p \in Processes PROVE proc'[p] \in Process
    BY DEF Arrive
  <2>1. CASE p = r
    <3>1. Zero \in Amounts /\ conf.max \in Amounts
      BY ConstantsAssumption DEF IInv, TypeOK, Config, Zero, Amounts
    <3>2. Quiet \in BOOLEAN
      BY DEF Quiet
    <3>3. ops \in Seq(Operation)
      BY ProgramOperations
    <3>4. (IF Quiet THEN conf.max ELSE Zero) \in Amounts
      BY <3>1
    <3>5. proc'[p] = [name |-> name, ops |-> ops, todo |-> {}, alone |-> Quiet,
                      before |-> IF Quiet THEN conf.max ELSE Zero]
      BY <2>1 DEF Arrive
    <3> HIDE DEF Quiet
    <3> QED
      BY <3>2, <3>3, <3>4, <3>5 DEF Process
  <2>2. CASE p # r
    <3>1. Zero \in Amounts
      BY ConstantsAssumption DEF Zero, Amounts
    <3>2. proc'[p] = [proc[p] EXCEPT !.alone = FALSE, !.before = Zero]
      BY <2>2 DEF Arrive
    <3> QED
      BY <3>1, <3>2 DEF IInv, TypeOK, Process
  <2> QED
    BY <2>1, <2>2
<1>4. TypeOK'
  BY <1>3 DEF Arrive, IInv, TypeOK
<1>5. Programs'
  BY <1>2 DEF IInv, Programs
<1>6. BeatOnlyKills'
  BY <1>1, <1>2 DEF IInv, BeatOnlyKills
<1>7. SaveAhead'
  <2>1. CASE saved.restore = conf.restore
    BY <2>1 DEF Arrive, SaveAhead
  <2>2. ASSUME NEW q \in Reqs, WillSave(q) PROVE SaveAhead'
    <3>1. q # r
      BY <2>2, NotQuiet DEF Arrive
    <3>2. proc'[q].ops = proc[q].ops
      BY <1>2, <3>1 DEF Processes
    <3> QED
      BY <2>2, <3>2 DEF SaveAhead, WillSave
  <2> QED
    BY <2>1, <2>2 DEF IInv, SaveAhead
<1> QED
  BY <1>4, <1>5, <1>6, <1>7 DEF IInv

(* A request for any number, of any kind.                                  *)
LEMMA RequestInv == ASSUME IInv, NEW r \in Reqs, Request(r) PROVE IInv'
<1>1. ASSUME NEW name \in Requests \ {"scale"}, Arrive(r, name, Handler(name)) PROVE IInv'
  BY <1>1, Handlers, ArriveInv
<1>2. ASSUME NEW k \in Kinds, NEW n \in 0 .. Limit, Arrive(r, "scale", <<ScaleTo(k, n)>>)
      PROVE  IInv'
  <2>1. ScaleTo(k, n) \in ProperOp
    BY ProperOps, ConstantsAssumption DEF Restored
  <2>2. Program(<<ScaleTo(k, n)>>) /\ <<ScaleTo(k, n)>> # <<>>
    BY <2>1, Does, OneOp
  <2> QED
    BY <1>2, <2>2, ArriveInv DEF Requests
<1> QED
  BY <1>1, <1>2 DEF Request

(* The numbers are remembered: they will be saved.                         *)
LEMMA RememberInv == ASSUME IInv, NEW p \in Processes, DoRemember(p) PROVE IInv'
<1>1. Busy(p) /\ proc[p].ops[1].do = "remember" /\ proc' = Advanced(p)
  BY FirstOp DEF DoRemember, At
<1>2. proc' \in [Processes -> Process] /\ Programs' /\ BeatOnlyKills'
  BY <1>1, AdvancedProgram
<1>3. conf' \in Config
  <2>1. conf.max \in Amounts /\ conf.restore \in Amounts
    BY DEF IInv, TypeOK, Config
  <2>2. PICK K : conf' = IF \A k \in K : conf.max[k] # 0
                         THEN [conf EXCEPT !.restore = [k \in Kinds |->
                                 IF k \in K THEN conf.max[k] ELSE conf.restore[k]]]
                         ELSE conf
    BY DEF DoRemember
  <2>3. [k \in Kinds |-> IF k \in K THEN conf.max[k] ELSE conf.restore[k]] \in Amounts
    BY <2>1 DEF Amounts
  <2>4. conf \in Config
    BY DEF IInv, TypeOK
  <2> QED
    BY <2>2, <2>3, <2>4 DEF Config
<1>4. TypeOK'
  BY <1>2, <1>3 DEF DoRemember, IInv, TypeOK
<1>5. SaveAhead'
  <2>1. p \in Reqs
    <3>1. 1 \in 1 .. Len(proc[p].ops)
      BY <1>1, FirstOp
    <3> QED
      BY <1>1, <3>1 DEF IInv, BeatOnlyKills, Processes
  <2>2. Program(proc[p].ops) /\ proc[p].ops # <<>>
    BY <1>1 DEF IInv, Programs, Busy
  <2>3. Len(proc[p].ops) >= 2 /\ proc[p].ops[2].do \in Saving
    BY <1>1, <2>2 DEF Program
  <2>4. /\ Len(Tail(proc[p].ops)) = Len(proc[p].ops) - 1
        /\ \A i \in 1 .. Len(proc[p].ops) - 1 : Tail(proc[p].ops)[i] = proc[p].ops[i + 1]
    BY <2>2, TailProgram
  <2>5. Len(proc[p].ops) \in Nat
    BY <1>1, FirstOp
  <2>6. 1 \in 1 .. Len(Tail(proc[p].ops)) /\ Tail(proc[p].ops)[1].do \in Saving
    BY <2>3, <2>4, <2>5
  <2> QED
    BY <1>1, <2>1, <2>6, AdvancedProgram DEF SaveAhead, WillSave
<1> QED
  BY <1>2, <1>4, <1>5 DEF IInv

(* Operations that change no configuration and save nothing.               *)
LEMMA PassiveInv ==
  ASSUME IInv, NEW p \in Processes, Busy(p), proc[p].ops[1].do \notin Saving,
         proc' = Advanced(p), UNCHANGED <<conf, saved, faults>>,
         task' \in [Tasks -> {"none", "run", "doomed"}]
  PROVE  IInv'
<1>1. TypeOK'
  BY AdvancedProgram DEF IInv, TypeOK
<1> QED
  BY <1>1, AdvancedProgram, StillAhead DEF IInv

(* The configuration is saved.                                             *)
LEMMA SaveInv == ASSUME IInv, NEW p \in Processes, DoSave(p) PROVE IInv'
<1>1. Busy(p) /\ proc' = Advanced(p) /\ saved' = conf /\ UNCHANGED <<conf, task, faults>>
  BY DEF DoSave, At
<1>2. TypeOK' /\ SaveAhead'
  BY <1>1, AdvancedProgram DEF IInv, TypeOK, SaveAhead
<1> QED
  BY <1>1, <1>2, AdvancedProgram DEF IInv

(* Scale begins: what was one operation is two.                            *)
LEMMA ScaleBeginProc ==
  ASSUME IInv, NEW p \in Processes, ScaleBegin(p)
  PROVE  /\ proc' \in [Processes -> Process] /\ Programs' /\ BeatOnlyKills'
         /\ \A q \in Processes \ {p} : proc'[q] = proc[q]
         /\ LET k == KindAt(p)
                n == IF proc[p].ops[1].to = Restored THEN conf.restore[k]
                     ELSE proc[p].ops[1].to
            IN /\ n \in 0 .. Limit
               /\ proc'[p].ops = <<[Op("kill", {k}, n) EXCEPT !.old = conf.max[k]],
                                   Op("set", {k}, n)>> \o Tail(proc[p].ops)
<1> DEFINE k == KindAt(p)
           n == IF proc[p].ops[1].to = Restored THEN conf.restore[k] ELSE proc[p].ops[1].to
           kill == [Op("kill", {k}, n) EXCEPT !.old = conf.max[k]]
           set == Op("set", {k}, n)
           ops == <<kill, set>> \o Tail(proc[p].ops)
           new == [proc[p] EXCEPT !.ops = ops, !.todo = RecordsOf(k)]
<1>1. Busy(p) /\ proc[p].ops[1].do = "scale"
  BY FirstOp DEF ScaleBegin, At
<1>2. k \in Kinds
  BY <1>1, KindOfOp
<1>3. n \in 0 .. Limit
  <2>1. proc[p].ops[1].to \in 0 .. Restored
    BY <1>1, FirstOp DEF ProperOp, Operation
  <2>2. conf.restore[k] \in 0 .. Limit
    BY <1>2 DEF IInv, TypeOK, Config, Amounts
  <2> QED
    BY <2>1, <2>2, ConstantsAssumption DEF Restored
<1>4. conf.max[k] \in Int
  BY <1>2, ConstantsAssumption DEF IInv, TypeOK, Config, Amounts
<1>5. kill \in ProperOp /\ set \in ProperOp /\ kill.do = "kill" /\ set.do = "set"
  <2> HIDE DEF k, n
  <2>1. n \in 0 .. Restored
    BY <1>3, ConstantsAssumption DEF Restored
  <2> QED
    BY <1>2, <1>3, <1>4, <2>1 DEF ProperOp, Operation, Op
<1>6. Program(Tail(proc[p].ops))
      /\ \A i \in 1 .. Len(Tail(proc[p].ops)) : Tail(proc[p].ops)[i].do # "remember"
  BY <1>1, TailProgram DEF IInv, Programs, Busy
<1>7. Program(ops)
  <2> HIDE DEF kill, set
  <2>1. Program(<<kill, set>>)
    BY <1>5 DEF Program
  <2> QED
    BY <1>6, <2>1, JoinedProgram DEF Program
<1>8. RecordsOf(k) \subseteq Tasks
  BY DEF RecordsOf, OfKind
<1>9. new \in Process /\ new.ops = ops
  <2>1. ops \in Seq(Operation)
    BY <1>7, ProgramOperations
  <2>2. proc[p] \in Process
    BY DEF IInv, TypeOK
  <2> HIDE DEF ops
  <2> QED
    BY <1>8, <2>1, <2>2 DEF Process
<1>10. p # Beat
  <2>1. 1 \in 1 .. Len(proc[p].ops)
    BY <1>1, FirstOp
  <2> QED
    BY <1>1, <2>1 DEF IInv, BeatOnlyKills
<1>11. proc' = [proc EXCEPT ![p] = new]
  BY <1>1, FirstOp DEF ScaleBegin
<1> HIDE DEF new, ops, kill, set, n, k
<1>12. /\ proc' \in [Processes -> Process] /\ Programs' /\ BeatOnlyKills'
       /\ proc'[p] = new /\ \A q \in Processes \ {p} : proc'[q] = proc[q]
  BY <1>7, <1>9, <1>10, <1>11, NewProgram
<1> QED
  BY <1>3, <1>9, <1>12 DEF ops, kill, set, n, k

LEMMA ScaleBeginInv == ASSUME IInv, NEW p \in Processes, ScaleBegin(p) PROVE IInv'
<1>1. /\ proc' \in [Processes -> Process] /\ Programs' /\ BeatOnlyKills'
  BY ScaleBeginProc
<1>2. TypeOK' /\ SaveAhead'
  BY <1>1 DEF ScaleBegin, IInv, TypeOK, SaveAhead
<1> QED
  BY <1>1, <1>2 DEF IInv

(* One record of Scale: the first operation changes its count only.        *)
LEMMA ScaleTaskProc ==
  ASSUME IInv, NEW p \in Processes, NEW t \in Tasks, ScaleTask(p, t)
  PROVE  /\ proc' \in [Processes -> Process] /\ Programs' /\ BeatOnlyKills'
         /\ \A q \in Processes \ {p} : proc'[q] = proc[q]
         /\ Len(proc'[p].ops) = Len(proc[p].ops)
         /\ \A i \in 1 .. Len(proc[p].ops) :
              /\ proc'[p].ops[i].do = proc[p].ops[i].do
              /\ proc'[p].ops[i].kinds = proc[p].ops[i].kinds
              /\ proc'[p].ops[i].to = proc[p].ops[i].to
<1> DEFINE ops == proc[p].ops
           first == [ops[1] EXCEPT !.old = ops[1].old - 1]
           new == [proc[p] EXCEPT !.todo = proc[p].todo \ {t}, !.ops = [ops EXCEPT ![1] = first]]
<1>1. Busy(p) /\ ops[1].do = "kill"
  BY FirstOp DEF ScaleTask, At
<1>2. ops \in Seq(ProperOp) /\ Program(ops) /\ Len(ops) \in Nat /\ Len(ops) >= 1
  BY <1>1, FirstOp DEF IInv, Programs, Program
<1>3. ops[1] \in ProperOp
  BY <1>1, FirstOp
<1>4. /\ first \in ProperOp
      /\ first.do = ops[1].do /\ first.kinds = ops[1].kinds /\ first.to = ops[1].to
  <2> HIDE DEF ops
  <2>1. ops[1].old - 1 \in Int
    BY <1>3 DEF ProperOp, Operation
  <2> QED
    BY <1>3, <2>1 DEF ProperOp, Operation
<1> DEFINE changed == [ops EXCEPT ![1] = first]
<1>5. /\ changed \in Seq(ProperOp) /\ Len(changed) = Len(ops)
      /\ changed[1] = first /\ \A i \in 1 .. Len(ops) : i # 1 => changed[i] = ops[i]
  <2> HIDE DEF ops, first
  <2> QED
    BY <1>2, <1>4
<1>6. \A i \in 1 .. Len(ops) : /\ changed[i].do = ops[i].do
                               /\ changed[i].kinds = ops[i].kinds
                               /\ changed[i].to = ops[i].to
  <2> HIDE DEF changed, ops, first
  <2> QED
    BY <1>4, <1>5
<1>7. Program(changed)
  <2>1. 1 \in 1 .. Len(ops)
    BY <1>2
  <2>2. \A i \in 2 .. Len(changed) : i \in 1 .. Len(ops)
    BY <1>2, <1>5
  <2>3. changed[1].do # "remember"
    BY <1>1, <1>6, <2>1
  <2> HIDE DEF changed, ops, first
  <2> QED
    BY <1>2, <1>5, <1>6, <2>2, <2>3 DEF Program
<1>8. new \in Process /\ new.ops = changed
  <2>1. changed \in Seq(Operation)
    BY <1>7, ProgramOperations
  <2>2. proc[p] \in Process
    BY DEF IInv, TypeOK
  <2> HIDE DEF changed
  <2>3. [proc[p] EXCEPT !.todo = proc[p].todo \ {t}, !.ops = changed] \in Process
    BY <2>1, <2>2 DEF Process
  <2>4. [proc[p] EXCEPT !.todo = proc[p].todo \ {t}, !.ops = changed].ops = changed
    BY <2>2 DEF Process
  <2> QED
    BY <2>3, <2>4 DEF changed
<1>9. proc' = [proc EXCEPT ![p] = new]
  BY DEF ScaleTask
<1>10. p = Beat => \A i \in 1 .. Len(new.ops) : new.ops[i].do \in {"start", "kill"}
  BY <1>5, <1>6, <1>8 DEF IInv, BeatOnlyKills
<1> HIDE DEF new, changed, first
<1>11. /\ proc' \in [Processes -> Process] /\ Programs' /\ BeatOnlyKills'
       /\ proc'[p] = new /\ \A q \in Processes \ {p} : proc'[q] = proc[q]
  BY <1>7, <1>8, <1>9, <1>10, NewProgram
<1> QED
  BY <1>5, <1>6, <1>8, <1>11

LEMMA ScaleTaskInv ==
  ASSUME IInv, NEW p \in Processes, NEW t \in Tasks, ScaleTask(p, t) PROVE IInv'
<1>1. /\ proc' \in [Processes -> Process] /\ Programs' /\ BeatOnlyKills'
      /\ \A q \in Processes \ {p} : proc'[q] = proc[q]
      /\ Len(proc'[p].ops) = Len(proc[p].ops)
      /\ \A i \in 1 .. Len(proc[p].ops) : proc'[p].ops[i].do = proc[p].ops[i].do
  BY ScaleTaskProc
<1>2. task' \in [Tasks -> {"none", "run", "doomed"}] /\ faults' \in 0 .. MaxFaults
  <2>1. CASE Kill(t)
    BY <2>1, ConstantsAssumption DEF Kill, IInv, TypeOK
  <2>2. CASE UNCHANGED <<task, faults>>
    BY <2>2 DEF IInv, TypeOK
  <2> QED
    BY <2>1, <2>2 DEF ScaleTask
<1>3. TypeOK'
  BY <1>1, <1>2 DEF ScaleTask, IInv, TypeOK
<1>4. SaveAhead'
  <2>1. \A q \in Reqs : WillSave(q) => WillSave(q)'
    BY <1>1 DEF WillSave, Processes
  <2> QED
    BY <2>1 DEF ScaleTask, IInv, SaveAhead
<1> QED
  BY <1>1, <1>3, <1>4 DEF IInv

(* The new number is stored.                                               *)
LEMMA ScaleSetInv == ASSUME IInv, NEW p \in Processes, ScaleSet(p) PROVE IInv'
<1>1. Busy(p) /\ proc[p].ops[1].do = "set" /\ proc' = Advanced(p)
  BY FirstOp DEF ScaleSet, At
<1>2. proc[p].ops[1].to \in 0 .. Limit
  BY <1>1, FirstOp DEF ProperOp
<1>3. conf' = [conf EXCEPT !.max = [conf.max EXCEPT ![KindAt(p)] = proc[p].ops[1].to]]
  BY <1>1, FirstOp DEF ScaleSet
<1>4. conf' \in Config /\ conf'.restore = conf.restore
  <2>1. conf \in Config /\ conf.max \in Amounts
    BY DEF IInv, TypeOK, Config
  <2>2. [conf.max EXCEPT ![KindAt(p)] = proc[p].ops[1].to] \in Amounts
    BY <1>2, <2>1 DEF Amounts
  <2> QED
    BY <1>3, <2>1, <2>2 DEF Config
<1>5. TypeOK'
  BY <1>1, <1>4, AdvancedProgram DEF ScaleSet, IInv, TypeOK
<1>6. SaveAhead'
  BY <1>1, <1>4, StillAhead DEF ScaleSet, Saving
<1> QED
  BY <1>1, <1>5, <1>6, AdvancedProgram DEF IInv

(* A pass of Heartbeat begins to start one, or to scale down.              *)
LEMMA BeatCountInv == ASSUME IInv, NEW k \in Kinds, BeatCount(k) PROVE IInv'
<1>1. Beat \in Processes /\ Beat \notin Reqs /\ proc[Beat] \in Process
  BY ConstantsAssumption DEF Processes, IInv, TypeOK
<1>2. PICK op \in ProperOp, todo \in SUBSET Tasks :
        /\ op.do \in {"start", "kill"}
        /\ proc' = [proc EXCEPT ![Beat] = [proc[Beat] EXCEPT !.ops = <<op>>, !.todo = todo]]
  <2>1. CASE proc' = [proc EXCEPT ![Beat].ops = <<Op("start", {k}, 0)>>]
    <3>1. Op("start", {k}, 0) \in ProperOp /\ Op("start", {k}, 0).do = "start"
      BY ProperOps DEF Op
    <3>2. proc[Beat].todo \in SUBSET Tasks
      BY <1>1 DEF Process
    <3>3. proc' = [proc EXCEPT ![Beat] = [proc[Beat] EXCEPT !.ops = <<Op("start", {k}, 0)>>,
                                                             !.todo = proc[Beat].todo]]
      BY <1>1, <2>1 DEF Process
    <3> QED
      BY <3>1, <3>2, <3>3
  <2>2. CASE proc' = [proc EXCEPT
                       ![Beat].ops = <<[Op("kill", {k}, conf.max[k]) EXCEPT !.old = Count(k)]>>,
                       ![Beat].todo = RecordsOf(k)]
    <3>1. conf.max[k] \in 0 .. Limit
      BY DEF IInv, TypeOK, Config, Amounts
    <3> DEFINE op == [Op("kill", {k}, conf.max[k]) EXCEPT !.old = Count(k)]
    <3>2. op \in ProperOp /\ op.do = "kill"
      <4>1. Count(k) \in Int
        <5>1. RecordsOf(k) \subseteq Tasks /\ IsFiniteSet(Tasks)
          BY ConstantsAssumption DEF RecordsOf, OfKind
        <5> QED
          BY <5>1, FS_Subset, FS_CardinalityType DEF Count
      <4> QED
        BY <3>1, <4>1, ConstantsAssumption DEF ProperOp, Operation, Op, Restored
    <3>3. RecordsOf(k) \in SUBSET Tasks
      BY DEF RecordsOf, OfKind
    <3> QED
      BY <2>2, <3>2, <3>3
  <2> QED
    BY <2>1, <2>2 DEF BeatCount
<1> DEFINE new == [proc[Beat] EXCEPT !.ops = <<op>>, !.todo = todo]
<1>3. Program(<<op>>) /\ <<op>> \in Seq(Operation)
  BY <1>2, OneOp, ProgramOperations
<1>4. new \in Process /\ new.ops = <<op>>
  BY <1>1, <1>3 DEF Process
<1>5. \A i \in 1 .. Len(new.ops) : new.ops[i].do \in {"start", "kill"}
  BY <1>2, <1>4
<1> HIDE DEF new
<1>6. /\ proc' \in [Processes -> Process] /\ Programs' /\ BeatOnlyKills'
      /\ \A q \in Processes \ {Beat} : proc'[q] = proc[q]
  BY <1>1, <1>2, <1>3, <1>4, <1>5, NewProgram DEF new
<1>7. TypeOK'
  BY <1>6 DEF BeatCount, IInv, TypeOK
<1>8. SaveAhead'
  <2>1. \A r \in Reqs : WillSave(r) => WillSave(r)'
    BY <1>1, <1>6 DEF WillSave, Processes
  <2>2. saved' = conf \/ saved' = saved
    BY DEF BeatCount
  <2> QED
    BY <2>1, <2>2 DEF BeatCount, IInv, SaveAhead
<1> QED
  BY <1>6, <1>7, <1>8 DEF IInv

(* Updates of the event loop, which saves the configuration.               *)
LEMMA UpdateInv ==
  ASSUME IInv, UNCHANGED <<conf, proc>>, saved' = conf,
         task' \in [Tasks -> {"none", "run", "doomed"}], faults' \in 0 .. MaxFaults
  PROVE  IInv'
<1>1. TypeOK' /\ SaveAhead'
  BY DEF IInv, TypeOK, SaveAhead
<1>2. Programs' /\ BeatOnlyKills'
  BY DEF IInv, Programs, BeatOnlyKills
<1> QED
  BY <1>1, <1>2 DEF IInv

(* A new process starts from what is saved.                                *)
LEMMA CrashInv == ASSUME IInv, Crash PROVE IInv'
<1>1. \A p \in Processes : proc'[p] = NoProcess
  BY DEF Crash
<1>2. TypeOK'
  BY NoProcessTyped, ConstantsAssumption DEF Crash, IInv, TypeOK
<1>3. Programs'
  BY <1>1, NoProcessTyped DEF Programs
<1>4. BeatOnlyKills'
  <2>1. proc'[Beat].ops = <<>>
    BY <1>1, NoProcessTyped DEF Processes
  <2> QED
    BY <2>1, EmptyProgram DEF BeatOnlyKills
<1>5. SaveAhead'
  BY DEF Crash, SaveAhead
<1> QED
  BY <1>2, <1>3, <1>4, <1>5 DEF IInv

(* Every step keeps the inductive invariant.                               *)
THEOREM StepInv == IInv /\ [Next]_vars => IInv'
<1> SUFFICES ASSUME IInv, [Next]_vars PROVE IInv'
  OBVIOUS
<1>1. ASSUME NEW r \in Reqs, Request(r) PROVE IInv'
  BY <1>1, RequestInv
<1>2. ASSUME NEW p \in Processes, Step(p) PROVE IInv'
  <2>1. CASE DoRemember(p)
    BY <2>1, RememberInv
  <2>2. CASE DoSave(p)
    BY <2>2, SaveInv
  <2>3. CASE ScaleBegin(p)
    BY <2>3, ScaleBeginInv
  <2>4. CASE ScaleEnd(p)
    BY <2>4, FirstOp, PassiveInv DEF ScaleEnd, At, Saving, IInv, TypeOK
  <2>5. CASE ScaleSet(p)
    BY <2>5, ScaleSetInv
  <2>6. CASE DoWait(p)
    BY <2>6, FirstOp, PassiveInv DEF DoWait, At, Saving, IInv, TypeOK
  <2>7. ASSUME NEW t \in Tasks, ScaleTask(p, t) PROVE IInv'
    BY <2>7, ScaleTaskInv
  <2> QED
    BY <1>2, <2>1, <2>2, <2>3, <2>4, <2>5, <2>6, <2>7 DEF Step
<1>3. ASSUME NEW k \in Kinds, BeatCount(k) PROVE IInv'
  BY <1>3, BeatCountInv
<1>4. CASE BeatStart
  <2>1. Beat \in Processes /\ Busy(Beat) /\ proc[Beat].ops[1].do = "start"
    BY <1>4, FirstOp DEF BeatStart, At, Processes
  <2>2. task' \in [Tasks -> {"none", "run", "doomed"}]
    BY <1>4 DEF BeatStart, IInv, TypeOK
  <2> QED
    BY <1>4, <2>1, <2>2, PassiveInv DEF BeatStart, Saving
<1>5. ASSUME NEW t \in Tasks, TaskGone(t) \/ TaskReports(t) \/ TaskFails(t) PROVE IInv'
  <2>1. /\ UNCHANGED <<conf, proc>> /\ saved' = conf
        /\ task' \in [Tasks -> {"none", "run", "doomed"}]
        /\ faults' \in 0 .. MaxFaults
    BY <1>5, ConstantsAssumption DEF TaskGone, TaskReports, TaskFails, IInv, TypeOK
  <2> QED
    BY <2>1, UpdateInv
<1>6. CASE Crash
  BY <1>6, CrashInv
<1>7. CASE UNCHANGED vars
  BY <1>7 DEF vars, IInv, TypeOK, Config, Programs, BeatOnlyKills, SaveAhead, WillSave
<1> QED
  BY <1>1, <1>2, <1>3, <1>4, <1>5, <1>6, <1>7 DEF Next

(* The inductive invariant holds in every reachable state.                 *)
THEOREM Invariance == Spec => []IInv
  BY InitInv, StepInv, PTL DEF Spec

-----------------------------------------------------------------------------
(* Results for all requests                                                *)

(* The configuration, the records and the programs of the requests keep    *)
(* their types, whichever requests, passes and crashes overlap.            *)
THEOREM TypeCorrect == Spec => []TypeOK
<1>1. IInv => TypeOK
  BY DEF IInv
<1> QED
  BY <1>1, Invariance, PTL

(* Between requests, a new process would restore the same numbers as this  *)
(* one: every handler that remembers numbers saves them in a later step.   *)
THEOREM RestoreNumbersDurable == Spec => []RestoreDurable
<1>1. IInv => RestoreDurable
  BY NotQuiet DEF IInv, SaveAhead, RestoreDurable, Quiet
<1> QED
  BY <1>1, Invariance, PTL

-----------------------------------------------------------------------------
(* Requests that stop and start the whole cluster                          *)

(* All requests are for the whole cluster, all of which is wanted.         *)
WholeCluster == Menu \subseteq Whole /\ \A k \in Kinds : Wanted[k] # 0

(* A number is the first one or 0, and then all the first ones are         *)
(* remembered.                                                             *)
Numbers(c) ==
  /\ \A k \in Kinds : c.max[k] \in {0, Wanted[k]}
  /\ c.restore \in {Zero, Wanted}
  /\ \A k \in Kinds : c.max[k] = 0 => c.restore = Wanted

WholeOp(op) ==
  /\ op.do = "remember" => op.kinds = Kinds
  /\ op.do = "scale" => op.to \in {0, Restored}
  /\ op.do = "set" => \A k \in op.kinds : op.to \in {0, Wanted[k]}
WholeOpsOnly == \A r \in Reqs : \A i \in 1 .. Len(proc[r].ops) : WholeOp(proc[r].ops[i])

(* A request that is going to change a number, and not to remember first,  *)
(* relies on the numbers that are remembered.                              *)
WillChange(r) ==
  /\ proc[r].ops[1].do # "remember"
  /\ \E i \in 1 .. Len(proc[r].ops) : proc[r].ops[i].do \in {"scale", "set"}
Relied == \A r \in Reqs : WillChange(r) => conf.restore = Wanted

NInv == IInv /\ Numbers(conf) /\ Numbers(saved) /\ WholeOpsOnly /\ Relied

(* A request is not Heartbeat's pass.                                      *)
LEMMA ReqsProcesses == Reqs \subseteq Processes /\ Beat \in Processes /\ Beat \notin Reqs
  BY ConstantsAssumption DEF Processes

(* What one process does leaves the programs of the others alone.          *)
LEMMA OthersWhole ==
  ASSUME NInv, NEW p \in Processes, \A q \in Processes \ {p} : proc'[q] = proc[q],
         conf'.restore = conf.restore \/ conf'.restore = Wanted
  PROVE  \A r \in Reqs \ {p} :
           /\ \A i \in 1 .. Len(proc'[r].ops) : WholeOp(proc'[r].ops[i])
           /\ WillChange(r)' => conf'.restore = Wanted
<1> SUFFICES ASSUME NEW r \in Reqs \ {p}
             PROVE  /\ \A i \in 1 .. Len(proc'[r].ops) : WholeOp(proc'[r].ops[i])
                    /\ WillChange(r)' => conf'.restore = Wanted
  OBVIOUS
<1>1. proc'[r] = proc[r]
  BY ReqsProcesses
<1>2. WillChange(r)' => WillChange(r)
  BY <1>1 DEF WillChange
<1> QED
  BY <1>1, <1>2 DEF NInv, WholeOpsOnly, Relied

(* p's first operation is done; it was not to remember, or the numbers are *)
(* remembered now.                                                         *)
LEMMA AdvancedWhole ==
  ASSUME NInv, NEW p \in Processes, Busy(p), proc' = Advanced(p),
         \/ proc[p].ops[1].do # "remember" /\ conf'.restore = conf.restore
         \/ conf'.restore = Wanted
  PROVE  WholeOpsOnly' /\ Relied'
<1>1. /\ proc'[p].ops = Tail(proc[p].ops)
      /\ \A q \in Processes \ {p} : proc'[q] = proc[q]
  BY AdvancedProgram DEF NInv
<1>2. Program(proc[p].ops) /\ proc[p].ops # <<>> /\ Len(proc[p].ops) \in Nat
  BY FirstOp DEF NInv, IInv, Programs, Busy
<1>3. /\ Len(Tail(proc[p].ops)) = Len(proc[p].ops) - 1
      /\ \A i \in 1 .. Len(proc[p].ops) - 1 : Tail(proc[p].ops)[i] = proc[p].ops[i + 1]
  BY <1>2, TailProgram
<1>4. ASSUME NEW i \in 1 .. Len(proc'[p].ops)
      PROVE  i + 1 \in 1 .. Len(proc[p].ops) /\ proc'[p].ops[i] = proc[p].ops[i + 1]
  BY <1>1, <1>2, <1>3
<1>5. ASSUME p \in Reqs
      PROVE  /\ \A i \in 1 .. Len(proc'[p].ops) : WholeOp(proc'[p].ops[i])
             /\ WillChange(p)' => conf'.restore = Wanted
  <2>1. \A i \in 1 .. Len(proc[p].ops) : WholeOp(proc[p].ops[i])
    BY <1>5 DEF NInv, WholeOpsOnly
  <2>2. ASSUME WillChange(p)', proc[p].ops[1].do # "remember" PROVE WillChange(p)
    <3>1. PICK i \in 1 .. Len(proc'[p].ops) : proc'[p].ops[i].do \in {"scale", "set"}
      BY <2>2 DEF WillChange
    <3> QED
      BY <1>4, <2>2, <3>1 DEF WillChange
  <2> QED
    BY <1>4, <1>5, <2>1, <2>2 DEF NInv, Relied
<1>6. \A r \in Reqs \ {p} :
        /\ \A i \in 1 .. Len(proc'[r].ops) : WholeOp(proc'[r].ops[i])
        /\ WillChange(r)' => conf'.restore = Wanted
  BY <1>1, OthersWhole
<1> QED
  BY <1>5, <1>6 DEF WholeOpsOnly, Relied

(* The numbers at the first start are those that are wanted.               *)
THEOREM InitWhole == WholeCluster /\ Init => NInv
<1> SUFFICES ASSUME WholeCluster, Init PROVE NInv
  OBVIOUS
<1>1. IInv
  BY InitInv
<1>2. Numbers(conf) /\ Numbers(saved)
  BY DEF Init, Numbers, WholeCluster
<1>3. \A r \in Reqs : Len(proc[r].ops) = 0
  BY NoProcessTyped, EmptyProgram DEF Init, Processes
<1> QED
  BY <1>1, <1>2, <1>3 DEF NInv, WholeOpsOnly, Relied, WillChange

(* A request begins by remembering, or some number is 0, or it changes     *)
(* none.                                                                   *)
LEMMA ArriveWhole ==
  ASSUME WholeCluster, NInv, NEW r \in Reqs, Request(r) PROVE WholeOpsOnly' /\ Relied'
<1>1. PICK name \in Whole : Arrive(r, name, Handler(name))
  BY DEF Request, Arrive, WholeCluster, Whole
<1>2. Handler(name) \in Seq(WholeOps)
  BY WholeHandlers
<1>3. \A q \in Reqs : proc'[q].ops = IF q = r THEN Handler(name) ELSE proc[q].ops
  <2> SUFFICES ASSUME NEW q \in Reqs
               PROVE  proc'[q].ops = IF q = r THEN Handler(name) ELSE proc[q].ops
    OBVIOUS
  <2>1. q \in Processes /\ proc[q] \in Process
    BY ReqsProcesses DEF NInv, IInv, TypeOK
  <2>2. CASE q = r
    BY <1>1, <2>1, <2>2 DEF Arrive
  <2>3. CASE q # r
    <3>1. proc'[q] = [proc[q] EXCEPT !.alone = FALSE, !.before = Zero]
      BY <1>1, <2>1, <2>3 DEF Arrive
    <3> QED
      BY <2>1, <2>3, <3>1 DEF Process
  <2> QED
    BY <2>2, <2>3
<1>4. \A i \in 1 .. Len(Handler(name)) : WholeOp(Handler(name)[i])
  <2>1. \A op \in WholeOps : WholeOp(op)
    BY DEF WholeOps, WholeOp
  <2> QED
    BY <1>2, <2>1
<1>5. WholeOpsOnly'
  BY <1>3, <1>4 DEF NInv, WholeOpsOnly
<1>6. conf' = conf
  BY <1>1 DEF Arrive
<1>7. Relied'
  <2> SUFFICES ASSUME NEW q \in Reqs, WillChange(q)' PROVE conf.restore = Wanted
    BY <1>6 DEF Relied
  <2>1. CASE q # r
    BY <1>3, <2>1 DEF NInv, Relied, WillChange
  <2>2. CASE q = r
    <3>1. proc'[q].ops = Handler(name)
      BY <1>3, <2>2
    <3>2. CASE name = "start"
      BY <1>1, <3>2 DEF Arrive, Accepted, NInv, Numbers
    <3>3. CASE name = "adjust"
      <4>1. proc'[q].ops = <<Save>>
        BY <3>1, <3>3, WholeHandlers
      <4>2. PICK i \in 1 .. Len(proc'[q].ops) : proc'[q].ops[i].do \in {"scale", "set"}
        BY DEF WillChange
      <4>3. i = 1 /\ proc'[q].ops[i] = Save
        BY <4>1, <4>2
      <4> QED
        BY <4>2, <4>3, Does
    <3>4. CASE name \in {"shutdown", "cluster", "ds"}
      BY <3>1, <3>4, WholeHandlers DEF WillChange
    <3> QED
      BY <3>2, <3>3, <3>4 DEF Whole
  <2> QED
    BY <2>1, <2>2
<1> QED
  BY <1>5, <1>7

(* What is remembered is what is wanted.                                   *)
LEMMA RememberWhole ==
  ASSUME WholeCluster, NInv, NEW p \in Processes, DoRemember(p)
  PROVE  Numbers(conf)' /\ conf'.restore = Wanted
<1>1. Busy(p) /\ proc[p].ops[1].do = "remember" /\ 1 \in 1 .. Len(proc[p].ops)
  BY FirstOp DEF NInv, DoRemember, At
<1>2. p \in Reqs
  BY <1>1 DEF NInv, IInv, BeatOnlyKills, Processes
<1>3. proc[p].ops[1].kinds = Kinds
  BY <1>1, <1>2 DEF NInv, WholeOpsOnly, WholeOp
<1>4. conf' = IF \A k \in Kinds : conf.max[k] # 0
              THEN [conf EXCEPT !.restore = [k \in Kinds |-> IF k \in Kinds THEN conf.max[k]
                                                             ELSE conf.restore[k]]]
              ELSE conf
  BY <1>1, <1>3, FirstOp DEF NInv, DoRemember
<1>5. conf \in [max : Amounts, restore : Amounts]
  BY DEF NInv, IInv, TypeOK, Config
<1>6. CASE \A k \in Kinds : conf.max[k] # 0
  <2> DEFINE found == [k \in Kinds |-> IF k \in Kinds THEN conf.max[k] ELSE conf.restore[k]]
  <2>1. found = Wanted
    BY <1>6, ConstantsAssumption DEF NInv, Numbers
  <2>2. conf' = [conf EXCEPT !.restore = found]
    BY <1>4, <1>6
  <2> HIDE DEF found
  <2>3. conf'.max = conf.max /\ conf'.restore = Wanted
    BY <1>5, <2>1, <2>2
  <2> QED
    BY <2>3 DEF NInv, Numbers
<1>7. CASE \E k \in Kinds : conf.max[k] = 0
  BY <1>4, <1>7 DEF NInv, Numbers
<1> QED
  BY <1>6, <1>7

(* Scale begins: the number it will set is 0 or the remembered one.        *)
LEMMA ScaleBeginWhole ==
  ASSUME WholeCluster, NInv, NEW p \in Processes, ScaleBegin(p)
  PROVE  WholeOpsOnly' /\ Relied'
<1>1. Busy(p) /\ proc[p].ops[1].do = "scale" /\ 1 \in 1 .. Len(proc[p].ops)
  BY FirstOp DEF NInv, ScaleBegin, At
<1>2. p \in Reqs
  BY <1>1 DEF NInv, IInv, BeatOnlyKills, Processes
<1>3. conf.restore = Wanted /\ proc[p].ops[1].to \in {0, Restored}
  BY <1>1, <1>2 DEF NInv, Relied, WillChange, WholeOpsOnly, WholeOp
<1> DEFINE k == KindAt(p)
           n == IF proc[p].ops[1].to = Restored THEN conf.restore[k] ELSE proc[p].ops[1].to
           kill == [Op("kill", {k}, n) EXCEPT !.old = conf.max[k]]
           set == Op("set", {k}, n)
           rest == Tail(proc[p].ops)
<1>4. n \in {0, Wanted[k]}
  BY <1>3
<1>5. WholeOp(kill) /\ WholeOp(set)
  <2> HIDE DEF n, k
  <2> QED
    BY <1>4 DEF WholeOp, Op
<1>6. proc'[p].ops = <<kill, set>> \o rest /\ \A q \in Processes \ {p} : proc'[q] = proc[q]
  BY ScaleBeginProc DEF NInv
<1>7. Program(proc[p].ops) /\ proc[p].ops # <<>> /\ Len(proc[p].ops) \in Nat
  BY <1>1, FirstOp DEF NInv, IInv, Programs, Busy
<1>8. rest \in Seq(ProperOp) /\ Len(rest) = Len(proc[p].ops) - 1
      /\ \A i \in 1 .. Len(proc[p].ops) - 1 : rest[i] = proc[p].ops[i + 1]
  BY <1>7, TailProgram DEF Program
<1>9. \A i \in 1 .. Len(rest) : WholeOp(rest[i])
  <2> SUFFICES ASSUME NEW i \in 1 .. Len(rest) PROVE WholeOp(rest[i])
    OBVIOUS
  <2>1. i + 1 \in 1 .. Len(proc[p].ops) /\ rest[i] = proc[p].ops[i + 1]
    BY <1>7, <1>8
  <2> QED
    BY <1>2, <2>1 DEF NInv, WholeOpsOnly
<1>10. \A i \in 1 .. Len(proc'[p].ops) : WholeOp(proc'[p].ops[i])
  <2> HIDE DEF kill, set, rest
  <2>1. Len(<<kill, set>> \o rest) = 2 + Len(rest)
    BY <1>8
  <2>2. (<<kill, set>> \o rest)[1] = kill /\ (<<kill, set>> \o rest)[2] = set
    BY <1>8
  <2>3. \A i \in 1 .. Len(rest) : (<<kill, set>> \o rest)[2 + i] = rest[i]
    BY <1>8
  <2> SUFFICES ASSUME NEW i \in 1 .. 2 + Len(rest) PROVE WholeOp((<<kill, set>> \o rest)[i])
    BY <1>6, <2>1
  <2>4. CASE i \in {1, 2}
    BY <1>5, <2>2, <2>4
  <2>5. CASE i \notin {1, 2}
    <3>1. i - 2 \in 1 .. Len(rest) /\ 2 + (i - 2) = i
      BY <1>7, <1>8, <2>5
    <3> QED
      BY <1>9, <2>3, <3>1
  <2> QED
    BY <2>4, <2>5
<1>11. conf' = conf
  BY DEF ScaleBegin
<1>12. \A r \in Reqs \ {p} : \A i \in 1 .. Len(proc'[r].ops) : WholeOp(proc'[r].ops[i])
  BY <1>6, <1>11, OthersWhole
<1> QED
  BY <1>3, <1>10, <1>11, <1>12 DEF WholeOpsOnly, Relied

(* The number that Scale stores is 0 or the wanted one.                    *)
LEMMA ScaleSetWhole ==
  ASSUME WholeCluster, NInv, NEW p \in Processes, ScaleSet(p)
  PROVE  Numbers(conf)' /\ WholeOpsOnly' /\ Relied'
<1>1. Busy(p) /\ proc[p].ops[1].do = "set" /\ 1 \in 1 .. Len(proc[p].ops) /\ proc' = Advanced(p)
  BY FirstOp DEF NInv, ScaleSet, At
<1>2. p \in Reqs
  BY <1>1 DEF NInv, IInv, BeatOnlyKills, Processes
<1>3. KindAt(p) \in Kinds /\ proc[p].ops[1].kinds = {KindAt(p)}
  BY <1>1, KindOfOp DEF NInv
<1>4. conf.restore = Wanted /\ proc[p].ops[1].to \in {0, Wanted[KindAt(p)]}
  BY <1>1, <1>2, <1>3 DEF NInv, Relied, WillChange, WholeOpsOnly, WholeOp
<1>5. conf \in [max : Amounts, restore : Amounts] /\ conf.max \in Amounts
  BY DEF NInv, IInv, TypeOK, Config
<1>6. conf' = [conf EXCEPT !.max = [conf.max EXCEPT ![KindAt(p)] = proc[p].ops[1].to]]
  BY <1>1, FirstOp DEF NInv, ScaleSet
<1>7. /\ conf'.restore = Wanted
      /\ conf'.max = [conf.max EXCEPT ![KindAt(p)] = proc[p].ops[1].to]
  BY <1>4, <1>5, <1>6
<1>8. \A k \in Kinds : conf'.max[k] \in {0, Wanted[k]}
  BY <1>3, <1>4, <1>5, <1>7 DEF NInv, Numbers, Amounts
<1>9. Numbers(conf)'
  BY <1>7, <1>8 DEF Numbers
<1> QED
  BY <1>1, <1>7, <1>9, AdvancedWhole

(* Every step keeps the numbers.                                           *)
THEOREM StepWhole == WholeCluster /\ NInv /\ [Next]_vars => NInv'
<1> SUFFICES ASSUME WholeCluster, NInv, [Next]_vars PROVE NInv'
  OBVIOUS
<1>0. IInv'
  BY StepInv DEF NInv
<1> SUFFICES Numbers(conf)' /\ Numbers(saved)' /\ WholeOpsOnly' /\ Relied'
  BY <1>0 DEF NInv
<1> USE DEF NInv
<1>1. ASSUME NEW r \in Reqs, Request(r)
      PROVE  Numbers(conf)' /\ Numbers(saved)' /\ WholeOpsOnly' /\ Relied'
  BY <1>1, ArriveWhole DEF Request, Arrive
<1>2. ASSUME NEW p \in Processes, Step(p)
      PROVE  Numbers(conf)' /\ Numbers(saved)' /\ WholeOpsOnly' /\ Relied'
  <2>1. CASE DoRemember(p)
    <3>1. Busy(p) /\ proc' = Advanced(p) /\ saved' = saved
      BY <2>1 DEF DoRemember, At
    <3> QED
      BY <2>1, <3>1, RememberWhole, AdvancedWhole
  <2>2. CASE DoSave(p)
    BY <2>2, FirstOp, AdvancedWhole DEF DoSave, At
  <2>3. CASE ScaleBegin(p)
    BY <2>3, ScaleBeginWhole DEF ScaleBegin
  <2>4. CASE ScaleEnd(p)
    BY <2>4, FirstOp, AdvancedWhole DEF ScaleEnd, At
  <2>5. CASE ScaleSet(p)
    BY <2>5, ScaleSetWhole DEF ScaleSet
  <2>6. CASE DoWait(p)
    BY <2>6, FirstOp, AdvancedWhole DEF DoWait, At
  <2>7. ASSUME NEW t \in Tasks, ScaleTask(p, t)
        PROVE  Numbers(conf)' /\ Numbers(saved)' /\ WholeOpsOnly' /\ Relied'
    <3>1. conf' = conf /\ saved' = saved
      BY <2>7 DEF ScaleTask
    <3>2. /\ \A q \in Processes \ {p} : proc'[q] = proc[q]
          /\ Len(proc'[p].ops) = Len(proc[p].ops)
          /\ \A i \in 1 .. Len(proc[p].ops) :
               /\ proc'[p].ops[i].do = proc[p].ops[i].do
               /\ proc'[p].ops[i].kinds = proc[p].ops[i].kinds
               /\ proc'[p].ops[i].to = proc[p].ops[i].to
      BY <2>7, ScaleTaskProc
    <3>3. \A r \in Reqs \ {p} :
            /\ \A i \in 1 .. Len(proc'[r].ops) : WholeOp(proc'[r].ops[i])
            /\ WillChange(r)' => conf'.restore = Wanted
      BY <3>1, <3>2, OthersWhole
    <3>4. ASSUME p \in Reqs
          PROVE  /\ \A i \in 1 .. Len(proc'[p].ops) : WholeOp(proc'[p].ops[i])
                 /\ WillChange(p)' => WillChange(p)
      <4>1. 1 \in 1 .. Len(proc[p].ops)
        BY <2>7, FirstOp DEF ScaleTask, At
      <4>2. \A i \in 1 .. Len(proc[p].ops) : WholeOp(proc[p].ops[i])
        BY <3>4 DEF WholeOpsOnly
      <4>3. \A i \in 1 .. Len(proc'[p].ops) : WholeOp(proc'[p].ops[i])
        BY <3>2, <4>2 DEF WholeOp
      <4>4. WillChange(p)' => WillChange(p)
        BY <3>2, <4>1 DEF WillChange
      <4> QED
        BY <4>3, <4>4
    <3> QED
      BY <3>1, <3>3, <3>4 DEF WholeOpsOnly, Relied
  <2> QED
    BY <1>2, <2>1, <2>2, <2>3, <2>4, <2>5, <2>6, <2>7 DEF Step
<1>3. ASSUME NEW k \in Kinds, BeatCount(k)
      PROVE  Numbers(conf)' /\ Numbers(saved)' /\ WholeOpsOnly' /\ Relied'
  <2>1. conf' = conf /\ (saved' = saved \/ saved' = conf)
    BY <1>3 DEF BeatCount
  <2>2. \A q \in Processes \ {Beat} : proc'[q] = proc[q]
    BY <1>3 DEF BeatCount, IInv, TypeOK
  <2>3. \A r \in Reqs \ {Beat} :
          /\ \A i \in 1 .. Len(proc'[r].ops) : WholeOp(proc'[r].ops[i])
          /\ WillChange(r)' => conf'.restore = Wanted
    BY <2>1, <2>2, ReqsProcesses, OthersWhole
  <2> QED
    BY <2>1, <2>3, ReqsProcesses DEF WholeOpsOnly, Relied
<1>4. CASE BeatStart
  <2>1. Beat \in Processes /\ Busy(Beat) /\ proc[Beat].ops[1].do = "start" /\ proc' = Advanced(Beat)
    BY <1>4, FirstOp, ReqsProcesses DEF BeatStart, At
  <2> QED
    BY <1>4, <2>1, AdvancedWhole DEF BeatStart
<1>5. ASSUME NEW t \in Tasks, TaskGone(t) \/ TaskReports(t) \/ TaskFails(t)
      PROVE  Numbers(conf)' /\ Numbers(saved)' /\ WholeOpsOnly' /\ Relied'
  <2>1. UNCHANGED <<conf, proc>> /\ saved' = conf
    BY <1>5 DEF TaskGone, TaskReports, TaskFails
  <2> QED
    BY <2>1 DEF WholeOpsOnly, Relied, WillChange
<1>6. CASE Crash
  <2>1. \A r \in Reqs : Len(proc'[r].ops) = 0
    BY <1>6, NoProcessTyped, EmptyProgram, ReqsProcesses DEF Crash
  <2>2. WholeOpsOnly' /\ Relied'
    BY <2>1 DEF WholeOpsOnly, Relied, WillChange
  <2> QED
    BY <1>6, <2>2 DEF Crash
<1>7. CASE UNCHANGED vars
  BY <1>7 DEF vars, WholeOpsOnly, Relied, WillChange
<1> QED
  BY <1>1, <1>2, <1>3, <1>4, <1>5, <1>6, <1>7 DEF Next

(* However shutdowns, starts, cluster restarts and adjustments overlap,    *)
(* with crashes anywhere in between, no number is 0 without the one to     *)
(* restore, for clusters of any size.                                      *)
THEOREM NumbersRemembered == ASSUME WholeCluster PROVE Spec => []NumberRemembered
<1>1. Init => NInv
  BY InitWhole
<1>2. NInv /\ [Next]_vars => NInv'
  BY StepWhole
<1>3. NInv => NumberRemembered
  BY DEF NInv, Numbers, NumberRemembered
<1> QED
  BY <1>1, <1>2, <1>3, PTL DEF Spec

-----------------------------------------------------------------------------
(* Requests that have the cluster to themselves                            *)

(* The operations that change the number of kind k, and those of them that *)
(* bring it to b: a scale to to, which may be Restored, or the number b.   *)
Sets(op, k) == op.do \in {"scale", "set"} /\ op.kinds = {k}
BringsBack(op, to, b) == IF op.do = "scale" THEN op.to = to ELSE op.to = b

(* The last operation on k brings back b, or there is none and the number  *)
(* is b: what comes in between is made up for.                             *)
LastBringsBack(ops, k, to, b) ==
  \E i \in 1 .. Len(ops) :
    /\ Sets(ops[i], k) /\ BringsBack(ops[i], to, b)
    /\ \A j \in i + 1 .. Len(ops) : ~Sets(ops[j], k)
LeavesAlone(ops, k) == \A i \in 1 .. Len(ops) : ~Sets(ops[i], k)
Mends(ops, k, to, b, c) ==
  \/ LastBringsBack(ops, k, to, b)
  \/ LeavesAlone(ops, k) /\ c.max[k] = b

(* What the request called name changes, what its scales ask for, and what *)
(* it is to leave behind: 0, what is remembered, or what was before.       *)
Touches(name) == IF name \in Restarts THEN Stops(name) ELSE Kinds
Asked(name)   == IF name = "shutdown" THEN 0 ELSE Restored
Aim(name, before, c) ==
  IF name = "shutdown" THEN Zero ELSE IF name = "start" THEN c.restore ELSE before

(* What is left of a request, which found the numbers before: it will      *)
(* remember them, or has, if none of them was 0; and then mends them.      *)
Found(name, before) == \A k \in Touches(name) : before[k] # 0
Remembers(ops) == ops # <<>> /\ ops[1].do = "remember"
OnCourse(name, before, ops, c) ==
  /\ Remembers(ops) => name # "start" /\ ops[1].kinds = Touches(name) /\ c.max = before
  /\ ~Remembers(ops) /\ name # "start" /\ Found(name, before) =>
       \A k \in Touches(name) : c.restore[k] = before[k]
  /\ \A k \in Kinds : Mends(ops, k, Asked(name), Aim(name, before, c)[k], c)
  /\ \A k \in Kinds \ Touches(name) : LeavesAlone(ops, k)

(* The requests that RestartRestores and ShutdownAndStart are about.       *)
Directed == Restarts \cup {"shutdown", "start"}
Restarting(r) ==
  /\ proc[r].alone /\ proc[r].name \in Directed
  /\ proc[r].name \in Restarts => Found(proc[r].name, proc[r].before)

(* A request that has had the cluster to itself has it still.              *)
Alone == \A r \in Reqs : proc[r].alone => Busy(r) /\ \A q \in Reqs \ {r} : ~Busy(q)

RestartsOnCourse ==
  \A r \in Reqs :
    Restarting(r) => OnCourse(proc[r].name, proc[r].before, proc[r].ops, conf)

RInv == IInv /\ Alone /\ RestartsOnCourse

(* What a request changes are kinds.                                       *)
LEMMA TouchesKinds == ASSUME NEW name \in Directed PROVE Touches(name) \subseteq Kinds
  BY DEF Restarts, Stops, Kinds, Touches

(* No amount is the mark for what is remembered.                           *)
LEMMA Marks == Restored # 0 /\ Zero \in Amounts /\ \A k \in Kinds : Zero[k] = 0
  BY ConstantsAssumption DEF Restored, Zero, Amounts

(* The first operation is done, and has set its kind if that is what it    *)
(* was for: what is left mends as much.                                    *)
LEMMA TailMends ==
  ASSUME NEW ops, Program(ops), ops # <<>>, NEW k, NEW to, NEW b, NEW c, NEW d,
         ops[1].do # "scale",
         Sets(ops[1], k) => d.max[k] = ops[1].to,
         ~Sets(ops[1], k) => d.max[k] = c.max[k],
         Mends(ops, k, to, b, c)
  PROVE  /\ Mends(Tail(ops), k, to, b, d)
         /\ LeavesAlone(ops, k) => LeavesAlone(Tail(ops), k)
<1>1. /\ Len(Tail(ops)) = Len(ops) - 1
      /\ \A i \in 1 .. Len(ops) - 1 : Tail(ops)[i] = ops[i + 1]
  BY TailProgram
<1>2. ops \in Seq(ProperOp) /\ Len(ops) \in Nat /\ Len(ops) >= 1
  BY DEF Program
<1> DEFINE L == Len(ops)
           tail == Tail(ops)
<1> HIDE DEF tail, L
<1>3. Len(tail) = L - 1 /\ L \in Nat /\ L >= 1 /\ \A i \in 1 .. L - 1 : tail[i] = ops[i + 1]
  BY <1>1, <1>2 DEF tail, L
<1>4. LeavesAlone(ops, k) => LeavesAlone(tail, k)
  <2> SUFFICES ASSUME LeavesAlone(ops, k), NEW i \in 1 .. L - 1 PROVE ~Sets(tail[i], k)
    BY <1>3 DEF LeavesAlone
  <2>1. i + 1 \in 1 .. L /\ tail[i] = ops[i + 1]
    BY <1>3
  <2> QED
    BY <2>1 DEF LeavesAlone, L
<1>5. ASSUME LastBringsBack(ops, k, to, b) PROVE Mends(tail, k, to, b, d)
  <2>1. PICK i \in 1 .. L : /\ Sets(ops[i], k) /\ BringsBack(ops[i], to, b)
                            /\ \A j \in i + 1 .. L : ~Sets(ops[j], k)
    BY <1>5 DEF LastBringsBack, L
  <2>2. CASE i = 1
    <3>1. d.max[k] = b
      BY <2>1, <2>2 DEF Sets, BringsBack
    <3>2. ASSUME NEW j \in 1 .. L - 1 PROVE ~Sets(tail[j], k)
      <4>1. j + 1 \in i + 1 .. L /\ tail[j] = ops[j + 1]
        BY <1>3, <2>2
      <4> QED
        BY <2>1, <4>1
    <3> QED
      BY <1>3, <3>1, <3>2 DEF Mends, LeavesAlone
  <2>3. CASE i # 1
    <3>1. i - 1 \in 1 .. L - 1 /\ tail[i - 1] = ops[i]
      <4>1. i - 1 \in 1 .. L - 1 /\ (i - 1) + 1 = i
        BY <1>3, <2>3
      <4> QED
        BY <1>3, <4>1
    <3>2. ASSUME NEW j \in (i - 1) + 1 .. L - 1 PROVE ~Sets(tail[j], k)
      <4>1. j + 1 \in i + 1 .. L /\ j \in 1 .. L - 1
        BY <1>3, <2>3
      <4> QED
        BY <1>3, <2>1, <4>1
    <3>3. Sets(tail[i - 1], k) /\ BringsBack(tail[i - 1], to, b)
      BY <2>1, <3>1
    <3> QED
      BY <1>3, <3>1, <3>2, <3>3 DEF Mends, LastBringsBack
  <2> QED
    BY <2>2, <2>3
<1>6. ASSUME LeavesAlone(ops, k), c.max[k] = b PROVE Mends(tail, k, to, b, d)
  <2>1. ~Sets(ops[1], k)
    BY <1>2, <1>6 DEF LeavesAlone
  <2> QED
    BY <1>4, <1>6, <2>1 DEF Mends
<1> QED
  BY <1>4, <1>5, <1>6 DEF Mends, tail

(* Scale begins with the number that it is to bring back.                  *)
LEMMA BeginMends ==
  ASSUME NEW ops, Program(ops), ops # <<>>, NEW k, NEW to, NEW b, NEW c,
         ops[1].do = "scale", NEW kill, NEW set,
         kill.do = "kill", set.do = "set", set.kinds = ops[1].kinds,
         Sets(ops[1], k) /\ ops[1].to = to => set.to = b,
         Mends(ops, k, to, b, c)
  PROVE  /\ Mends(<<kill, set>> \o Tail(ops), k, to, b, c)
         /\ LeavesAlone(ops, k) => LeavesAlone(<<kill, set>> \o Tail(ops), k)
<1> DEFINE L == Len(ops)
           tail == Tail(ops)
           new == <<kill, set>> \o tail
<1>1. /\ Len(tail) = L - 1 /\ L \in Nat /\ L >= 1
      /\ \A i \in 1 .. L - 1 : tail[i] = ops[i + 1]
      /\ tail \in Seq(ProperOp)
  BY TailProgram DEF Program
<1>2. new[1] = kill /\ new[2] = set /\ Len(new) = L + 1 /\ \A i \in 1 .. L - 1 : new[2 + i] = tail[i]
  <2> HIDE DEF tail, L
  <2> QED
    BY <1>1
<1> HIDE DEF new, tail, L
<1>3. \A i \in 2 .. L : new[i + 1] = ops[i]
  <2> TAKE i \in 2 .. L
  <2>1. i - 1 \in 1 .. L - 1 /\ 2 + (i - 1) = i + 1 /\ (i - 1) + 1 = i
    BY <1>1
  <2> QED
    BY <1>1, <1>2, <2>1
<1>4. ~Sets(new[1], k) /\ (Sets(new[2], k) <=> Sets(ops[1], k))
  BY <1>2 DEF Sets
<1>5. LeavesAlone(ops, k) => LeavesAlone(new, k)
  <2> SUFFICES ASSUME LeavesAlone(ops, k), NEW i \in 1 .. L + 1 PROVE ~Sets(new[i], k)
    BY <1>2 DEF LeavesAlone
  <2>1. CASE i \in {1, 2}
    BY <1>1, <1>4, <2>1 DEF LeavesAlone, L
  <2>2. CASE i \notin {1, 2}
    <3>1. i - 1 \in 2 .. L /\ i - 1 \in 1 .. L /\ (i - 1) + 1 = i
      BY <1>1, <2>2
    <3>2. new[i] = ops[i - 1]
      BY <1>3, <3>1
    <3> QED
      BY <3>1, <3>2 DEF LeavesAlone, L
  <2> QED
    BY <2>1, <2>2
<1>6. ASSUME LastBringsBack(ops, k, to, b) PROVE LastBringsBack(new, k, to, b)
  <2>1. PICK i \in 1 .. L : /\ Sets(ops[i], k) /\ BringsBack(ops[i], to, b)
                            /\ \A j \in i + 1 .. L : ~Sets(ops[j], k)
    BY <1>6 DEF LastBringsBack, L
  <2>2. i + 1 \in 1 .. L + 1
    BY <1>1
  <2>3. Sets(new[i + 1], k) /\ BringsBack(new[i + 1], to, b)
    <3>1. CASE i = 1
      BY <1>2, <1>4, <2>1, <3>1 DEF BringsBack
    <3>2. CASE i # 1
      <4>1. new[i + 1] = ops[i]
        BY <1>1, <1>3, <3>2
      <4> QED
        BY <2>1, <4>1
    <3> QED
      BY <3>1, <3>2
  <2>4. ASSUME NEW j \in (i + 1) + 1 .. L + 1 PROVE ~Sets(new[j], k)
    <3>1. j - 1 \in 2 .. L /\ j - 1 \in i + 1 .. L /\ (j - 1) + 1 = j
      BY <1>1
    <3>2. new[j] = ops[j - 1]
      BY <1>3, <3>1
    <3> QED
      BY <2>1, <3>1, <3>2
  <2> QED
    BY <1>2, <2>2, <2>3, <2>4 DEF LastBringsBack
<1> QED
  BY <1>5, <1>6 DEF Mends, new, tail

(* An operation that counts on is the same operation.                      *)
LEMMA SameMends ==
  ASSUME NEW ops, NEW new, NEW k, NEW to, NEW b, NEW c, Len(new) = Len(ops),
         \A i \in 1 .. Len(ops) :
           new[i].do = ops[i].do /\ new[i].kinds = ops[i].kinds /\ new[i].to = ops[i].to
  PROVE  /\ LeavesAlone(ops, k) => LeavesAlone(new, k)
         /\ Mends(ops, k, to, b, c) => Mends(new, k, to, b, c)
<1>1. \A i \in 1 .. Len(ops) : /\ Sets(new[i], k) <=> Sets(ops[i], k)
                               /\ BringsBack(new[i], to, b) <=> BringsBack(ops[i], to, b)
  BY DEF Sets, BringsBack
<1>2. LeavesAlone(ops, k) => LeavesAlone(new, k)
  BY <1>1 DEF LeavesAlone
<1>3. ASSUME LastBringsBack(ops, k, to, b) PROVE LastBringsBack(new, k, to, b)
  <2>1. PICK i \in 1 .. Len(ops) : /\ Sets(ops[i], k) /\ BringsBack(ops[i], to, b)
                                   /\ \A j \in i + 1 .. Len(ops) : ~Sets(ops[j], k)
    BY <1>3 DEF LastBringsBack
  <2>2. Sets(new[i], k) /\ BringsBack(new[i], to, b)
    BY <1>1, <2>1
  <2>3. ASSUME NEW j \in i + 1 .. Len(new) PROVE ~Sets(new[j], k)
    <3>1. ~Sets(ops[j], k)
      BY <2>1
    <3>2. i >= 1
      OBVIOUS
    <3> QED
      BY <2>1, <3>1, <3>2 DEF Sets
  <2> QED
    BY <2>2, <2>3 DEF LastBringsBack
<1> QED
  BY <1>2, <1>3 DEF Mends

(* What comes after decides.                                               *)
LEMMA JoinedMends ==
  ASSUME NEW S, NEW s \in Seq(S), NEW t \in Seq(S), NEW k, NEW to, NEW b
  PROVE  /\ LastBringsBack(t, k, to, b) => LastBringsBack(s \o t, k, to, b)
         /\ LeavesAlone(s, k) /\ LeavesAlone(t, k) => LeavesAlone(s \o t, k)
<1> DEFINE L == Len(s)
           M == Len(t)
           st == s \o t
<1>1. /\ Len(st) = L + M /\ L \in Nat /\ M \in Nat
      /\ \A i \in 1 .. L : st[i] = s[i]
      /\ \A i \in 1 .. M : st[L + i] = t[i]
  OBVIOUS
<1> HIDE DEF L, M, st
<1>2. ASSUME LastBringsBack(t, k, to, b) PROVE LastBringsBack(st, k, to, b)
  <2>1. PICK i \in 1 .. M : /\ Sets(t[i], k) /\ BringsBack(t[i], to, b)
                            /\ \A j \in i + 1 .. M : ~Sets(t[j], k)
    BY <1>2 DEF LastBringsBack, M
  <2>2. L + i \in 1 .. L + M
    BY <1>1
  <2>4. Sets(st[L + i], k) /\ BringsBack(st[L + i], to, b)
    <3>1. st[L + i] = t[i]
      BY <1>1
    <3> QED
      BY <2>1, <3>1
  <2>3. ASSUME NEW j \in L + i + 1 .. L + M PROVE ~Sets(st[j], k)
    <3>1. j - L \in 1 .. M /\ j - L \in i + 1 .. M /\ L + (j - L) = j
      BY <1>1
    <3> QED
      BY <1>1, <2>1, <3>1
  <2> QED
    BY <1>1, <2>2, <2>3, <2>4 DEF LastBringsBack
<1>3. ASSUME LeavesAlone(s, k), LeavesAlone(t, k) PROVE LeavesAlone(st, k)
  <2> SUFFICES ASSUME NEW i \in 1 .. L + M PROVE ~Sets(st[i], k)
    BY <1>1 DEF LeavesAlone
  <2>1. CASE i <= L
    <3>1. i \in 1 .. L
      BY <1>1, <2>1
    <3> QED
      BY <1>1, <1>3, <3>1 DEF LeavesAlone, L
  <2>2. CASE i > L
    <3>1. i - L \in 1 .. M /\ L + (i - L) = i
      BY <1>1, <2>2
    <3> QED
      BY <1>1, <1>3, <3>1 DEF LeavesAlone, M
  <2> QED
    BY <1>1, <2>1, <2>2
<1> QED
  BY <1>2, <1>3 DEF st

(* A restart begins by remembering what it stops; its second half brings   *)
(* back all of it; of other kinds it leaves the number alone.              *)
LEMMA RestartParts ==
  ASSUME NEW name \in Restarts, NEW c, NEW s, NEW K \in SUBSET Kinds, NEW t,
         Program(s), Len(s) >= 1, s[1] = Remember(Stops(name)), Plain(t),
         Handler(name) = s \o <<Wait(K)>> \o t,
         \A k \in Stops(name) : \A b : LastBringsBack(t, k, Restored, b),
         \A k \in Kinds \ Stops(name) : LeavesAlone(s, k) /\ LeavesAlone(t, k)
  PROVE  OnCourse(name, c.max, Handler(name), c)
<1> DEFINE w == <<Wait(K)>>
<1>1. Handler(name)[1] = Remember(Stops(name))
  BY ThreeParts
<1>2. w \in Seq(ProperOp) /\ \A k : LeavesAlone(w, k)
  <2>1. Wait(K) \in ProperOp /\ \A k : ~Sets(Wait(K), k)
    BY ProperOps, Does DEF Sets
  <2> QED
    BY <2>1 DEF LeavesAlone
<1>3. s \in Seq(ProperOp) /\ t \in Seq(ProperOp)
  BY DEF Program, Plain
<1> HIDE DEF w
<1>4. s \o w \in Seq(ProperOp) /\ Handler(name) = (s \o w) \o t
  BY <1>2, <1>3 DEF w
<1>5. \A k \in Stops(name) : \A b : LastBringsBack(Handler(name), k, Restored, b)
  BY <1>3, <1>4, JoinedMends
<1>6. ASSUME NEW k \in Kinds \ Stops(name) PROVE LeavesAlone(Handler(name), k)
  <2>1. LeavesAlone(s \o w, k)
    BY <1>2, <1>3, JoinedMends, Zenon
  <2> QED
    BY <1>3, <1>4, <2>1, JoinedMends, Zenon
<1>8. /\ Touches(name) = Stops(name) /\ name \notin {"shutdown", "start"}
      /\ Asked(name) = Restored /\ \A b : Aim(name, b, c) = b
  BY DEF Touches, Asked, Aim, Restarts
<1>7. Remembers(Handler(name)) /\ Handler(name)[1].kinds = Stops(name)
  <2>1. name \in Requests \ {"scale"}
    BY DEF Requests, Restarts
  <2>2. Handler(name) # <<>>
    BY <2>1, Handlers
  <2> QED
    BY <1>1, <2>2 DEF Remembers, Remember, Op
<1> QED
  BY <1>5, <1>6, <1>7, <1>8 DEF OnCourse, Mends

(* clusterStart brings back every number.                                  *)
LEMMA StartBringsBack ==
  ASSUME NEW k \in Kinds, NEW b PROVE LastBringsBack(ClusterStart, k, Restored, b)
<1>b. \A i, j : /\ Sets(ScaleTo(i, Restored), i) /\ BringsBack(ScaleTo(i, Restored), Restored, b)
                /\ j # i => ~Sets(ScaleTo(j, Restored), i)
  BY DEF Sets, BringsBack, ScaleTo, Op
<1> DEFINE t == ClusterStart
<1>1. /\ Len(t) = 3 /\ t[1] = ScaleTo("datastore", Restored)
      /\ t[2] = ScaleTo("server", Restored) /\ t[3] = ScaleTo("agent", Restored)
  BY DEF ClusterStart
<1> HIDE DEF t
<1>2. CASE k = "datastore"
  <2>1. \A j \in 1 + 1 .. 3 : ~Sets(t[j], k)
    <3>1. \A j \in 1 + 1 .. 3 : j = 2 \/ j = 3
      OBVIOUS
    <3> QED
      BY <1>b, <1>1, <1>2, <3>1
  <2> QED
    BY <1>b, <1>1, <1>2, <2>1 DEF LastBringsBack, t
<1>3. CASE k = "server"
  <2>1. \A j \in 2 + 1 .. 3 : ~Sets(t[j], k)
    <3>1. \A j \in 2 + 1 .. 3 : j = 3
      OBVIOUS
    <3> QED
      BY <1>b, <1>1, <1>3, <3>1
  <2> QED
    BY <1>b, <1>1, <1>3, <2>1 DEF LastBringsBack, t
<1>4. CASE k = "agent"
  BY <1>b, <1>1, <1>4 DEF LastBringsBack, t
<1> QED
  BY <1>2, <1>3, <1>4 DEF Kinds

LEMMA RestartOnCourse ==
  ASSUME NEW name \in Restarts, NEW c PROVE OnCourse(name, c.max, Handler(name), c)
<1>a. /\ \A k \in Kinds : ScaleTo(k, 0) \in ProperOp /\ ScaleTo(k, Restored) \in ProperOp
      /\ \A K \in SUBSET Kinds : Remember(K) \in ProperOp
      /\ Save \in ProperOp
      /\ {"agent", "server", "datastore"} \subseteq Kinds
  BY ProperOps, ConstantsAssumption DEF Restored, Kinds
<1>b. \A k, j, b : /\ Sets(ScaleTo(k, Restored), k) /\ BringsBack(ScaleTo(k, Restored), Restored, b)
                   /\ j # k => ~Sets(ScaleTo(j, Restored), k) /\ ~Sets(ScaleTo(j, 0), k)
  BY DEF Sets, BringsBack, ScaleTo, Op
<1>c. \A k : ~Sets(Save, k) /\ \A K : ~Sets(Remember(K), k)
  BY Does DEF Sets
<1>d. \A k \in Kinds : \A b : LastBringsBack(ClusterStart, k, Restored, b)
  BY StartBringsBack
<1>e. \A ds \in BOOLEAN : ClusterStop(ds)[1] = Remember(Kinds)
  <2> TAKE ds \in BOOLEAN
  <2> DEFINE s == <<Remember(Kinds), Save, ScaleTo("agent", 0), ScaleTo("server", 0)>>
             d == IF ds THEN <<ScaleTo("datastore", 0)>> ELSE <<>>
             e == <<Save>>
  <2>1. s \in Seq(ProperOp) /\ d \in Seq(ProperOp) /\ e \in Seq(ProperOp)
    BY <1>a
  <2>2. s[1] = Remember(Kinds) /\ Len(s) = 4
    OBVIOUS
  <2> HIDE DEF s, d, e
  <2>3. s \o d \in Seq(ProperOp) /\ Len(s \o d) >= 4 /\ (s \o d)[1] = s[1]
    <3>1. Len(d) \in Nat /\ Len(s \o d) = Len(s) + Len(d) /\ \A i \in 1 .. Len(s) : (s \o d)[i] = s[i]
      BY <2>1
    <3> QED
      BY <2>1, <2>2, <3>1
  <2>4. (s \o d \o e)[1] = (s \o d)[1]
    BY <2>1, <2>3
  <2> QED
    BY <2>2, <2>3, <2>4 DEF ClusterStop, s, d, e
<1>1. CASE name = "cluster"
  <2>1. Handler(name) = ClusterStop(FALSE) \o <<Wait({"server", "agent"})>> \o ClusterStart
    BY <1>1 DEF Handler
  <2>2. Stops(name) = Kinds /\ {"server", "agent"} \in SUBSET Kinds
    BY <1>1 DEF Stops, Kinds
  <2> QED
    BY <1>d, <1>e, <2>1, <2>2, ClusterStopProgram, ClusterStartPlain, RestartParts
<1>2. CASE name = "ds"
  <2>1. Handler(name) = ClusterStop(TRUE) \o <<Wait(Kinds)>> \o ClusterStart
    BY <1>2 DEF Handler
  <2>2. Stops(name) = Kinds
    BY <1>2 DEF Stops
  <2> QED
    BY <1>d, <1>e, <2>1, <2>2, ClusterStopProgram, ClusterStartPlain, RestartParts
<1>3. CASE name = "server"
  <2> DEFINE s == ServerAndAgentStop
             t == ServerAndAgentStart
  <2>1. Handler(name) = s \o <<Wait({"server", "agent"})>> \o t
    BY <1>3 DEF Handler
  <2>2. Stops(name) = {"server", "agent"} /\ {"server", "agent"} \in SUBSET Kinds
    BY <1>3 DEF Stops, Kinds
  <2>3. Program(s) /\ Len(s) = 4 /\ s[1] = Remember(Stops(name))
    BY <1>a, <2>2, Does, FourOps DEF ServerAndAgentStop, Saving
  <2>4. Plain(t)
    BY <1>a, Does, PlainOps DEF ServerAndAgentStart
  <2>5. Len(t) = 2 /\ t[1] = ScaleTo("server", Restored) /\ t[2] = ScaleTo("agent", Restored)
    BY DEF ServerAndAgentStart
  <2>6. LeavesAlone(s, "datastore")
    <3>1. \A i \in 1 .. 4 : s[i] \in {Remember({"server", "agent"}), Save,
                                      ScaleTo("agent", 0), ScaleTo("server", 0)}
      BY DEF ServerAndAgentStop
    <3> QED
      BY <1>b, <1>c, <2>3, <3>1 DEF LeavesAlone
  <2> HIDE DEF s, t
  <2>7. ASSUME NEW b PROVE LastBringsBack(t, "server", Restored, b) /\ LastBringsBack(t, "agent", Restored, b)
    <3>1. \A j \in 1 + 1 .. 2 : j = 2
      OBVIOUS
    <3>2. \A j \in 1 + 1 .. 2 : ~Sets(t[j], "server")
      BY <1>b, <2>5, <3>1
    <3> QED
      BY <1>b, <2>5, <3>2 DEF LastBringsBack
  <2>8. LeavesAlone(t, "datastore")
    BY <1>b, <2>5 DEF LeavesAlone
  <2>9. Kinds \ Stops(name) = {"datastore"}
    BY <2>2 DEF Kinds
  <2>10. \A k \in Stops(name) : \A b : LastBringsBack(t, k, Restored, b)
    BY <2>2, <2>7
  <2>11. \A k \in Kinds \ Stops(name) : LeavesAlone(s, k) /\ LeavesAlone(t, k)
    BY <2>6, <2>8, <2>9
  <2>12. Len(s) >= 1
    BY <2>3
  <2> QED
    BY <2>1, <2>2, <2>3, <2>4, <2>10, <2>11, <2>12, RestartParts, Zenon
<1>4. CASE name = "agent"
  <2> DEFINE s == AgentStop
             t == AgentStart
  <2>1. Handler(name) = s \o <<Wait({"agent"})>> \o t
    BY <1>4 DEF Handler
  <2>2. Stops(name) = {"agent"} /\ {"agent"} \in SUBSET Kinds
    BY <1>4 DEF Stops, Kinds
  <2>3. /\ Program(s) /\ Len(s) = 2 /\ s[1] = Remember(Stops(name))
        /\ s[2] = ScaleTo("agent", 0)
    BY <1>a, <2>2, Does DEF AgentStop, Program, Saving
  <2>4. Plain(t)
    BY <1>a, Does, PlainOps DEF AgentStart
  <2>5. Len(t) = 1 /\ t[1] = ScaleTo("agent", Restored)
    BY DEF AgentStart
  <2> HIDE DEF s, t
  <2>6. \A k : k # "agent" => LeavesAlone(s, k)
    BY <1>b, <1>c, <2>2, <2>3 DEF LeavesAlone
  <2>7. \A b : LastBringsBack(t, "agent", Restored, b)
    BY <1>b, <2>5 DEF LastBringsBack
  <2>8. \A k : k # "agent" => LeavesAlone(t, k)
    BY <1>b, <2>5 DEF LeavesAlone
  <2>9. \A k \in Stops(name) : \A b : LastBringsBack(t, k, Restored, b)
    BY <2>2, <2>7
  <2>10. \A k \in Kinds \ Stops(name) : LeavesAlone(s, k) /\ LeavesAlone(t, k)
    BY <2>2, <2>6, <2>8
  <2>11. Len(s) >= 1
    BY <2>3
  <2> QED
    BY <2>1, <2>2, <2>3, <2>4, <2>9, <2>10, <2>11, RestartParts, Zenon
<1> QED
  BY <1>1, <1>2, <1>3, <1>4 DEF Restarts

(* One operation more leaves those before it where they are.              *)
LEMMA OneMore ==
  ASSUME NEW S, NEW a \in Seq(S), NEW b \in Seq(S), Len(b) = 1
  PROVE  /\ a \o b \in Seq(S) /\ Len(a \o b) = Len(a) + 1
         /\ \A i \in 1 .. Len(a) : (a \o b)[i] = a[i]
         /\ (a \o b)[Len(a) + 1] = b[1]
<1> DEFINE L == Len(a)
           M == Len(b)
           ab == a \o b
<1>1. /\ ab \in Seq(S) /\ Len(ab) = L + M /\ L \in Nat /\ M \in Nat
      /\ \A i \in 1 .. L : ab[i] = a[i]
      /\ \A i \in 1 .. M : ab[L + i] = b[i]
  BY ConcatProperties
<1>2. M = 1
  OBVIOUS
<1> HIDE DEF L, M, ab
<1>3. 1 \in 1 .. M
  BY <1>2
<1>4. ab[L + 1] = b[1]
  BY <1>1, <1>3, Zenon
<1>5. Len(ab) = L + 1
  BY <1>1, <1>2, Zenon
<1> QED
  BY <1>1, <1>4, <1>5, Zenon DEF L, M, ab

(* A shutdown sets every number to 0, and a start brings back every one.   *)
LEMMA HandlerOnCourse ==
  ASSUME NEW name \in Directed, NEW c PROVE OnCourse(name, c.max, Handler(name), c)
<1>a. /\ \A k \in Kinds : ScaleTo(k, 0) \in ProperOp
      /\ Remember(Kinds) \in ProperOp /\ Save \in ProperOp
      /\ {"agent", "server", "datastore"} \subseteq Kinds
  BY ProperOps, ConstantsAssumption DEF Restored, Kinds
<1>1. CASE name = "shutdown"
  <2> DEFINE s == <<Remember(Kinds), Save, ScaleTo("agent", 0), ScaleTo("server", 0)>>
             e == <<ScaleTo("datastore", 0)>>
             f == <<Save>>
             h == Handler(name)
  <2>1. h = s \o e \o f
    BY <1>1 DEF Handler, ClusterStop
  <2>2. /\ s \in Seq(ProperOp) /\ e \in Seq(ProperOp) /\ f \in Seq(ProperOp)
        /\ Len(e) = 1 /\ e[1] = ScaleTo("datastore", 0) /\ Len(f) = 1 /\ f[1] = Save
    BY <1>a
  <2>3. /\ Len(s) = 4 /\ s[1] = Remember(Kinds)
        /\ s[3] = ScaleTo("agent", 0) /\ s[4] = ScaleTo("server", 0)
    OBVIOUS
  <2> HIDE DEF s, e, f
  <2>4. /\ Len(h) = 6 /\ h[1] = Remember(Kinds) /\ h[3] = ScaleTo("agent", 0)
        /\ h[4] = ScaleTo("server", 0) /\ h[5] = ScaleTo("datastore", 0) /\ h[6] = Save
    <3> DEFINE d == s \o e
    <3>1. d \in Seq(ProperOp) /\ Len(d) = 5 /\ d[1] = s[1] /\ d[3] = s[3] /\ d[4] = s[4]
          /\ d[5] = ScaleTo("datastore", 0)
      <4>1. /\ s \o e \in Seq(ProperOp) /\ Len(s \o e) = Len(s) + 1
            /\ \A i \in 1 .. Len(s) : (s \o e)[i] = s[i]
            /\ (s \o e)[Len(s) + 1] = e[1]
        BY <2>2, OneMore, Zenon
      <4>2. 1 \in 1 .. Len(s) /\ 3 \in 1 .. Len(s) /\ 4 \in 1 .. Len(s) /\ Len(s) + 1 = 5
        BY <2>3
      <4> QED
        BY <2>2, <4>1, <4>2, Zenon
    <3> HIDE DEF d
    <3>a. /\ Len(d \o f) = Len(d) + 1
          /\ \A i \in 1 .. Len(d) : (d \o f)[i] = d[i]
          /\ (d \o f)[Len(d) + 1] = f[1]
      <4>1. d \in Seq(ProperOp) /\ f \in Seq(ProperOp) /\ Len(f) = 1
        BY <2>2, <3>1
      <4> QED
        BY <4>1, OneMore, Zenon
    <3>b. Len(d) = 5 /\ Len(d) + 1 = 6 /\ 1 .. Len(d) = 1 .. 5
      BY <3>1
    <3>2. Len(d \o f) = 6 /\ \A i \in 1 .. 5 : (d \o f)[i] = d[i]
      <4>1. Len(d \o f) = 6
        BY <3>a, <3>b, Zenon
      <4> QED
        BY <3>a, <3>b, <4>1, Zenon
    <3>3. (d \o f)[6] = Save
      <4>1. (d \o f)[6] = f[1]
        BY <3>a, <3>b, Zenon
      <4> QED
        BY <2>2, <4>1, Zenon
    <3>4. h = d \o f
      BY <2>1 DEF d
    <3> HIDE DEF h
    <3> QED
      BY <2>3, <3>1, <3>2, <3>3, <3>4
  <2> HIDE DEF h
  <2>5. \A k, j : /\ Sets(ScaleTo(k, 0), k) /\ BringsBack(ScaleTo(k, 0), 0, 0)
                  /\ j # k => ~Sets(ScaleTo(j, 0), k)
    BY DEF Sets, BringsBack, ScaleTo, Op
  <2>6. \A k : ~Sets(Save, k)
    BY Does DEF Sets
  <2>7. ASSUME NEW k \in Kinds PROVE LastBringsBack(h, k, 0, 0)
    <3>1. CASE k = "agent"
      <4>1. \A j \in 3 + 1 .. 6 : j = 4 \/ j = 5 \/ j = 6
        OBVIOUS
      <4>2. \A j \in 3 + 1 .. 6 : ~Sets(h[j], k)
        BY <2>4, <2>5, <2>6, <3>1, <4>1
      <4> QED
        BY <2>4, <2>5, <3>1, <4>2 DEF LastBringsBack
    <3>2. CASE k = "server"
      <4>1. \A j \in 4 + 1 .. 6 : j = 5 \/ j = 6
        OBVIOUS
      <4>2. \A j \in 4 + 1 .. 6 : ~Sets(h[j], k)
        BY <2>4, <2>5, <2>6, <3>2, <4>1
      <4> QED
        BY <2>4, <2>5, <3>2, <4>2 DEF LastBringsBack
    <3>3. CASE k = "datastore"
      <4>1. \A j \in 5 + 1 .. 6 : j = 6
        OBVIOUS
      <4>2. \A j \in 5 + 1 .. 6 : ~Sets(h[j], k)
        BY <2>4, <2>6, <4>1
      <4> QED
        BY <2>4, <2>5, <3>3, <4>2 DEF LastBringsBack
    <3> QED
      BY <3>1, <3>2, <3>3 DEF Kinds
  <2>8. Remembers(h) /\ h[1].kinds = Kinds
    <3>1. h # <<>>
      BY <2>4, EmptyProgram
    <3>2. Remember(Kinds).do = "remember" /\ Remember(Kinds).kinds = Kinds
      BY DEF Remember, Op
    <3> QED
      BY <2>4, <3>1, <3>2 DEF Remembers
  <2>9. /\ Touches(name) = Kinds /\ name # "start" /\ Asked(name) = 0
        /\ Aim(name, c.max, c) = Zero
    BY <1>1 DEF Touches, Asked, Aim, Restarts
  <2> QED
    BY <2>7, <2>8, <2>9, Marks DEF OnCourse, Mends, h
<1>2. CASE name = "start"
  <2>1. Handler(name) = ClusterStart
    BY <1>2 DEF Handler
  <2>2. Touches(name) = Kinds /\ Asked(name) = Restored
    BY <1>2 DEF Touches, Asked, Restarts
  <2>3. ~Remembers(ClusterStart)
    BY ClusterStartPlain DEF Plain, Remembers
  <2> HIDE DEF ClusterStart
  <2> QED
    BY <1>2, <2>1, <2>2, <2>3, StartBringsBack DEF OnCourse, Mends
<1>3. CASE name \in Restarts
  BY <1>3, RestartOnCourse
<1> QED
  BY <1>1, <1>2, <1>3 DEF Directed

(* What a step of a process makes of its name and its history.             *)
LEMMA AdvancedKeeps ==
  ASSUME IInv, NEW p \in Processes, Busy(p), proc' = Advanced(p)
  PROVE  \/ proc'[p] = NoProcess
         \/ /\ proc'[p].name = proc[p].name /\ proc'[p].before = proc[p].before
            /\ proc'[p].alone = proc[p].alone /\ proc'[p].ops # <<>>
<1>1. proc[p] \in Process /\ proc \in [Processes -> Process]
  BY DEF IInv, TypeOK
<1>2. CASE Len(proc[p].ops) = 1
  BY <1>1, <1>2 DEF Advanced
<1>3. CASE Len(proc[p].ops) # 1
  <2>1. proc'[p] = [proc[p] EXCEPT !.ops = Tail(proc[p].ops)]
    BY <1>1, <1>3 DEF Advanced
  <2>2. Len(Tail(proc[p].ops)) = Len(proc[p].ops) - 1 /\ Len(proc[p].ops) \in Nat
    BY TailProgram, FirstOp DEF IInv, Programs, Busy
  <2>3. Tail(proc[p].ops) # <<>>
    <3>1. Len(Tail(proc[p].ops)) # 0
      BY <1>3, <2>2
    <3> QED
      BY <3>1, EmptyProgram
  <2> QED
    BY <1>1, <2>1, <2>3 DEF Process
<1> QED
  BY <1>2, <1>3

LEMMA StepKeeps ==
  ASSUME IInv, NEW p \in Processes, Step(p)
  PROVE  \/ proc'[p] = NoProcess
         \/ /\ proc'[p].name = proc[p].name /\ proc'[p].before = proc[p].before
            /\ proc'[p].alone = proc[p].alone /\ proc'[p].ops # <<>>
<1>1. proc[p] \in Process /\ proc \in [Processes -> Process]
  BY DEF IInv, TypeOK
<1>2. CASE Busy(p) /\ proc' = Advanced(p)
  BY <1>2, AdvancedKeeps
<1>3. CASE ScaleBegin(p)
  <2>1. PICK new, todo : proc' = [proc EXCEPT ![p] = [proc[p] EXCEPT !.ops = new, !.todo = todo]]
    BY <1>3 DEF ScaleBegin
  <2>2. /\ proc'[p].name = proc[p].name /\ proc'[p].before = proc[p].before
        /\ proc'[p].alone = proc[p].alone
    BY <1>1, <2>1 DEF Process
  <2>3. PICK kill, set : proc'[p].ops = <<kill, set>> \o Tail(proc[p].ops)
    BY <1>3, ScaleBeginProc
  <2>4. Tail(proc[p].ops) \in Seq(ProperOp)
    BY <1>3, TailProgram DEF ScaleBegin, At, Busy, IInv, Programs, Program
  <2>5. Len(proc'[p].ops) >= 2
    BY <2>3, <2>4
  <2> QED
    BY <2>2, <2>5, EmptyProgram
<1>4. ASSUME NEW t \in Tasks, ScaleTask(p, t)
      PROVE  /\ proc'[p].name = proc[p].name /\ proc'[p].before = proc[p].before
             /\ proc'[p].alone = proc[p].alone /\ proc'[p].ops # <<>>
  <2> DEFINE first == [proc[p].ops[1] EXCEPT !.old = proc[p].ops[1].old - 1]
             new == [proc[p].ops EXCEPT ![1] = first]
             todo == proc[p].todo \ {t}
  <2>1. proc' = [proc EXCEPT ![p] = [proc[p] EXCEPT !.todo = todo, !.ops = new]]
    BY <1>4 DEF ScaleTask
  <2> HIDE DEF new, todo
  <2>2. /\ proc'[p].name = proc[p].name /\ proc'[p].before = proc[p].before
        /\ proc'[p].alone = proc[p].alone
    BY <1>1, <2>1 DEF Process
  <2>3. Len(proc'[p].ops) = Len(proc[p].ops) /\ Len(proc[p].ops) >= 1
    BY <1>4, ScaleTaskProc, FirstOp DEF ScaleTask, At
  <2> QED
    BY <2>2, <2>3, EmptyProgram
<1> QED
  BY <1>2, <1>3, <1>4
  DEF Step, DoRemember, DoSave, ScaleEnd, ScaleSet, DoWait, At

(* Only a start aims at what is remembered.                                *)
LEMMA SameAim ==
  ASSUME NEW name \in Directed, NEW before, NEW c, NEW d, name = "start" => d.restore = c.restore
  PROVE  Aim(name, before, d) = Aim(name, before, c)
  BY DEF Directed, Aim

(* The first operation of a request is done.                               *)
LEMMA AdvancedOnCourse ==
  ASSUME RInv, NEW r \in Reqs, Restarting(r), Busy(r), proc' = Advanced(r),
         proc[r].ops[1].do # "scale",
         proc[r].name = "start" => conf'.restore = conf.restore,
         proc[r].name # "start" /\ Found(proc[r].name, proc[r].before) =>
           \A k \in Touches(proc[r].name) : conf'.restore[k] = proc[r].before[k],
         \A k \in Kinds : /\ Sets(proc[r].ops[1], k) => conf'.max[k] = proc[r].ops[1].to
                          /\ ~Sets(proc[r].ops[1], k) => conf'.max[k] = conf.max[k]
  PROVE  OnCourse(proc[r].name, proc[r].before, proc'[r].ops, conf')
<1> DEFINE ops == proc[r].ops
           before == proc[r].before
           name == proc[r].name
<1>1. r \in Processes /\ Program(ops) /\ ops # <<>>
  BY ReqsProcesses DEF RInv, IInv, Programs, Busy
<1>2. proc'[r].ops = Tail(ops)
  BY <1>1, AdvancedProgram DEF RInv
<1>3. ~Remembers(Tail(ops))
  <2>1. Len(Tail(ops)) = Len(ops) - 1 /\ \A i \in 1 .. Len(Tail(ops)) : Tail(ops)[i].do # "remember"
    BY <1>1, TailProgram
  <2>2. Tail(ops) \in Seq(ProperOp)
    BY <1>1, TailProgram DEF Program
  <2>3. Tail(ops) # <<>> => 1 \in 1 .. Len(Tail(ops))
    BY <2>2
  <2> QED
    BY <2>1, <2>3 DEF Remembers
<1>4. OnCourse(name, before, ops, conf)
  BY DEF RInv, RestartsOnCourse
<1> DEFINE aim == Aim(name, before, conf)
<1>8. Aim(name, before, conf') = aim
  <2>1. name \in Directed
    BY DEF Restarting
  <2> QED
    BY <2>1, SameAim
<1> HIDE DEF ops, before, name
<1>5. ASSUME NEW k \in Kinds
      PROVE  /\ Mends(Tail(ops), k, Asked(name), aim[k], conf')
             /\ k \notin Touches(name) => LeavesAlone(Tail(ops), k)
  <2>1. Mends(ops, k, Asked(name), aim[k], conf) /\ (k \notin Touches(name) => LeavesAlone(ops, k))
    BY <1>4 DEF OnCourse
  <2>2. /\ ops[1].do # "scale"
        /\ Sets(ops[1], k) => conf'.max[k] = ops[1].to
        /\ ~Sets(ops[1], k) => conf'.max[k] = conf.max[k]
    BY DEF ops
  <2> QED
    BY <1>1, <2>1, <2>2, TailMends
<1>6. name # "start" /\ Found(name, before) => \A k \in Touches(name) : conf'.restore[k] = before[k]
  BY DEF name, before
<1>7. OnCourse(name, before, Tail(ops), conf')
  BY <1>3, <1>5, <1>6, <1>8 DEF OnCourse
<1> QED
  BY <1>2, <1>7 DEF name, before

(* A step of a restart on its course keeps it there.                       *)
LEMMA StepOnCourse ==
  ASSUME RInv, NEW r \in Reqs, Step(r), Restarting(r)
  PROVE  OnCourse(proc[r].name, proc[r].before, proc'[r].ops, conf')
<1> DEFINE ops == proc[r].ops
           before == proc[r].before
           name == proc[r].name
<1>1. r \in Processes /\ IInv
  BY ReqsProcesses DEF RInv
<1>2. Busy(r)
  BY DEF Step, DoRemember, DoSave, ScaleBegin, ScaleTask, ScaleEnd, ScaleSet, DoWait, At
<1>3. OnCourse(name, before, ops, conf) /\ name \in Directed
  BY DEF RInv, RestartsOnCourse, Restarting
<1> DEFINE aim == Aim(name, before, conf)
<1>4. /\ Program(ops) /\ ops # <<>> /\ Head(ops) = ops[1] /\ ops[1] \in ProperOp
      /\ Len(ops) \in Nat /\ Len(ops) >= 1
  BY <1>1, <1>2, FirstOp DEF IInv, Programs, Busy
<1>5. ops[1].do # "remember" /\ name # "start" /\ Found(name, before) =>
        \A k \in Touches(name) : conf.restore[k] = before[k]
  BY <1>3 DEF OnCourse, Remembers
<1>6. CASE DoRemember(r)
  <2>1. ops[1].do = "remember" /\ proc' = Advanced(r)
    BY <1>4, <1>6 DEF DoRemember, At
  <2>2. name # "start" /\ ops[1].kinds = Touches(name) /\ conf.max = before
    BY <1>3, <1>4, <2>1 DEF OnCourse, Remembers
  <2> DEFINE found == [k \in Kinds |-> IF k \in Touches(name) THEN conf.max[k] ELSE conf.restore[k]]
  <2>3. conf' = IF \A k \in Touches(name) : conf.max[k] # 0
                THEN [conf EXCEPT !.restore = found] ELSE conf
    BY <1>4, <1>6, <2>2 DEF DoRemember
  <2>4. Found(name, before) => conf' = [conf EXCEPT !.restore = found]
    BY <2>2, <2>3 DEF Found
  <2>6. \A k \in Touches(name) : found[k] = before[k]
    BY <1>3, <2>2, TouchesKinds
  <2> HIDE DEF found
  <2>7. conf \in [max : Amounts, restore : Amounts]
    BY <1>1 DEF IInv, TypeOK, Config
  <2>8. conf'.max = conf.max /\ (Found(name, before) => conf'.restore = found)
    BY <2>3, <2>4, <2>7
  <2>9. \A k \in Kinds : ~Sets(ops[1], k)
    BY <2>1 DEF Sets
  <2>10. Found(name, before) => \A k \in Touches(name) : conf'.restore[k] = before[k]
    BY <2>6, <2>8
  <2> QED
    BY <1>2, <2>1, <2>2, <2>8, <2>9, <2>10, AdvancedOnCourse
<1>7. CASE DoSave(r) \/ ScaleEnd(r) \/ DoWait(r)
  <2>1. /\ ops[1].do \in {"save", "kill", "wait"} /\ proc' = Advanced(r) /\ conf' = conf
    BY <1>4, <1>7 DEF DoSave, ScaleEnd, DoWait, At
  <2>2. \A k \in Kinds : ~Sets(ops[1], k)
    BY <2>1 DEF Sets
  <2>3. name # "start" /\ Found(name, before) =>
          \A k \in Touches(name) : conf'.restore[k] = before[k]
    BY <1>5, <2>1
  <2> QED
    BY <1>2, <2>1, <2>2, <2>3, AdvancedOnCourse
<1>8. CASE ScaleSet(r)
  <2>1. /\ ops[1].do = "set" /\ proc' = Advanced(r)
        /\ conf' = [conf EXCEPT !.max = [conf.max EXCEPT ![KindAt(r)] = ops[1].to]]
    BY <1>4, <1>8 DEF ScaleSet, At
  <2>2. KindAt(r) \in Kinds /\ ops[1].kinds = {KindAt(r)}
    BY <1>1, <1>2, <2>1, KindOfOp
  <2>3. conf \in [max : Amounts, restore : Amounts] /\ conf.max \in Amounts
    BY <1>1 DEF IInv, TypeOK, Config
  <2>4. /\ conf'.restore = conf.restore
        /\ conf'.max = [conf.max EXCEPT ![KindAt(r)] = ops[1].to]
    BY <2>1, <2>3
  <2>5. \A k \in Kinds : Sets(ops[1], k) <=> k = KindAt(r)
    BY <2>1, <2>2 DEF Sets
  <2>6. \A k \in Kinds : /\ k = KindAt(r) => conf'.max[k] = ops[1].to
                         /\ k # KindAt(r) => conf'.max[k] = conf.max[k]
    BY <2>2, <2>3, <2>4 DEF Amounts
  <2>7. name # "start" /\ Found(name, before) =>
          \A k \in Touches(name) : conf'.restore[k] = before[k]
    BY <1>5, <2>1, <2>4
  <2> QED
    BY <1>2, <2>1, <2>4, <2>5, <2>6, <2>7, AdvancedOnCourse
<1>9. CASE ScaleBegin(r)
  <2> DEFINE j == KindAt(r)
             n == IF ops[1].to = Restored THEN conf.restore[j] ELSE ops[1].to
             kill == [Op("kill", {j}, n) EXCEPT !.old = conf.max[j]]
             set == Op("set", {j}, n)
             new == <<kill, set>> \o Tail(ops)
  <2>1. proc'[r].ops = new
    BY <1>1, <1>9, ScaleBeginProc
  <2>2. ops[1].do = "scale" /\ conf' = conf
    BY <1>4, <1>9 DEF ScaleBegin, At
  <2>3. j \in Kinds /\ ops[1].kinds = {j}
    BY <1>1, <1>2, <2>2, KindOfOp
  <2>4. kill.do = "kill" /\ set.do = "set" /\ set.kinds = ops[1].kinds /\ set.to = n
    <3> HIDE DEF n, j, ops
    <3> QED
      BY <2>3 DEF Op
  <2>5. name # "start" /\ Found(name, before) =>
          \A k \in Touches(name) : conf.restore[k] = before[k]
    BY <1>5, <2>2
  <2>6. ASSUME NEW k \in Kinds
        PROVE  /\ Mends(new, k, Asked(name), aim[k], conf)
               /\ k \notin Touches(name) => LeavesAlone(new, k)
    <3>1. /\ Mends(ops, k, Asked(name), aim[k], conf)
          /\ k \notin Touches(name) => LeavesAlone(ops, k)
      BY <1>3 DEF OnCourse
    <3>2. Sets(ops[1], k) /\ ops[1].to = Asked(name) => set.to = aim[k]
      <4> SUFFICES ASSUME Sets(ops[1], k), ops[1].to = Asked(name) PROVE n = aim[k]
        BY <2>4
      <4>1. k = j
        BY <2>3 DEF Sets
      <4>2. k \in Touches(name)
        <5>1. 1 \in 1 .. Len(ops)
          BY <1>4
        <5> QED
          BY <3>1, <5>1 DEF LeavesAlone
      <4>3. CASE name = "shutdown"
        <5>1. ops[1].to = 0 /\ aim = Zero
          BY <4>3 DEF Asked, Aim
        <5> QED
          BY <5>1, Marks
      <4>4. CASE name = "start"
        <5>1. ops[1].to = Restored /\ aim = conf.restore
          BY <4>4 DEF Asked, Aim
        <5> QED
          BY <4>1, <5>1
      <4>5. CASE name \in Restarts
        <5>1. Asked(name) = Restored /\ aim = before /\ name # "start"
          BY <4>5 DEF Asked, Aim, Restarts
        <5>2. Found(name, before)
          BY <4>5 DEF Restarting
        <5> QED
          BY <2>5, <4>1, <4>2, <5>1, <5>2
      <4> QED
        BY <1>3, <4>3, <4>4, <4>5 DEF Directed
    <3> HIDE DEF kill, set, n, j, ops, name, before, aim
    <3> QED
      BY <1>4, <2>2, <2>4, <3>1, <3>2, BeginMends
  <2>7. ~Remembers(new)
    <3>1. Tail(ops) \in Seq(ProperOp)
      BY <1>4, TailProgram DEF Program
    <3> HIDE DEF kill, set
    <3>2. new[1] = kill
      BY <3>1
    <3> QED
      BY <2>4, <3>2 DEF Remembers
  <2> HIDE DEF new
  <2>8. OnCourse(name, before, new, conf)
    BY <2>5, <2>6, <2>7 DEF OnCourse
  <2> QED
    BY <2>1, <2>2, <2>8
<1>10. ASSUME NEW t \in Tasks, ScaleTask(r, t)
       PROVE  OnCourse(name, before, proc'[r].ops, conf')
  <2> DEFINE new == proc'[r].ops
  <2>1. /\ Len(new) = Len(ops)
        /\ \A i \in 1 .. Len(ops) :
             new[i].do = ops[i].do /\ new[i].kinds = ops[i].kinds /\ new[i].to = ops[i].to
    BY <1>1, <1>10, ScaleTaskProc
  <2>2. ops[1].do = "kill" /\ conf' = conf
    BY <1>4, <1>10 DEF ScaleTask, At
  <2>3. ~Remembers(new) /\ ~Remembers(ops)
    BY <1>4, <2>1, <2>2 DEF Remembers
  <2> HIDE DEF new, ops, before, name
  <2>4. ASSUME NEW k \in Kinds
        PROVE  /\ Mends(new, k, Asked(name), aim[k], conf)
               /\ k \notin Touches(name) => LeavesAlone(new, k)
    <3>1. /\ Mends(ops, k, Asked(name), aim[k], conf)
          /\ k \notin Touches(name) => LeavesAlone(ops, k)
      BY <1>3 DEF OnCourse
    <3> HIDE DEF aim
    <3> QED
      BY <2>1, <3>1, SameMends
  <2>5. OnCourse(name, before, new, conf)
    BY <1>3, <2>3, <2>4 DEF OnCourse
  <2> QED
    BY <2>2, <2>5 DEF new
<1> QED
  BY <1>6, <1>7, <1>8, <1>9, <1>10 DEF Step

(* Nobody's program changes a number while a restart has the cluster to    *)
(* itself, but its own.                                                    *)
LEMMA StepAlone ==
  ASSUME RInv, NEW p \in Processes, Step(p) PROVE Alone' /\ RestartsOnCourse'
<1>1. IInv /\ p \in Processes /\ Busy(p)
  BY DEF RInv, Step, DoRemember, DoSave, ScaleBegin, ScaleTask, ScaleEnd, ScaleSet, DoWait, At
<1>2. \A q \in Processes \ {p} : proc'[q] = proc[q]
  <2>1. CASE proc' = Advanced(p)
    BY <1>1, <2>1, AdvancedProgram
  <2>2. CASE ScaleBegin(p)
    BY <1>1, <2>2, ScaleBeginProc
  <2>3. ASSUME NEW t \in Tasks, ScaleTask(p, t) PROVE \A q \in Processes \ {p} : proc'[q] = proc[q]
    BY <1>1, <2>3, ScaleTaskProc
  <2> QED
    BY <2>1, <2>2, <2>3 DEF Step, DoRemember, DoSave, ScaleEnd, ScaleSet, DoWait
<1>3. NoProcess.alone = FALSE
  BY DEF NoProcess
<1>4. ASSUME NEW r \in Reqs, proc'[r].alone
      PROVE  proc[r].alone /\ Busy(r)' /\ (r # p => p \notin Reqs)
  <2>1. r \in Processes
    BY ReqsProcesses
  <2>2. CASE r = p
    BY <1>1, <1>3, <1>4, <2>2, StepKeeps DEF Busy
  <2>3. CASE r # p
    BY <1>1, <1>2, <1>4, <2>1, <2>3 DEF RInv, Alone, Busy
  <2> QED
    BY <2>2, <2>3
<1>5. Alone'
  <2> SUFFICES ASSUME NEW r \in Reqs, proc'[r].alone, NEW q \in Reqs \ {r}
               PROVE  Busy(r)' /\ ~Busy(q)'
    BY <1>4 DEF Alone
  <2>1. ~Busy(q)
    BY <1>4 DEF RInv, Alone
  <2>2. q # p /\ q \in Processes
    BY <1>1, <2>1, ReqsProcesses
  <2> QED
    BY <1>2, <1>4, <2>1, <2>2 DEF Busy
<1>6. RestartsOnCourse'
  <2> SUFFICES ASSUME NEW r \in Reqs, Restarting(r)'
               PROVE  OnCourse(proc'[r].name, proc'[r].before, proc'[r].ops, conf')
    BY DEF RestartsOnCourse
  <2>1. proc'[r].alone
    BY DEF Restarting
  <2>2. CASE r = p
    <3>1. /\ proc'[r].name = proc[r].name /\ proc'[r].before = proc[r].before
          /\ proc'[r].alone = proc[r].alone
      BY <1>1, <1>3, <2>1, <2>2, StepKeeps
    <3>2. Restarting(r)
      BY <3>1 DEF Restarting
    <3> QED
      BY <2>2, <3>1, <3>2, StepOnCourse
  <2>3. CASE r # p
    <3>1. p = Beat
      BY <1>4, <2>1, <2>3 DEF Processes
    <3>2. proc'[r] = proc[r]
      BY <1>2, <2>3, ReqsProcesses
    <3>3. Restarting(r)
      BY <3>2 DEF Restarting
    <3>4. conf' = conf
      <4>1. proc[p].ops[1].do \in {"start", "kill"} /\ Head(proc[p].ops) = proc[p].ops[1]
        <5>1. 1 \in 1 .. Len(proc[p].ops) /\ Head(proc[p].ops) = proc[p].ops[1]
          BY <1>1, FirstOp
        <5> QED
          BY <1>1, <3>1, <5>1 DEF IInv, BeatOnlyKills
      <4> QED
        BY <4>1 DEF Step, DoRemember, DoSave, ScaleBegin, ScaleTask, ScaleEnd, ScaleSet, DoWait, At
    <3> QED
      BY <3>2, <3>3, <3>4 DEF RInv, RestartsOnCourse
  <2> QED
    BY <2>2, <2>3
<1> QED
  BY <1>5, <1>6

(* A request comes: if nobody else is there, it finds the numbers that it  *)
(* has to bring back.                                                      *)
LEMMA ArriveAlone ==
  ASSUME RInv, NEW r \in Reqs, Request(r) PROVE Alone' /\ RestartsOnCourse'
<1>1. PICK name, ops :
        /\ Arrive(r, name, ops) /\ ops # <<>>
        /\ name \in Directed => ops = Handler(name)
  <2>1. CASE \E name \in Requests \ {"scale"} : Arrive(r, name, Handler(name))
    BY <2>1, Handlers
  <2>2. CASE \E k \in Kinds, n \in 0 .. Limit : Arrive(r, "scale", <<ScaleTo(k, n)>>)
    <3>1. "scale" \notin Directed
      BY DEF Directed, Restarts
    <3>2. \A k, n : <<ScaleTo(k, n)>> # <<>>
      OBVIOUS
    <3> QED
      BY <2>2, <3>1, <3>2
  <2> QED
    BY <2>1, <2>2 DEF Request
<1>2. \A q \in Reqs \ {r} : proc'[q] = [proc[q] EXCEPT !.alone = FALSE, !.before = Zero]
  BY <1>1, ReqsProcesses DEF Arrive
<1>3. \A q \in Reqs \ {r} : proc'[q].alone = FALSE /\ proc'[q].ops = proc[q].ops
  <2> SUFFICES ASSUME NEW q \in Reqs \ {r}
               PROVE  proc'[q].alone = FALSE /\ proc'[q].ops = proc[q].ops
    OBVIOUS
  <2>1. proc[q] \in Process
    BY ReqsProcesses DEF RInv, IInv, TypeOK
  <2> QED
    BY <1>2, <2>1 DEF Process
<1>4. proc'[r] = [name |-> name, ops |-> ops, todo |-> {}, alone |-> Quiet,
                  before |-> IF Quiet THEN conf.max ELSE Zero]
  BY <1>1, ReqsProcesses DEF Arrive
<1>5. /\ proc'[r].name = name /\ proc'[r].ops = ops /\ proc'[r].alone = Quiet
      /\ Quiet => proc'[r].before = conf.max
  <2> HIDE DEF Quiet
  <2> QED
    BY <1>4
<1>6. Alone'
  <2> SUFFICES ASSUME NEW q \in Reqs, proc'[q].alone
               PROVE  Busy(q)' /\ \A s \in Reqs \ {q} : ~Busy(s)'
    BY DEF Alone
  <2>1. q = r
    BY <1>3
  <2>2. Quiet /\ Busy(r)'
    BY <1>1, <1>5, <2>1 DEF Busy
  <2> QED
    BY <1>3, <2>1, <2>2 DEF Quiet, Busy
<1>7. RestartsOnCourse'
  <2> SUFFICES ASSUME NEW q \in Reqs, Restarting(q)'
               PROVE  OnCourse(proc'[q].name, proc'[q].before, proc'[q].ops, conf')
    BY DEF RestartsOnCourse
  <2>1. q = r
    BY <1>3 DEF Restarting
  <2>2. Quiet /\ name \in Directed
    BY <1>5, <2>1 DEF Restarting
  <2>3. /\ proc'[r].name = name /\ proc'[r].before = conf.max
        /\ proc'[r].ops = Handler(name) /\ conf' = conf
    BY <1>1, <1>5, <2>2 DEF Arrive
  <2> QED
    BY <2>1, <2>2, <2>3, HandlerOnCourse
<1> QED
  BY <1>6, <1>7

(* At the start nothing is restarting.                                     *)
LEMMA InitAlone == Init => RInv
<1> SUFFICES ASSUME Init PROVE RInv
  OBVIOUS
<1>1. \A r \in Reqs : proc[r].alone = FALSE
  BY ReqsProcesses DEF Init, NoProcess
<1> QED
  BY <1>1, InitInv DEF RInv, Alone, RestartsOnCourse, Restarting

(* Every step keeps restarts on their course.                              *)
THEOREM StepRestarts == RInv /\ [Next]_vars => RInv'
<1> SUFFICES ASSUME RInv, [Next]_vars PROVE Alone' /\ RestartsOnCourse'
  BY StepInv DEF RInv
<1>0. IInv
  BY DEF RInv
<1>1. ASSUME NEW r \in Reqs, Request(r) PROVE Alone' /\ RestartsOnCourse'
  BY <1>1, ArriveAlone
<1>2. ASSUME NEW p \in Processes, Step(p) PROVE Alone' /\ RestartsOnCourse'
  BY <1>2, StepAlone
<1>3. ASSUME conf' = conf, \A r \in Reqs : proc'[r] = proc[r] PROVE Alone' /\ RestartsOnCourse'
  <2>1. \A r \in Reqs : Busy(r)' <=> Busy(r)
    BY <1>3 DEF Busy
  <2>2. \A r \in Reqs : Restarting(r)' <=> Restarting(r)
    BY <1>3 DEF Restarting
  <2> QED
    BY <1>3, <2>1, <2>2 DEF RInv, Alone, RestartsOnCourse
<1>4. ASSUME NEW k \in Kinds, BeatCount(k) PROVE Alone' /\ RestartsOnCourse'
  <2>1. conf' = conf
    BY <1>4 DEF BeatCount
  <2>2. \A r \in Reqs : proc'[r] = proc[r]
    BY <1>0, <1>4, ReqsProcesses DEF BeatCount, IInv, TypeOK
  <2> QED
    BY <1>3, <2>1, <2>2
<1>5. CASE BeatStart
  <2>1. Busy(Beat) /\ proc' = Advanced(Beat) /\ conf' = conf
    BY <1>5 DEF BeatStart, At
  <2>2. \A r \in Reqs : proc'[r] = proc[r]
    BY <1>0, <2>1, AdvancedProgram, ReqsProcesses
  <2> QED
    BY <1>3, <2>1, <2>2
<1>6. ASSUME NEW t \in Tasks, TaskGone(t) \/ TaskReports(t) \/ TaskFails(t)
      PROVE  Alone' /\ RestartsOnCourse'
  BY <1>3, <1>6 DEF TaskGone, TaskReports, TaskFails
<1>7. CASE Crash
  <2>1. \A r \in Reqs : proc'[r].alone = FALSE
    BY <1>7, ReqsProcesses DEF Crash, NoProcess
  <2> QED
    BY <2>1 DEF Alone, RestartsOnCourse, Restarting
<1>8. CASE UNCHANGED vars
  BY <1>3, <1>8 DEF vars
<1> QED
  BY <1>1, <1>2, <1>4, <1>5, <1>6, <1>7, <1>8 DEF Next

(* A request that ends has done what it was for.                           *)
LEMMA EndMends ==
  ASSUME RInv, NEW r \in Reqs, Finishes(r), Restarting(r)
  PROVE  /\ OnCourse(proc[r].name, proc[r].before, <<>>, conf')
         /\ conf'.max \in Amounts /\ conf'.restore \in Amounts /\ proc[r].before \in Amounts
         /\ \A k \in Kinds : conf'.max[k] = Aim(proc[r].name, proc[r].before, conf')[k]
<1>1. OnCourse(proc[r].name, proc[r].before, <<>>, conf')
  <2>1. proc'[r].ops = <<>>
    BY NoProcessTyped DEF Finishes
  <2> QED
    BY <2>1, StepOnCourse DEF Finishes
<1>2. \A k \in Kinds : conf'.max[k] = Aim(proc[r].name, proc[r].before, conf')[k]
  <2>1. \A k, to, b : ~LastBringsBack(<<>>, k, to, b)
    BY DEF LastBringsBack
  <2> QED
    BY <1>1, <2>1 DEF OnCourse, Mends
<1>3. proc[r].before \in Amounts
  BY ReqsProcesses DEF RInv, IInv, TypeOK, Process
<1>4. conf'.max \in Amounts /\ conf'.restore \in Amounts
  <2>1. r \in Processes /\ Step(r)
    BY ReqsProcesses DEF Finishes
  <2>2. IInv'
    BY <2>1, StepInv DEF RInv, Next
  <2> QED
    BY <2>2 DEF IInv, TypeOK, Config
<1> QED
  BY <1>1, <1>2, <1>3, <1>4

(* Amounts are the same if they are so for every kind.                     *)
LEMMA SameAmounts ==
  ASSUME NEW m \in Amounts, NEW n \in Amounts, \A k \in Kinds : m[k] = n[k] PROVE m = n
  BY DEF Amounts

LEMMA EndRestores ==
  ASSUME RInv, NEW r \in Reqs, Finishes(r), proc[r].alone, proc[r].name \in Restarts,
         \A k \in Stops(proc[r].name) : proc[r].before[k] # 0
  PROVE  conf'.max = proc[r].before
<1>1. Restarting(r)
  BY DEF Restarting, Directed, Found, Touches
<1>2. Aim(proc[r].name, proc[r].before, conf') = proc[r].before
  BY DEF Aim, Restarts
<1> QED
  BY <1>1, <1>2, EndMends, SameAmounts

LEMMA EndSleeps ==
  ASSUME RInv, NEW r \in Reqs, Finishes(r), proc[r].alone
  PROVE  /\ proc[r].name = "shutdown" =>
              /\ conf'.max = Zero
              /\ (\A k \in Kinds : proc[r].before[k] # 0) => conf'.restore = proc[r].before
         /\ proc[r].name = "start" => conf'.max = conf'.restore
<1>1. ASSUME proc[r].name = "shutdown"
      PROVE  /\ conf'.max = Zero
             /\ (\A k \in Kinds : proc[r].before[k] # 0) => conf'.restore = proc[r].before
  <2>1. Restarting(r) /\ Touches(proc[r].name) = Kinds
    BY <1>1 DEF Restarting, Directed, Restarts, Touches
  <2>2. Aim(proc[r].name, proc[r].before, conf') = Zero
    BY <1>1 DEF Aim
  <2>3. conf'.max = Zero
    BY <2>1, <2>2, EndMends, SameAmounts, Marks
  <2>4. ASSUME \A k \in Kinds : proc[r].before[k] # 0 PROVE conf'.restore = proc[r].before
    <3>1. \A k \in Kinds : conf'.restore[k] = proc[r].before[k]
      BY <1>1, <2>1, <2>4, EndMends DEF OnCourse, Remembers, Found
    <3> QED
      BY <2>1, <3>1, EndMends, SameAmounts
  <2> QED
    BY <2>3, <2>4
<1>2. ASSUME proc[r].name = "start" PROVE conf'.max = conf'.restore
  <2>1. Restarting(r)
    BY <1>2 DEF Restarting, Directed, Restarts
  <2>2. Aim(proc[r].name, proc[r].before, conf') = conf'.restore
    BY <1>2 DEF Aim
  <2> QED
    BY <2>1, <2>2, EndMends, SameAmounts
<1> QED
  BY <1>1, <1>2

(* Whatever the numbers, the Heartbeat passes, the records and the KILL    *)
(* calls that are lost: a restart that has the cluster to itself leaves    *)
(* every number as it found it.                                            *)
THEOREM RestartsRestore == Spec => RestartRestores
<1>1. Init => RInv
  BY InitAlone
<1>2. RInv /\ [Next]_vars => RInv'
  BY StepRestarts
<1>3. RInv /\ [Next]_vars =>
        [\A r \in Reqs :
           /\ Finishes(r) /\ proc[r].alone /\ proc[r].name \in Restarts
           /\ \A k \in Stops(proc[r].name) : proc[r].before[k] # 0
           => conf'.max = proc[r].before]_vars
  BY EndRestores
<1> QED
  BY <1>1, <1>2, <1>3, PTL DEF Spec, RestartRestores

(* The same of a shutdown and of a start: the one leaves every number at 0 *)
(* and, if none was, remembers those it found; the other brings back what  *)
(* is remembered.                                                          *)
THEOREM SleepsAndWakes == Spec => ShutdownAndStart
<1>1. Init => RInv
  BY InitAlone
<1>2. RInv /\ [Next]_vars => RInv'
  BY StepRestarts
<1>3. RInv /\ [Next]_vars =>
        [\A r \in Reqs :
           Finishes(r) /\ proc[r].alone
           => /\ proc[r].name = "shutdown" =>
                   /\ conf'.max = Zero
                   /\ (\A k \in Kinds : proc[r].before[k] # 0) => conf'.restore = proc[r].before
              /\ proc[r].name = "start" => conf'.max = conf'.restore]_vars
  BY EndSleeps
<1> QED
  BY <1>1, <1>2, <1>3, PTL DEF Spec, ShutdownAndStart
=============================================================================
