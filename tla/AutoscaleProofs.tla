--------------------------- MODULE AutoscaleProofs ---------------------------
(***************************************************************************)
(* Proofs about Autoscale, for any applications, agents, labels, maximum,  *)
(* operator and number of failures.                                        *)
(***************************************************************************)
EXTENDS Autoscale, TLAPS

\* The maximum a round read of an application is one the application had.
ReadMaximum == \A a \in Apps : seen[a].max <= most[a]

\* The application has its maximum at least.
HadMaximum == \A a \in Apps : MaximumOf(label[a]) <= most[a]

\* The number being sent is within the maximum read.
WithinMaximum == pc = "put" => Grow(seen[cur].instances) <= seen[cur].max

IInv == TypeOK /\ ReadMaximum /\ HadMaximum /\ WithinMaximum /\ NeverAboveMaximum

USE DEF clusterVars, roundVars

\* What a step of the loop leaves alone: it does not write to Marathon.
Unwritten == UNCHANGED clusterVars

\* ceil(1.5 n) is a number of instances, and at least one more than n > 0.
LEMMA GrowGrows ==
    ASSUME NEW n \in Nat PROVE Grow(n) \in Nat /\ (n > 0 => Grow(n) > n)
  BY SMT DEF Grow

\* The maximum is a number.
LEMMA MaxIsNumber == MaxInstances \in Nat
  BY MaxAssumption DEF MaxInstances, DefaultMax

\* So is the one of an application, whatever its label.
LEMMA MaximumIsNumber == ASSUME NEW l PROVE MaximumOf(l) \in Nat
  BY MaxIsNumber DEF MaximumOf

LEMMA InitIInv == Init => IInv
<1> SUFFICES ASSUME Init PROVE IInv
  OBVIOUS
<1>1. \A a \in Apps : most[a] = MaximumOf(label[a]) /\ most[a] \in Nat
  BY MaximumIsNumber DEF Init
<1>2. TypeOK
  <2>1. seen \in [Apps -> App] /\ most \in [Apps -> Nat] /\ events \in 0..MaxEvents
    BY <1>1, BoundsAssumption DEF Init, App, NothingSeen
  <2>2. QED
    BY <2>1 DEF Init, TypeOK
<1>3. ReadMaximum /\ HadMaximum /\ WithinMaximum
  BY <1>1 DEF Init, ReadMaximum, HadMaximum, WithinMaximum, NothingSeen
<1>4. NeverAboveMaximum
  BY BoundsAssumption DEF Init, NeverAboveMaximum
<1>5. QED
  BY <1>2, <1>3, <1>4 DEF IInv

\* A step that leaves Marathon's numbers and labels alone.
LEMMA SameInstances ==
    ASSUME NeverAboveMaximum, HadMaximum,
           instances' = instances, label' = label, most' = most
    PROVE  NeverAboveMaximum' /\ HadMaximum'
  BY DEF NeverAboveMaximum, HadMaximum

\* A step that leaves the round alone and lets no maximum ever had be less.
LEMMA SameRound ==
    ASSUME TypeOK, ReadMaximum, WithinMaximum, UNCHANGED roundVars, most' \in [Apps -> Nat],
           \A a \in Apps : most[a] <= most'[a]
    PROVE  ReadMaximum' /\ WithinMaximum'
<1>1. ReadMaximum'
  <2> SUFFICES ASSUME NEW a \in Apps PROVE seen[a].max <= most'[a]
    BY DEF ReadMaximum
  <2>1. seen[a].max \in Nat /\ most[a] \in Nat /\ most'[a] \in Nat
    BY DEF TypeOK, App
  <2>2. seen[a].max <= most[a] /\ most[a] <= most'[a]
    BY DEF ReadMaximum
  <2>3. QED
    BY <2>1, <2>2
<1>2. WithinMaximum'
  BY DEF WithinMaximum
<1>3. QED
  BY <1>1, <1>2

\* A step of the loop that starts no PUT and keeps what was read.
LEMMA LoopStep ==
    ASSUME IInv, TypeOK', Unwritten, seen' = seen,
           pc' # "put" \/ (pc = "put" /\ cur' = cur)
    PROVE  IInv'
<1>1. ReadMaximum'
  BY DEF IInv, ReadMaximum, Unwritten
<1>2. WithinMaximum'
  BY DEF IInv, WithinMaximum
<1>3. QED
  BY <1>1, <1>2, SameInstances DEF IInv, Unwritten

\* A step of the cluster that changes neither numbers nor labels.
LEMMA ClusterStep ==
    ASSUME IInv, TypeOK', UNCHANGED <<instances, label, most, roundVars>> PROVE IInv'
<1>1. \A a \in Apps : most[a] <= most'[a]
  BY DEF IInv, TypeOK
<1>2. ReadMaximum' /\ WithinMaximum'
  BY <1>1, SameRound DEF IInv, TypeOK
<1>3. QED
  BY <1>2, SameInstances DEF IInv

\* The end of the process.
LEMMA PanicStep ==
    ASSUME IInv, Panic, Unwritten, events' \in 0..MaxEvents PROVE IInv'
<1>1. TypeOK'
  BY DEF IInv, TypeOK, Panic, Unwritten, NothingSeen, App
<1>2. ReadMaximum'
  BY DEF IInv, TypeOK, ReadMaximum, Panic, Unwritten, NothingSeen
<1>3. WithinMaximum'
  BY DEF WithinMaximum, Panic
<1>4. QED
  BY <1>1, <1>2, <1>3, SameInstances DEF IInv, Unwritten

LEMMA TickStep == ASSUME IInv, Tick PROVE IInv'
<1>1. TypeOK'
  BY DEF IInv, TypeOK, Tick
<1>2. QED
  BY <1>1, LoopStep DEF Tick, Unwritten

LEMMA ReadAppStep == ASSUME IInv, NEW a \in Apps, ReadApp(a) PROVE IInv'
<1>1. [instances |-> instances[a], tasks |-> tasks[a],
       max |-> MaximumOf(label[a])] \in App
  BY MaximumIsNumber DEF IInv, TypeOK, App
<1>2. TypeOK'
  BY <1>1 DEF IInv, TypeOK, ReadApp
<1>3. ReadMaximum'
  BY DEF IInv, TypeOK, ReadMaximum, HadMaximum, ReadApp
<1>4. WithinMaximum'
  BY DEF WithinMaximum, ReadApp
<1>5. QED
  BY <1>2, <1>3, <1>4, SameInstances DEF IInv, ReadApp

LEMMA ReadSlavesStep == ASSUME IInv, ReadSlaves PROVE IInv'
<1>1. TypeOK'
  BY DEF IInv, TypeOK, ReadSlaves
<1>2. QED
  BY <1>1, LoopStep DEF ReadSlaves, Unwritten

LEMMA StatisticStep == ASSUME IInv, NEW a \in Apps, Statistic(a) PROVE IInv'
<1>1. Overloaded(a) \subseteq BOOLEAN
  BY DEF Overloaded
<1>2. PICK over \in BOOLEAN :
         /\ pc' = IF over THEN "scale"
                  ELSE IF todo = {a} THEN "sleep" ELSE "stats"
         /\ cur' = IF over THEN a ELSE Nobody
  BY <1>1 DEF Statistic
<1>3. TypeOK'
  BY <1>2 DEF IInv, TypeOK, Statistic
<1>4. QED
  BY <1>2, <1>3, LoopStep DEF Statistic, Unwritten

LEMMA ScaleUpStep == ASSUME IInv, ScaleUp PROVE IInv'
<1>1. TypeOK'
  BY DEF IInv, TypeOK, ScaleUp
<1>2. ReadMaximum'
  BY DEF IInv, ReadMaximum, ScaleUp
<1>3. WithinMaximum'
  BY DEF WithinMaximum, ScaleUp
<1>4. QED
  BY <1>1, <1>2, <1>3, SameInstances DEF IInv, ScaleUp

LEMMA PutReadsStep == ASSUME IInv, PutReads PROVE IInv'
<1>1. TypeOK'
  BY DEF IInv, TypeOK, PutReads, NextApp
<1>2. QED
  BY <1>1, LoopStep DEF PutReads, NextApp, Unwritten

LEMMA PutTakenStep == ASSUME IInv, PutTaken PROVE IInv'
<1>1. pc = "put" /\ cur \in Apps
  BY DEF IInv, TypeOK, PutTaken
<1>2. /\ seen[cur].instances \in Nat /\ seen[cur].max \in Nat /\ most[cur] \in Nat
      /\ Grow(seen[cur].instances) \in Nat
  BY <1>1, GrowGrows DEF IInv, TypeOK, App
<1>3. Grow(seen[cur].instances) <= most[cur]
  <2>1. Grow(seen[cur].instances) <= seen[cur].max
    BY <1>1 DEF IInv, WithinMaximum
  <2>2. seen[cur].max <= most[cur]
    BY <1>1 DEF IInv, ReadMaximum
  <2>3. QED
    BY <1>2, <2>1, <2>2
<1>4. TypeOK'
  BY <1>1, <1>2 DEF IInv, TypeOK, PutTaken
<1>5. NeverAboveMaximum'
  <2> SUFFICES ASSUME NEW a \in Apps
               PROVE  instances'[a] <= most'[a] \/ instances'[a] <= Target
    BY DEF NeverAboveMaximum
  <2>1. CASE a = cur
    BY <1>1, <1>3, <2>1 DEF IInv, TypeOK, PutTaken
  <2>2. CASE a # cur
    BY <2>2 DEF IInv, TypeOK, PutTaken, NeverAboveMaximum
  <2>3. QED
    BY <2>1, <2>2
<1>6. HadMaximum'
  BY DEF IInv, HadMaximum, PutTaken
<1>7. ReadMaximum' /\ WithinMaximum'
  BY DEF IInv, ReadMaximum, WithinMaximum, PutTaken
<1>8. QED
  BY <1>4, <1>5, <1>6, <1>7 DEF IInv

LEMMA RefuseStep == ASSUME IInv, Refuse PROVE IInv'
<1>1. [app |-> cur, instances |-> seen[cur].instances, max |-> seen[cur].max]
        \in [app : Apps, instances : Nat, max : Nat]
  BY DEF IInv, TypeOK, Refuse, App
<1>2. TypeOK'
  BY <1>1 DEF IInv, TypeOK, Refuse, NextApp
<1>3. QED
  BY <1>2, LoopStep DEF Refuse, NextApp, Unwritten

LEMMA ScaleRejectedStep == ASSUME IInv, ScaleRejected PROVE IInv'
<1>1. TypeOK'
  <2>1. events' \in 0..MaxEvents
    BY BoundsAssumption DEF IInv, TypeOK, ScaleRejected
  <2>2. QED
    BY <2>1 DEF IInv, TypeOK, ScaleRejected, NextApp
<1>2. QED
  BY <1>1, LoopStep DEF ScaleRejected, NextApp, Unwritten

LEMMA RestartStep == ASSUME IInv, Restart PROVE IInv'
<1>1. TypeOK'
  BY DEF IInv, TypeOK, Restart
<1>2. QED
  BY <1>1, LoopStep DEF Restart, Unwritten

\* The load of an application changes.
LEMMA LoadStep == ASSUME IInv, NEW a \in Apps, Heat(a) \/ Cool(a) PROVE IInv'
<1>1. TypeOK'
  BY BoundsAssumption DEF Heat, Cool, IInv, TypeOK
<1>2. QED
  BY <1>1, ClusterStep DEF Heat, Cool

\* Tasks and agents come and go.
LEMMA TaskStep ==
    ASSUME IInv, NEW a \in Apps, NEW s \in Slaves, Launch(a, s) \/ TaskLost(a, s)
    PROVE  IInv'
<1>1. TypeOK'
  BY DEF Launch, TaskLost, IInv, TypeOK
<1>2. QED
  BY <1>1, ClusterStep DEF Launch, TaskLost

LEMMA SlaveStep ==
    ASSUME IInv, NEW s \in Slaves, SlaveLost(s) \/ SlaveJoins(s) PROVE IInv'
<1>1. TypeOK'
  BY BoundsAssumption DEF SlaveLost, SlaveJoins, IInv, TypeOK
<1>2. QED
  BY <1>1, ClusterStep DEF SlaveLost, SlaveJoins

LEMMA DeployStep == ASSUME IInv, NEW a \in Apps, Deploy(a) PROVE IInv'
<1>1. PICK n \in 1..Target : instances' = [instances EXCEPT ![a] = n]
  BY DEF Deploy
<1>2. PICK l \in Labels : /\ label' = [label EXCEPT ![a] = l]
                          /\ most' = [most EXCEPT ![a] = Greater(@, MaximumOf(l))]
  BY DEF Deploy
<1>3. most[a] \in Nat /\ MaximumOf(l) \in Nat
  BY MaximumIsNumber DEF IInv, TypeOK
<1>4. /\ Greater(most[a], MaximumOf(l)) \in Nat
      /\ most[a] <= Greater(most[a], MaximumOf(l))
      /\ MaximumOf(l) <= Greater(most[a], MaximumOf(l))
  BY <1>3 DEF Greater
<1>5. most' \in [Apps -> Nat] /\ \A b \in Apps : most[b] <= most'[b]
  BY <1>2, <1>4 DEF IInv, TypeOK
<1>6. TypeOK'
  BY <1>1, <1>2, <1>5, BoundsAssumption DEF IInv, TypeOK, Deploy
<1>7. NeverAboveMaximum'
  <2> SUFFICES ASSUME NEW b \in Apps
               PROVE  instances'[b] <= most'[b] \/ instances'[b] <= Target
    BY DEF NeverAboveMaximum
  <2>1. CASE b = a
    BY <1>1, <2>1, BoundsAssumption DEF IInv, TypeOK
  <2>2. CASE b # a
    <3>1. instances'[b] = instances[b] /\ most'[b] = most[b]
      BY <1>1, <1>2, <2>2 DEF IInv, TypeOK
    <3>2. QED
      BY <3>1 DEF IInv, NeverAboveMaximum
  <2>3. QED
    BY <2>1, <2>2
<1>8. HadMaximum'
  <2> SUFFICES ASSUME NEW b \in Apps PROVE MaximumOf(label'[b]) <= most'[b]
    BY DEF HadMaximum, MaximumOf, MaxInstances, DefaultMax
  <2>1. CASE b = a
    BY <1>2, <1>4, <2>1 DEF IInv, TypeOK
  <2>2. CASE b # a
    BY <1>2, <2>2 DEF IInv, TypeOK, HadMaximum
  <2>3. QED
    BY <2>1, <2>2
<1>9. ReadMaximum' /\ WithinMaximum'
  BY <1>5, SameRound DEF IInv, Deploy
<1>10. QED
  BY <1>6, <1>7, <1>8, <1>9 DEF IInv

\* Every step of the system keeps the invariant.
LEMMA NextIInv == IInv /\ [Next]_vars => IInv'
<1> SUFFICES ASSUME IInv, [Next]_vars PROVE IInv'
  OBVIOUS
<1>1. CASE Round
  <2>1. ASSUME NEW a \in Apps, ReadLabel(a) \/ StatisticFails(a) PROVE IInv'
    <3>1. Panic /\ Unwritten /\ events' = events /\ events \in 0..MaxEvents
      BY <2>1 DEF ReadLabel, StatisticFails, Unwritten, IInv, TypeOK
    <3>2. QED
      BY <3>1, PanicStep
  <2>2. QED
    BY <1>1, <2>1, TickStep, ReadAppStep, ReadSlavesStep, StatisticStep, ScaleUpStep,
       PutReadsStep, RefuseStep DEF Round
<1>2. CASE HttpFails
  <2>1. Unwritten /\ Panic /\ events' \in 0..MaxEvents
    BY <1>2, BoundsAssumption DEF HttpFails, Unwritten, IInv, TypeOK
  <2>2. QED
    BY <2>1, PanicStep
<1>3. CASE Cluster
  BY <1>3, PutTakenStep, LoadStep, TaskStep, SlaveStep, DeployStep DEF Cluster
<1>4. CASE UNCHANGED vars
  <2>1. TypeOK'
    BY <1>4 DEF vars, IInv, TypeOK
  <2>2. QED
    BY <1>4, <2>1, ClusterStep DEF vars
<1>5. QED
  BY <1>1, <1>2, <1>3, <1>4, ScaleRejectedStep, RestartStep DEF Next

\* The inductive invariant holds in every behaviour.
THEOREM Invariance == Spec => []IInv
<1>1. QED
  BY InitIInv, NextIInv, PTL DEF Spec

\* The variables keep their types: the loop always knows which application it
\* is scaling and is scaling none otherwise.
THEOREM TypeCorrect == Spec => []TypeOK
<1>1. IInv => TypeOK
  BY DEF IInv
<1>2. QED
  BY <1>1, Invariance, PTL

\* No interleaving of rounds on stale numbers and labels, uploads taken late,
\* deploys, lost agents and failures takes an application above a maximum it once
\* had, its own label's or the option's, and above what an operator asked for.
THEOREM MaximumIsKept == Spec => []NeverAboveMaximum
<1>1. IInv => NeverAboveMaximum
  BY DEF IInv
<1>2. QED
  BY <1>1, Invariance, PTL
==============================================================================
