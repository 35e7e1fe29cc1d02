------------------------------ MODULE Autoscale ------------------------------
(***************************************************************************)
(* blah-autoscale: a loop that asks Marathon for the applications and      *)
(* Mesos for the agents, computes the usage of each application and tells  *)
(* Marathon to run more instances of an overloaded one.                    *)
(*                                                                         *)
(* A round of the loop works on what it read at its start, while Marathon, *)
(* Mesos and operators go on.  Every unexpected answer is unwrap()ped: the *)
(* process ends and Marathon starts it again.  The PUT that scales an      *)
(* application is an upload whose body never ends, and the loop waits for  *)
(* it.                                                                     *)
(***************************************************************************)
EXTENDS Naturals, FiniteSets

CONSTANTS
    Apps,           \* applications Marathon runs
    Labels,         \* what an operator may write as AUTOSCALE_MAX_INSTANCES
    NoLabel,        \* the application has no such label
    NotNumber,      \* an AUTOSCALE_* label whose text is no number
    Slaves,         \* Mesos agents
    MaxOption,      \* the option --max, or NotGiven
    NotGiven,
    Target,         \* bound: instances an operator asks for
    MaxEvents,      \* bound: deploys, lost agents, applications that
                    \* cool down, requests that fail or are rejected
    Nobody          \* no application

ASSUME SetsAssumption == IsFiniteSet(Apps) /\ IsFiniteSet(Slaves)
ASSUME MaxAssumption == NotGiven \notin Nat /\ MaxOption \in Nat \cup {NotGiven}
ASSUME LabelsAssumption ==
    /\ NoLabel \notin Nat /\ NotNumber \notin Nat /\ NoLabel # NotNumber
    /\ Labels \subseteq Nat \cup {NoLabel, NotNumber}
ASSUME BoundsAssumption == Target \in Nat \ {0} /\ MaxEvents \in Nat
ASSUME NobodyAssumption == Nobody \notin Apps

VARIABLES
    instances,      \* what Marathon is to run of each application
    tasks,          \* agents on which Marathon has tasks of each application
    registered,     \* agents Mesos knows
    hot,            \* applications whose memory usage is above the limit
    label,          \* the label each application is deployed with
    pc,             \* "apps", "slaves", "stats", "scale", "put", "sleep", "down"
    todo,           \* applications the current part of the round still has to do
    cur,            \* the application being scaled
    sent,           \* its number of instances has been sent to Marathon
    seen,           \* what the round read of each application
    slaves,         \* agents the round read
    prev,           \* last statistic of each: "none", "nan" or "ok"
    most,           \* history: the highest maximum each ever had
    refused,        \* history: what was seen when scaling was refused
    events

clusterVars == <<instances, tasks, registered, hot, label, most>>
roundVars == <<pc, todo, cur, sent, seen, slaves, prev>>
vars == <<clusterVars, roundVars, refused, events>>

App == [instances : Nat, tasks : SUBSET Slaves, max : Nat]

TypeOK ==
    /\ instances \in [Apps -> Nat]
    /\ tasks \in [Apps -> SUBSET Slaves]
    /\ registered \in SUBSET Slaves
    /\ hot \in SUBSET Apps
    /\ label \in [Apps -> Labels]
    /\ pc \in {"apps", "slaves", "stats", "scale", "put", "sleep", "down"}
    /\ todo \in SUBSET Apps
    /\ cur \in (IF pc \in {"scale", "put"} THEN Apps ELSE {Nobody})
    /\ sent \in BOOLEAN /\ (sent => pc = "put")
    /\ seen \in [Apps -> App]
    /\ slaves \in SUBSET Slaves
    /\ prev \in [Apps -> {"none", "nan", "ok"}]
    /\ most \in [Apps -> Nat]
    /\ refused \in SUBSET [app : Apps, instances : Nat, max : Nat]
    /\ events \in 0..MaxEvents

\* The option's value when it is not given.
DefaultMax == 1

\* --max.
MaxInstances == IF MaxOption = NotGiven THEN DefaultMax ELSE MaxOption

\* The maximum of an application: from_value() reads the digits of a label,
\* a string in Marathon's answer, as a number, which replaces the option's.
MaximumOf(l) == IF l \in Nat THEN l ELSE MaxInstances

Greater(m, n) == IF m < n THEN n ELSE m

\* Before the first round of a process.
NothingSeen == [a \in Apps |-> [instances |-> 0, tasks |-> {}, max |-> 0]]

Init ==
    /\ instances = [a \in Apps |-> 1]
    /\ tasks = [a \in Apps |-> {}]
    /\ registered = Slaves
    /\ hot = {}
    /\ label \in [Apps -> Labels]
    /\ most = [a \in Apps |-> MaximumOf(label[a])]
    /\ pc = "sleep"
    /\ todo = {}
    /\ cur = Nobody
    /\ sent = FALSE
    /\ seen = NothingSeen
    /\ slaves = {}
    /\ prev = [a \in Apps |-> "none"]
    /\ refused = {}
    /\ events = 0

------------------------------------------------------------------------------
(* The loop.                                                               *)

\* unwrap() of an error, of an absent map entry or of what is no number.
Panic ==
    /\ pc' = "down"
    /\ todo' = {}
    /\ cur' = Nobody
    /\ sent' = FALSE
    /\ prev' = [a \in Apps |-> "none"]
    /\ seen' = NothingSeen
    /\ slaves' = {}
    /\ UNCHANGED refused

\* get_apps(): the ids; a request for each of them is under way.
Tick ==
    /\ pc = "sleep"
    /\ pc' = "apps"
    /\ todo' = Apps
    /\ UNCHANGED <<clusterVars, cur, sent, seen, slaves, prev, refused, events>>

\* get_app(): the answers come in any order.
ReadApp(a) ==
    /\ pc = "apps"
    /\ a \in todo
    /\ label[a] # NotNumber
    /\ seen' = [seen EXCEPT ![a] = [instances |-> instances[a], tasks |-> tasks[a],
                                    max |-> MaximumOf(label[a])]]
    /\ todo' = todo \ {a}
    /\ pc' = IF todo = {a} THEN "slaves" ELSE "apps"
    /\ UNCHANGED <<clusterVars, cur, sent, slaves, prev, refused, events>>

\* from_value() of a label that is no number.
ReadLabel(a) ==
    /\ pc = "apps"
    /\ a \in todo
    /\ label[a] = NotNumber
    /\ Panic
    /\ UNCHANGED <<clusterVars, events>>

\* get_slaves().
ReadSlaves ==
    /\ pc = "slaves"
    /\ slaves' = registered
    /\ todo' = Apps
    /\ pc' = "stats"
    /\ UNCHANGED <<clusterVars, cur, sent, seen, prev, refused, events>>

\* The tasks whose statistics get_statistic() finds: those that still run.
Measured(a) == seen[a].tasks \cap tasks[a]

\* cpu_usage > max_cpu_usage || mem_usage > max_mem_usage.  Without a measured
\* task both are NaN and compare false; the CPU's is an average over changing
\* tasks, compared with the last round's, and may say anything after a round
\* that measured something, and nothing (NaN, or an average since 1970) before.
Overloaded(a) ==
    IF Measured(a) = {} THEN {FALSE}
    ELSE IF a \in hot THEN {TRUE}
    ELSE IF prev[a] = "ok" THEN BOOLEAN
    ELSE {FALSE}

\* get_statistic(): every task's agent was known and answers.
Statistic(a) ==
    /\ pc = "stats"
    /\ a \in todo
    /\ seen[a].tasks \subseteq slaves
    /\ seen[a].tasks \subseteq registered
    /\ \E over \in Overloaded(a) :
          /\ pc' = IF over THEN "scale"
                   ELSE IF todo = {a} THEN "sleep" ELSE "stats"
          /\ cur' = IF over THEN a ELSE Nobody
    /\ prev' = [prev EXCEPT ![a] = IF Measured(a) = {} THEN "nan" ELSE "ok"]
    /\ todo' = todo \ {a}
    /\ UNCHANGED <<clusterVars, sent, seen, slaves, refused, events>>

\* The agent of a task was gone when get_slaves() asked, or is gone now.
StatisticFails(a) ==
    /\ pc = "stats"
    /\ a \in todo
    /\ ~(seen[a].tasks \subseteq slaves /\ seen[a].tasks \subseteq registered)
    /\ Panic
    /\ UNCHANGED <<clusterVars, events>>

\* (instances as f64 * 1.5).ceil() as i64
Grow(n) == (3 * n + 1) \div 2

\* Mutant of NextApp: the application stays the current one.
NextAppKeeps ==
    /\ pc' = IF todo = {} THEN "sleep" ELSE "stats"
    /\ cur' = cur
    /\ sent' = FALSE

\* Mutant of NextApp: the round ends with the first overloaded application.
NextAppSleeps ==
    /\ pc' = "sleep"
    /\ cur' = Nobody
    /\ sent' = FALSE

\* The end of an iteration.
NextApp ==
    /\ pc' = IF todo = {} THEN "sleep" ELSE "stats"
    /\ cur' = Nobody
    /\ sent' = FALSE

\* Mutant of ScaleUp: the old number is compared with the maximum.
ScaleUpLate ==
    /\ pc = "scale"
    /\ seen[cur].instances < seen[cur].max
    /\ pc' = "put"
    /\ UNCHANGED <<clusterVars, todo, cur, sent, seen, slaves, prev, refused, events>>

\* scale(): the PUT starts, with the number computed from what the round read;
\* main() waits for its end.
ScaleUp ==
    /\ pc = "scale"
    /\ Grow(seen[cur].instances) <= seen[cur].max
    /\ pc' = "put"
    /\ UNCHANGED <<clusterVars, todo, cur, sent, seen, slaves, prev, refused, events>>

\* What the read_function gives libcurl: it reads a slice it takes anew at each
\* call, so the whole body again, whatever was sent before.
ReadFunction(before) == {"body"}

\* libcurl asks the read_function for more; nothing would end the upload (the
\* size is set for a POST, which a PUT does not look at).
PutReads ==
    /\ pc = "put"
    /\ IF ReadFunction(sent) = {}
          THEN NextApp
          ELSE /\ sent' = TRUE
               /\ UNCHANGED <<pc, cur>>
    /\ UNCHANGED <<clusterVars, todo, seen, slaves, prev, refused, events>>

\* Marathon takes the number it has been sent; an answer of success does not
\* end the upload.
PutTaken ==
    /\ sent
    /\ instances' = [instances EXCEPT ![cur] = Grow(seen[cur].instances)]
    /\ UNCHANGED <<tasks, registered, hot, label, most, roundVars, refused, events>>

\* An answer of failure ends it, for one because a deployment is going on: the
\* code of the answer is logged and not looked at.
ScaleRejected ==
    /\ pc = "put"
    /\ events < MaxEvents
    /\ events' = events + 1
    /\ NextApp
    /\ UNCHANGED <<clusterVars, todo, seen, slaves, prev, refused>>

\* "Cannot scale {}, reached maximum instances of: {}".
Refuse ==
    /\ pc = "scale"
    /\ Grow(seen[cur].instances) > seen[cur].max
    /\ refused' = refused \cup {[app |-> cur, instances |-> seen[cur].instances,
                                 max |-> seen[cur].max]}
    /\ NextApp
    /\ UNCHANGED <<clusterVars, todo, seen, slaves, prev, events>>

\* A request to Marathon or Mesos fails.
HttpFails ==
    /\ pc \in {"apps", "slaves", "stats", "put"}
    /\ events < MaxEvents
    /\ events' = events + 1
    /\ Panic
    /\ UNCHANGED clusterVars

------------------------------------------------------------------------------
(* Marathon, Mesos, the load and the operators.                            *)

Launch(a, s) ==
    /\ s \in registered
    /\ instances[a] > Cardinality(tasks[a])
    /\ tasks' = [tasks EXCEPT ![a] = @ \cup {s}]
    /\ s \notin tasks[a]
    /\ UNCHANGED <<instances, registered, hot, label, most, roundVars, refused, events>>

\* Marathon learns that the tasks on a lost agent are gone.
TaskLost(a, s) ==
    /\ s \in tasks[a] \ registered
    /\ tasks' = [tasks EXCEPT ![a] = @ \ {s}]
    /\ UNCHANGED <<instances, registered, hot, label, most, roundVars, refused, events>>

SlaveLost(s) ==
    /\ s \in registered
    /\ events < MaxEvents
    /\ events' = events + 1
    /\ registered' = registered \ {s}
    /\ UNCHANGED <<instances, tasks, hot, label, most, roundVars, refused>>

SlaveJoins(s) ==
    /\ s \notin registered
    /\ \A a \in Apps : s \notin tasks[a]
    /\ registered' = registered \cup {s}
    /\ UNCHANGED <<instances, tasks, hot, label, most, roundVars, refused, events>>

Heat(a) ==
    /\ a \notin hot
    /\ hot' = hot \cup {a}
    /\ UNCHANGED <<instances, tasks, registered, label, most, roundVars, refused, events>>

Cool(a) ==
    /\ a \in hot
    /\ events < MaxEvents
    /\ events' = events + 1
    /\ hot' = hot \ {a}
    /\ UNCHANGED <<instances, tasks, registered, label, most, roundVars, refused>>

Deploy(a) ==
    /\ events < MaxEvents
    /\ events' = events + 1
    /\ \E n \in 1..Target : instances' = [instances EXCEPT ![a] = n]
    /\ \E l \in Labels :
          /\ label' = [label EXCEPT ![a] = l]
          /\ most' = [most EXCEPT ![a] = Greater(@, MaximumOf(l))]
    /\ UNCHANGED <<tasks, registered, hot, roundVars, refused>>

\* Marathon starts the process again.
Restart ==
    /\ pc = "down"
    /\ pc' = "sleep"
    /\ UNCHANGED <<clusterVars, todo, cur, sent, seen, slaves, prev, refused, events>>

------------------------------------------------------------------------------

Round ==
    \/ Tick \/ ReadSlaves \/ ScaleUp \/ PutReads \/ Refuse
    \/ \E a \in Apps : ReadApp(a) \/ ReadLabel(a) \/ Statistic(a) \/ StatisticFails(a)
Cluster ==
    \/ PutTaken
    \/ \E a \in Apps : Heat(a) \/ Cool(a) \/ Deploy(a)
    \/ \E a \in Apps, s \in Slaves : Launch(a, s) \/ TaskLost(a, s)
    \/ \E s \in Slaves : SlaveLost(s) \/ SlaveJoins(s)

Next == Round \/ ScaleRejected \/ HttpFails \/ Restart \/ Cluster

Spec == Init /\ [][Next]_vars

\* The loop goes on, Marathon restarts it and takes what it is sent, and Mesos
\* and Marathon get over a lost agent and launch what they are to run.
Fairness ==
    /\ WF_vars(Round) /\ WF_vars(PutTaken) /\ WF_vars(Restart)
    /\ \A a \in Apps, s \in Slaves : WF_vars(Launch(a, s)) /\ WF_vars(TaskLost(a, s))
    /\ \A s \in Slaves : WF_vars(SlaveJoins(s))

FairSpec == Spec /\ Fairness

------------------------------------------------------------------------------
(* Correctness.                                                            *)

\* Rounds that work on old numbers and old labels, deploys, uploads taken late
\* and failures together never make Marathon run more instances of an
\* application than a maximum it once had, its own label's where it has one, or
\* than an operator asked for.
NeverAboveMaximum ==
    \A a \in Apps : instances[a] <= most[a] \/ instances[a] <= Target

\* One more step of an application would exceed its maximum.
AtItsLimit(a) == Grow(instances[a]) > MaximumOf(label[a])

\* Some application has a label that is no number.
Mislabelled == \E a \in Apps : label[a] = NotNumber

\* While every label is a number, no overloaded application starves, whatever
\* agents or requests fail and however many the rounds have to deal with: it is
\* brought to its limit, unless the loop is waiting for the end of a PUT.
OverloadIsDealtWith ==
    \A a \in Apps :
        (~Mislabelled /\ a \in hot)
            ~> (Mislabelled \/ a \notin hot \/ AtItsLimit(a) \/ pc = "put")

\* What the log line "Scaling response code" and the module's test, which waits
\* for the future of scale(), expect: the request of a scaling ends.
ScalingIsAnswered == pc = "put" ~> pc # "put"

\* What the log says of a refusal is so: the application had reached the
\* maximum number of instances.
RefusedAtMaximum == \A r \in refused : r.instances >= r.max
==============================================================================
