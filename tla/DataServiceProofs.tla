-------------------------- MODULE DataServiceProofs --------------------------
(***************************************************************************)
(* Proofs about DataService, for every finite set of requests, every size  *)
(* of the pool and of the producer's queue and every bound.                *)
(*                                                                         *)
(* What the answers say about the table follows from where each request is *)
(* in its life (Progress) and from what the event loop is doing (Working). *)
(* With them each step of the service is a step of Journal or not noticed. *)
(***************************************************************************)
EXTENDS DataService, FiniteSetTheorems, TLAPS

\* The request the event loop is busy with.
Working ==
    /\ loop = "get" => cur \in Requests /\ phase[cur] = "new"
    /\ loop \in {"insert", "send"} => cur \in Requests /\ phase[cur] = "reading"
    /\ loop \in {"idle", "down"} => cur = Nobody

\* The stored row of a request, by the stage the request is in.
Progress ==
    \A r \in Requests :
        /\ rows[r] \in {0, 1}
        /\ phase[r] \in {"new", "reading"} =>
              /\ r \notin queue /\ log[r] = 0
              /\ rows[r] = 1 <=> loop = "send" /\ cur = r
        /\ status[r] # 0 <=> phase[r] = "answered"

Inv1 == TypeOK /\ PoolConserved /\ Working /\ Progress
Inv2 == StoredBeforeStreamed /\ AnswerIsTruthful /\ MissingIsExplained
IInv == Inv1 /\ Inv2

------------------------------------------------------------------------------
(* The pool.                                                               *)

\* Only finitely many requests hold a connection.
LEMMA HoldersFinite == IsFiniteSet(Holders) /\ Cardinality(Holders) \in Nat
<1>1. Holders \subseteq Requests
  BY DEF Holders
<1>2. QED
  BY <1>1, RequestsAssumption, FS_Subset, FS_CardinalityType

\* A request that is given a connection.
LEMMA Take ==
    ASSUME TypeOK, PoolConserved, NEW r \in Requests, phase[r] # "reading",
           phase' = [phase EXCEPT ![r] = "reading"], free > 0, free' = free - 1
    PROVE  PoolConserved' /\ free' \in 0..PoolSize
<1>1. Holders' = Holders \cup {r} /\ r \notin Holders
  BY DEF Holders, TypeOK
<1>2. Cardinality(Holders') = Cardinality(Holders) + 1
  BY <1>1, HoldersFinite, FS_AddElement
<1>3. QED
  BY <1>2, HoldersFinite, PoolAssumption DEF PoolConserved, TypeOK

\* A request that gives its connection back.
LEMMA GiveBack ==
    ASSUME TypeOK, PoolConserved, NEW r \in Requests, phase[r] = "reading",
           NEW stage, stage # "reading",
           phase' = [phase EXCEPT ![r] = stage], free' = free + 1
    PROVE  PoolConserved' /\ free' \in 0..PoolSize
<1>1. Holders' = Holders \ {r} /\ r \in Holders
  BY DEF Holders, TypeOK
<1>2. /\ Cardinality(Holders') = Cardinality(Holders) - 1
      /\ Cardinality(Holders') \in Nat
  BY <1>1, HoldersFinite, FS_RemoveElement, FS_CardinalityType
<1>3. QED
  BY <1>2, HoldersFinite, PoolAssumption DEF PoolConserved, TypeOK

\* A step that changes no phase and no number of free connections.
LEMMA SamePool ==
    ASSUME PoolConserved, phase' = phase, free' = free PROVE PoolConserved'
  BY DEF PoolConserved, Holders

\* A crash empties the pool's debts.
LEMMA PoolAfterDie ==
    ASSUME NEW stored, Die(stored) PROVE PoolConserved' /\ free' = PoolSize
<1>1. Holders' = {}
  BY DEF Holders, Die
<1>2. QED
  BY <1>1, FS_EmptySet, PoolAssumption DEF PoolConserved, Die

------------------------------------------------------------------------------
(* The end of the process.                                                 *)

\* Whatever ends the process: no request is left in the middle, and a row that
\* was not queued is accounted for.
LEMMA DieStep ==
    ASSUME IInv, NEW stored \in SUBSET Requests, Die(stored),
           rows' \in [Requests -> {0, 1}],
           \A r \in Requests :
              \/ rows'[r] = rows[r]
              \/ r = cur /\ loop = "insert" /\ rows'[r] = 1 /\ r \in stored,
           loop = "send" => cur \in stored,
           pgUp' \in BOOLEAN, broken' \in SUBSET Requests,
           kills' \in 0..MaxKills, outages' \in 0..MaxOutages
    PROVE  IInv'
<1> USE DEF IInv, Inv1, Inv2
<1>1. TypeOK'
  BY PoolAfterDie, PoolAssumption DEF Die, TypeOK
<1>2. PoolConserved'
  BY PoolAfterDie
<1>3. Working'
  BY DEF Die, Working
<1>4. Progress'
  <2> SUFFICES ASSUME NEW r \in Requests
               PROVE  /\ rows'[r] \in {0, 1}
                      /\ phase'[r] \in {"new", "reading"} =>
                            /\ r \notin queue' /\ log'[r] = 0
                            /\ rows'[r] = 1 <=> loop' = "send" /\ cur' = r
                      /\ status'[r] # 0 <=> phase'[r] = "answered"
    BY DEF Progress
  <2>1. /\ phase'[r] = IF phase[r] = "reading" \/ r = cur THEN "reset" ELSE phase[r]
        /\ queue' = {} /\ loop' = "down" /\ log' = log /\ status' = status
    BY DEF Die
  <2>2. cur = r => phase[r] \in {"new", "reading"}
    BY RequestsAssumption DEF Working, TypeOK
  <2>3. status'[r] # 0 <=> phase'[r] = "answered"
    BY <2>1, <2>2 DEF Progress
  <2>4. phase'[r] \in {"new", "reading"} => log[r] = 0 /\ rows'[r] = 0
    BY <2>1, <2>2 DEF Progress
  <2>5. QED
    BY <2>1, <2>3, <2>4
<1>5. StoredBeforeStreamed'
  BY DEF Die, Progress, Working, StoredBeforeStreamed, TypeOK
<1>6. AnswerIsTruthful'
  BY DEF Die, Progress, Working, AnswerIsTruthful, TypeOK
<1>7. MissingIsExplained'
  BY DEF Die, Progress, MissingIsExplained, TypeOK
<1>8. QED
  BY <1>1, <1>2, <1>3, <1>4, <1>5, <1>6, <1>7

LEMMA GetTimeoutStep == ASSUME IInv, GetTimeout PROVE IInv'
<1>1. rows \in [Requests -> {0, 1}]
  BY DEF IInv, Inv1, TypeOK, Progress
<1>2. Die({}) /\ UNCHANGED <<rows, pgUp, broken, kills, outages>> /\ loop = "get"
  BY DEF GetTimeout, environmentVars
<1>3. QED
  BY <1>1, <1>2, DieStep DEF IInv, Inv1, TypeOK

LEMMA InsertPanicStep == ASSUME IInv, InsertPanic PROVE IInv'
<1>1. rows \in [Requests -> {0, 1}]
  BY DEF IInv, Inv1, TypeOK, Progress
<1>2. Die({}) /\ UNCHANGED <<rows, pgUp, broken, kills, outages>> /\ loop = "insert"
  BY DEF InsertPanic, environmentVars
<1>3. QED
  BY <1>1, <1>2, DieStep DEF IInv, Inv1, TypeOK

LEMMA InsertUnconfirmedStep == ASSUME IInv, InsertUnconfirmed PROVE IInv'
<1>1. /\ Die({cur}) /\ UNCHANGED <<pgUp, broken, kills, outages>>
      /\ loop = "insert" /\ cur \in Requests
      /\ rows' = [rows EXCEPT ![cur] = @ + 1]
  BY DEF InsertUnconfirmed, environmentVars, IInv, Inv1, Working
<1>2. rows[cur] = 0 /\ rows \in [Requests -> {0, 1}]
  BY <1>1 DEF IInv, Inv1, Working, Progress, TypeOK
<1>3. /\ rows' \in [Requests -> {0, 1}]
      /\ rows'[cur] = 1
      /\ \A r \in Requests : r # cur => rows'[r] = rows[r]
  BY <1>1, <1>2
<1>4. QED
  BY <1>1, <1>3, DieStep DEF IInv, Inv1, TypeOK

LEMMA SendPanicStep == ASSUME IInv, SendPanic PROVE IInv'
<1>1. rows \in [Requests -> {0, 1}]
  BY DEF IInv, Inv1, TypeOK, Progress
<1>2. /\ Die({cur}) /\ UNCHANGED <<rows, pgUp, broken, kills, outages>>
      /\ loop = "send" /\ {cur} \in SUBSET Requests
  BY DEF SendPanic, environmentVars, IInv, Inv1, Working
<1>3. QED
  BY <1>1, <1>2, DieStep DEF IInv, Inv1, TypeOK

LEMMA KillStep == ASSUME IInv, Kill PROVE IInv'
<1>1. rows \in [Requests -> {0, 1}]
  BY DEF IInv, Inv1, TypeOK, Progress
<1>2. PICK stored \in SUBSET Requests : Die(stored) /\ (loop = "send" => cur \in stored)
  BY DEF Kill, IInv, Inv1, Working
<1>3. UNCHANGED <<rows, pgUp, broken, outages>> /\ kills' \in 0..MaxKills
  BY BoundsAssumption DEF Kill, IInv, Inv1, TypeOK
<1>4. QED
  BY <1>1, <1>2, <1>3, DieStep DEF IInv, Inv1, TypeOK

------------------------------------------------------------------------------
(* The event loop.                                                         *)

LEMMA CallStep == ASSUME IInv, NEW r \in Requests, Call(r) PROVE IInv'
<1> USE DEF IInv, Inv1, Inv2, Call, requestVars, producerVars, environmentVars
<1>1. CASE free > 0 /\ pgUp
  <2>1. PoolConserved' /\ free' \in 0..PoolSize
    BY <1>1, Take
  <2>2. TypeOK' /\ Working'
    BY <1>1, <2>1 DEF TypeOK, Working
  <2>3. Progress'
    BY <1>1 DEF TypeOK, Working, Progress
  <2>4. Inv2'
    BY <1>1 DEF TypeOK, StoredBeforeStreamed, AnswerIsTruthful, MissingIsExplained
  <2>5. QED
    BY <2>1, <2>2, <2>3, <2>4
<1>2. CASE ~(free > 0 /\ pgUp)
  <2>1. PoolConserved'
    BY <1>2, SamePool
  <2>2. TypeOK' /\ Working'
    BY <1>2 DEF TypeOK, Working
  <2>3. Progress'
    BY <1>2 DEF TypeOK, Working, Progress
  <2>4. Inv2'
    BY <1>2 DEF StoredBeforeStreamed, AnswerIsTruthful, MissingIsExplained
  <2>5. QED
    BY <2>1, <2>2, <2>3, <2>4
<1>3. QED
  BY <1>1, <1>2

LEMMA GetOkStep == ASSUME IInv, GetOk PROVE IInv'
<1> USE DEF IInv, Inv1, Inv2, GetOk, requestVars, producerVars, environmentVars
<1>1. cur \in Requests /\ phase[cur] = "new"
  BY DEF Working
<1>2. PoolConserved' /\ free' \in 0..PoolSize
  BY <1>1, Take
<1>3. TypeOK' /\ Working'
  BY <1>1, <1>2 DEF TypeOK, Working
<1>4. Progress'
  BY <1>1, RequestsAssumption DEF TypeOK, Working, Progress
<1>5. Inv2'
  BY <1>1 DEF TypeOK, StoredBeforeStreamed, AnswerIsTruthful, MissingIsExplained
<1>6. QED
  BY <1>2, <1>3, <1>4, <1>5

LEMMA BodyAnsweredStep == ASSUME IInv, NEW r \in Requests, BodyAnswered(r) PROVE IInv'
<1> USE DEF IInv, Inv1, Inv2, BodyAnswered, Answer, producerVars, environmentVars
<1>1. CodeOf(kind[r]) \in {200, 400, 404}
  BY DEF CodeOf
<1>2. PoolConserved' /\ free' \in 0..PoolSize
  BY GiveBack
<1>3. TypeOK' /\ Working'
  BY <1>1, <1>2 DEF TypeOK, Working
<1>4. Progress'
  BY <1>1 DEF TypeOK, Working, Progress
<1>5. rows[r] = 0
  BY DEF Progress, Working
<1>6. Inv2'
  BY <1>1, <1>5 DEF TypeOK, StoredBeforeStreamed, AnswerIsTruthful, MissingIsExplained
<1>7. QED
  BY <1>2, <1>3, <1>4, <1>6

LEMMA BodyParsedStep == ASSUME IInv, NEW r \in Requests, BodyParsed(r) PROVE IInv'
<1> USE DEF IInv, Inv1, Inv2, BodyParsed, requestVars, producerVars, environmentVars
<1>1. PoolConserved'
  BY SamePool
<1>2. TypeOK' /\ Working'
  BY DEF TypeOK, Working
<1>3. Progress'
  BY DEF TypeOK, Working, Progress
<1>4. Inv2'
  BY DEF StoredBeforeStreamed, AnswerIsTruthful, MissingIsExplained
<1>5. QED
  BY <1>1, <1>2, <1>3, <1>4

LEMMA InsertStep == ASSUME IInv, Insert PROVE IInv'
<1> USE DEF IInv, Inv1, Inv2, Insert, requestVars, producerVars, environmentVars
<1>1. PoolConserved'
  BY SamePool
<1>2. cur \in Requests /\ phase[cur] = "reading" /\ rows[cur] = 0
  BY DEF Working, Progress
<1>3. /\ rows'[cur] = 1
      /\ \A r \in Requests : r # cur => rows'[r] = rows[r]
      /\ rows' \in [Requests -> Nat]
  BY <1>2 DEF TypeOK
<1>4. TypeOK' /\ Working'
  BY <1>2, <1>3 DEF TypeOK, Working
<1>5. Progress'
  BY <1>2, <1>3 DEF Progress
<1>6. Inv2'
  BY <1>2, <1>3 DEF Progress, StoredBeforeStreamed, AnswerIsTruthful, MissingIsExplained
<1>7. QED
  BY <1>1, <1>4, <1>5, <1>6

LEMMA SendStep == ASSUME IInv, Send PROVE IInv'
<1> USE DEF IInv, Inv1, Inv2, Send, Answer, environmentVars
<1>1. cur \in Requests /\ phase[cur] = "reading" /\ rows[cur] = 1
  BY DEF Working, Progress
<1>2. PoolConserved' /\ free' \in 0..PoolSize
  BY <1>1, GiveBack
<1>3. TypeOK' /\ Working'
  BY <1>1, <1>2 DEF TypeOK, Working
<1>4. Progress'
  BY <1>1, RequestsAssumption DEF TypeOK, Working, Progress
<1>5. Inv2'
  BY <1>1 DEF TypeOK, StoredBeforeStreamed, AnswerIsTruthful, MissingIsExplained
<1>6. QED
  BY <1>2, <1>3, <1>4, <1>5

LEMMA DisconnectStep == ASSUME IInv, NEW r \in Requests, Disconnect(r) PROVE IInv'
<1> USE DEF IInv, Inv1, Inv2, Disconnect, producerVars, environmentVars
<1>1. PoolConserved' /\ free' \in 0..PoolSize
  BY GiveBack
<1>2. TypeOK' /\ Working'
  BY <1>1 DEF TypeOK, Working
<1>3. Progress'
  BY DEF TypeOK, Working, Progress
<1>4. Inv2'
  BY DEF TypeOK, StoredBeforeStreamed, AnswerIsTruthful, MissingIsExplained
<1>5. QED
  BY <1>1, <1>2, <1>3, <1>4

------------------------------------------------------------------------------
(* The producer and the environment.                                       *)

LEMMA ProducerStep == ASSUME IInv, Producer PROVE IInv'
<1> USE DEF IInv, Inv1, Inv2
<1>1. PICK r \in Requests : Deliver(r) \/ DeliverUnacked(r) \/ DeliveryFails(r)
  BY DEF Producer
<1>2. /\ r \in queue /\ queue' \subseteq queue /\ lost \subseteq lost'
      /\ lost' \in SUBSET Requests
      /\ queue \ queue' \subseteq {r} /\ log' \in [Requests -> Nat]
      /\ log'[r] >= log[r] /\ \A q \in Requests : q # r => log'[q] = log[q]
      /\ r \in queue' \/ r \in lost' \/ log'[r] > 0
      /\ UNCHANGED <<loop, cur, phase, kind, status, free, rows, pgUp, broken,
                     kills, outages>>
  BY <1>1 DEF Deliver, DeliverUnacked, DeliveryFails, TypeOK, requestVars, environmentVars
<1>3. PoolConserved'
  BY <1>2, SamePool
<1>4. TypeOK' /\ Working'
  BY <1>2 DEF TypeOK, Working
<1>5. Progress'
  BY <1>2 DEF Progress
<1>6. StoredBeforeStreamed'
  BY <1>2 DEF StoredBeforeStreamed
<1>7. AnswerIsTruthful'
  BY <1>2 DEF AnswerIsTruthful
<1>8. MissingIsExplained'
  BY <1>2 DEF MissingIsExplained, TypeOK
<1>9. QED
  BY <1>3, <1>4, <1>5, <1>6, <1>7, <1>8

\* Outages and the restart leave requests, table and topic alone.
LEMMA OutageStep == ASSUME IInv, PgDown \/ PgRecovers \/ Restart PROVE IInv'
<1> USE DEF IInv, Inv1, Inv2
<1>1. /\ UNCHANGED <<cur, phase, kind, status, free, rows, queue, log, lost, kills>>
      /\ loop' = loop \/ (loop = "down" /\ loop' = "idle")
      /\ pgUp' \in BOOLEAN /\ broken' \in SUBSET Requests /\ outages' \in 0..MaxOutages
  <2>1. CASE PgDown
    <3>1. outages' \in 0..MaxOutages /\ pgUp' = FALSE
      BY <2>1, BoundsAssumption DEF PgDown, TypeOK
    <3>2. broken \in SUBSET Requests
      BY DEF TypeOK
    <3>3. broken' \in SUBSET Requests
      BY <2>1, <3>2, Zenon DEF PgDown
    <3>4. QED
      BY <2>1, <3>1, <3>3 DEF PgDown, requestVars, producerVars
  <2>2. CASE PgRecovers
    BY <2>2 DEF PgRecovers, TypeOK, requestVars, producerVars
  <2>3. CASE Restart
    BY <2>3 DEF Restart, TypeOK, requestVars, producerVars, environmentVars
  <2>4. QED
    BY <2>1, <2>2, <2>3
<1>2. PoolConserved'
  BY <1>1, SamePool
<1>3. TypeOK' /\ Working'
  BY <1>1 DEF TypeOK, Working
<1>4. Progress'
  BY <1>1 DEF Progress
<1>5. Inv2'
  BY <1>1 DEF StoredBeforeStreamed, AnswerIsTruthful, MissingIsExplained
<1>6. QED
  BY <1>2, <1>3, <1>4, <1>5

------------------------------------------------------------------------------

LEMMA InitIInv == Init => IInv
<1> SUFFICES ASSUME Init PROVE IInv
  OBVIOUS
<1>1. TypeOK
  BY PoolAssumption, BoundsAssumption DEF Init, TypeOK
<1>2. Holders = {}
  BY DEF Init, Holders
<1>3. PoolConserved
  BY <1>2, FS_EmptySet, PoolAssumption DEF Init, PoolConserved
<1>4. Working /\ Progress
  BY DEF Init, Working, Progress
<1>5. Inv2
  BY DEF Init, Inv2, StoredBeforeStreamed, AnswerIsTruthful, MissingIsExplained
<1>6. QED
  BY <1>1, <1>3, <1>4, <1>5 DEF IInv, Inv1

LEMMA NextIInv == IInv /\ [Next]_vars => IInv'
<1> SUFFICES ASSUME IInv, [Next]_vars PROVE IInv'
  OBVIOUS
<1>1. CASE EventLoop
  BY <1>1, GetOkStep, GetTimeoutStep, InsertStep, InsertPanicStep,
     InsertUnconfirmedStep, SendStep, SendPanicStep, CallStep, BodyAnsweredStep,
     BodyParsedStep, DisconnectStep DEF EventLoop
<1>2. CASE Producer
  BY <1>2, ProducerStep
<1>3. CASE Environment
  BY <1>3, OutageStep, KillStep DEF Environment
<1>4. CASE UNCHANGED vars
  <2>1. UNCHANGED <<loop, cur, phase, kind, status, free, rows, queue, log, lost,
                    pgUp, broken, kills, outages>>
    BY <1>4 DEF vars, requestVars, producerVars, environmentVars
  <2>2. TypeOK' /\ Working' /\ Progress'
    BY <2>1 DEF IInv, Inv1, TypeOK, Working, Progress
  <2>3. PoolConserved'
    BY <2>1, SamePool DEF IInv, Inv1
  <2>4. Inv2'
    BY <2>1 DEF IInv, Inv2, StoredBeforeStreamed, AnswerIsTruthful, MissingIsExplained
  <2>5. QED
    BY <2>2, <2>3, <2>4 DEF IInv, Inv1
<1>5. QED
  BY <1>1, <1>2, <1>3, <1>4 DEF Next

\* The invariant holds throughout.
THEOREM Invariance == Spec => []IInv
  BY InitIInv, NextIInv, PTL DEF Spec

\* Type correctness of the service's state.
THEOREM TypeCorrect == Spec => []TypeOK
<1>1. IInv => TypeOK
  BY DEF IInv, Inv1
<1>2. QED
  BY <1>1, Invariance, PTL

\* No path through call() leaks a connection of the pool (main.rs:54-119).
THEOREM PoolIsConserved == Spec => []PoolConserved
<1>1. IInv => PoolConserved
  BY DEF IInv, Inv1
<1>2. QED
  BY <1>1, Invariance, PTL

\* What is streamed is stored: the insert comes first (main.rs:69-82).
THEOREM StreamedIsStored == Spec => []StoredBeforeStreamed
<1>1. IInv => StoredBeforeStreamed
  BY DEF IInv, Inv2
<1>2. QED
  BY <1>1, Invariance, PTL

\* The status code tells whether the row exists (main.rs:62-119).
THEOREM AnswersAreTruthful == Spec => []AnswerIsTruthful
<1>1. IInv => AnswerIsTruthful
  BY DEF IInv, Inv2
<1>2. QED
  BY <1>1, Invariance, PTL

\* Table and topic differ for the stated reasons only (main.rs:69-92).
THEOREM MissingExplained == Spec => []MissingIsExplained
<1>1. IInv => MissingIsExplained
  BY DEF IInv, Inv2
<1>2. QED
  BY <1>1, Invariance, PTL

\* An event loop that waits for an empty pool waits for its own end
\* (main.rs:54).
THEOREM EmptyPoolKills == Spec => EmptyPoolIsFatal
<1>1. [Next]_vars => [loop = "get" /\ free = 0
                        => loop' = "down" \/ (loop' = "get" /\ free' = 0)]_vars
  <2> SUFFICES ASSUME Next, loop = "get", free = 0
               PROVE  loop' = "down" \/ (loop' = "get" /\ free' = 0)
    BY DEF vars
  <2>1. CASE EventLoop
    BY <2>1 DEF EventLoop, GetOk, GetTimeout, Insert, InsertPanic, InsertUnconfirmed,
                Send, SendPanic, Call, BodyAnswered, BodyParsed, Disconnect, Die
  <2>2. CASE Producer
    BY <2>2 DEF Producer, Deliver, DeliverUnacked, DeliveryFails
  <2>3. CASE Environment
    BY <2>3 DEF Environment, PgDown, PgRecovers, Kill, Restart, Die
  <2>4. QED
    BY <2>1, <2>2, <2>3 DEF Next
<1>2. QED
  BY <1>1, PTL DEF Spec, EmptyPoolIsFatal

------------------------------------------------------------------------------
(* DataService implements Journal.                                         *)

\* A step that changes neither table, topic, outbox nor answers.
LEMMA Unnoticed ==
    ASSUME UNCHANGED <<rows, log, status>>, Outbox' = Outbox PROVE UNCHANGED J!vars
BY DEF J!vars

\* Steps of the event loop before and after the insert.
LEMMA LoopUnnoticed ==
    ASSUME UNCHANGED <<rows, log, status, queue>>, loop # "send", loop' # "send"
    PROVE  UNCHANGED J!vars
<1>1. Outbox' = Outbox
  BY DEF Outbox
<1>2. QED
  BY <1>1, Unnoticed

\* The end of the process ends the journal's part, with the row of an insert that
\* was not confirmed.
LEMMA DieStops ==
    ASSUME NEW stored, Die(stored), rows' = rows \/ \E r \in Requests : J!Stored(r)
    PROVE  J!Stop
<1>1. Outbox' = {}
  BY DEF Outbox, Die
<1>2. QED
  BY <1>1 DEF J!Stop, Die

LEMMA LoopRefines ==
    ASSUME IInv, EventLoop PROVE J!Next \/ UNCHANGED J!vars
<1> USE DEF IInv, Inv1
<1>1. CASE GetTimeout \/ InsertPanic \/ SendPanic
  BY <1>1, DieStops DEF GetTimeout, InsertPanic, SendPanic, J!Next
<1>2. ASSUME loop = "insert", rows' = [rows EXCEPT ![cur] = @ + 1]
      PROVE  cur \in Requests /\ J!Stored(cur)
  <2>1. cur \in Requests /\ rows[cur] = 0 /\ status[cur] = 0
    BY <1>2 DEF Working, Progress
  <2>2. QED
    BY <1>2, <2>1 DEF J!Stored
<1>3. CASE InsertUnconfirmed
  BY <1>2, <1>3, DieStops DEF InsertUnconfirmed, J!Next
<1>4. CASE Insert
  <2>1. /\ loop = "insert" /\ loop' = "send" /\ cur' = cur
        /\ rows' = [rows EXCEPT ![cur] = @ + 1]
        /\ UNCHANGED <<queue, log, status>>
    BY <1>4 DEF Insert, requestVars, producerVars
  <2>2. Outbox' = Outbox \cup {cur}
    BY <2>1 DEF Outbox
  <2>3. J!Store(cur) /\ cur \in Requests
    BY <1>2, <2>1, <2>2 DEF J!Store
  <2>4. QED
    BY <2>3 DEF J!Next
<1>5. CASE Send
  <2>1. /\ loop = "send" /\ loop' = "idle" /\ queue' = queue \cup {cur}
        /\ status' = [status EXCEPT ![cur] = 204]
        /\ UNCHANGED <<rows, log>>
    BY <1>5 DEF Send, Answer
  <2>2. cur \in Requests /\ rows[cur] = 1 /\ status[cur] = 0
    BY <2>1 DEF Working, Progress
  <2>3. Outbox' = Outbox /\ cur \in Outbox
    BY <2>1 DEF Outbox
  <2>4. J!Accept(cur)
    BY <2>1, <2>2, <2>3 DEF J!Accept
  <2>5. QED
    BY <2>2, <2>4 DEF J!Next
<1>6. ASSUME NEW r \in Requests, BodyAnswered(r) PROVE J!Refuse(r)
  <2>1. /\ loop = "idle" /\ phase[r] = "reading"
        /\ status' = [status EXCEPT ![r] = CodeOf(kind[r])]
        /\ UNCHANGED <<loop, rows, log, queue>>
    BY <1>6 DEF BodyAnswered, Answer, producerVars
  <2>2. rows[r] = 0 /\ status[r] = 0
    BY <2>1 DEF Progress
  <2>3. CodeOf(kind[r]) \in {200, 400, 404}
    BY DEF CodeOf
  <2>4. Outbox' = Outbox
    BY <2>1 DEF Outbox
  <2>5. QED
    BY <2>1, <2>2, <2>3, <2>4 DEF J!Refuse
<1>7. ASSUME NEW r \in Requests, Call(r) \/ BodyParsed(r) \/ Disconnect(r)
      PROVE  UNCHANGED J!vars
  <2>1. /\ UNCHANGED <<rows, log, status, queue>>
        /\ loop = "idle" /\ loop' \in {"idle", "get", "insert"}
    BY <1>7 DEF Call, BodyParsed, Disconnect, requestVars, producerVars
  <2>2. QED
    BY <2>1, LoopUnnoticed
<1>8. CASE GetOk
  BY <1>8, LoopUnnoticed DEF GetOk, producerVars
<1>9. QED
  BY <1>1, <1>3, <1>4, <1>5, <1>6, <1>7, <1>8 DEF EventLoop, J!Next

LEMMA ProducerRefines ==
    ASSUME IInv, NEW r \in Requests, Deliver(r) \/ DeliverUnacked(r) \/ DeliveryFails(r)
    PROVE  J!Deliver(r) \/ J!GiveUp(r)
<1>1. r \in queue /\ UNCHANGED <<loop, cur, rows, status>>
  BY DEF Deliver, DeliverUnacked, DeliveryFails, requestVars
<1>2. r \in Outbox /\ ~(loop = "send" /\ cur = r)
  <2>1. ~(loop = "send" /\ cur = r)
    BY <1>1 DEF IInv, Inv1, Working, Progress
  <2>2. QED
    BY <1>1, <2>1 DEF Outbox
<1>3. /\ queue' = queue => Outbox' = Outbox
      /\ queue' = queue \ {r} => Outbox' = Outbox \ {r}
  BY <1>1, <1>2 DEF Outbox
<1>4. QED
  BY <1>1, <1>2, <1>3 DEF Deliver, DeliverUnacked, DeliveryFails, J!Deliver, J!GiveUp

LEMMA EnvironmentRefines ==
    ASSUME IInv, Environment PROVE J!Next \/ UNCHANGED J!vars
<1>1. CASE Kill
  BY <1>1, DieStops DEF Kill, J!Next
<1>2. CASE PgDown \/ PgRecovers
  <2>1. UNCHANGED <<loop, cur, rows, log, status, queue>>
    BY <1>2 DEF PgDown, PgRecovers, requestVars, producerVars
  <2>2. QED
    BY <2>1, Unnoticed DEF Outbox
<1>3. CASE Restart
  BY <1>3, LoopUnnoticed DEF Restart, requestVars, producerVars
<1>4. QED
  BY <1>1, <1>2, <1>3 DEF Environment

\* Every step of the service is a step of the journal or not noticed.
LEMMA StepRefines == IInv /\ [Next]_vars => [J!Next]_(J!vars)
<1> SUFFICES ASSUME IInv, [Next]_vars PROVE J!Next \/ UNCHANGED J!vars
  OBVIOUS
<1>1. CASE EventLoop
  BY <1>1, LoopRefines
<1>2. CASE Producer
  BY <1>2, ProducerRefines DEF Producer, J!Next
<1>3. CASE Environment
  BY <1>3, EnvironmentRefines
<1>4. CASE UNCHANGED vars
  <2>1. UNCHANGED <<loop, cur, rows, log, status, queue>>
    BY <1>4 DEF vars, requestVars, producerVars
  <2>2. QED
    BY <2>1, Unnoticed DEF Outbox
<1>5. QED
  BY <1>1, <1>2, <1>3, <1>4 DEF Next

\* For any requests, pool, queue and retries the service is the journal that the
\* streaming and batch jobs read (main.rs:54-119).
THEOREM JournalImplemented == Spec => ImplementsJournal
<1>1. Init => J!Init
  BY DEF Init, J!Init, Outbox
<1>2. QED
  BY <1>1, StepRefines, Invariance, PTL DEF Spec, ImplementsJournal, J!Spec
==============================================================================
