----------------------------- MODULE DataService -----------------------------
(***************************************************************************)
(* blah-data: the service that accepts events (src/blah-data).             *)
(*                                                                         *)
(* One thread runs the event loop.  For every request, whatever its route, *)
(* call() takes a connection of the Postgres pool before it reads the      *)
(* body; the connection belongs to the future that folds the body and goes *)
(* back when that future ends.  pool.get() blocks the thread; after the    *)
(* pool's timeout it is an error, and unwrap() turns the error into a      *)
(* panic of the only thread, that is, the end of the process.              *)
(*                                                                         *)
(* When the body of POST /data/<collection> is complete and is JSON, the   *)
(* same thread inserts the row, puts the message into the producer's       *)
(* queue, and answers 204.  A failed insert and a full queue are panics.   *)
(* The producer's own thread delivers the queue to the topic "events"; a   *)
(* failed delivery is logged and nothing else.                             *)
(***************************************************************************)
EXTENDS Naturals, FiniteSets

CONSTANTS
    Requests,       \* HTTP requests
    PoolSize,       \* connections in the pool (r2d2's default is 10)
    QueueMax,       \* messages the producer's queue can hold
    Retries,        \* times the producer may repeat an unacknowledged message
    MaxKills,       \* bound: kills of the process from outside
    MaxOutages,     \* bound: outages of Postgres
    Nobody          \* no request

ASSUME PoolAssumption == PoolSize \in Nat \ {0}
ASSUME QueueAssumption == QueueMax \in Nat /\ Retries \in Nat
ASSUME BoundsAssumption == MaxKills \in Nat /\ MaxOutages \in Nat
ASSUME RequestsAssumption == IsFiniteSet(Requests) /\ Nobody \notin Requests

\* What a request is: an event, JSON that the jsonb column does not take, a
\* body that is not JSON on the same route, the health check, anything else.
Kinds == {"event", "unstorable", "garbage", "health", "other"}
Parsed == {"event", "unstorable"}

VARIABLES
    loop,       \* event loop: "idle", "get" (in pool.get), "insert", "send", "down"
    cur,        \* the request the event loop is handling
    phase,      \* "new", "reading" (the body), "answered", "reset"
    kind,       \* of each request that was called
    status,     \* HTTP status answered, 0 for none
    free,       \* connections in the pool that no future holds
    pgUp,       \* Postgres answers
    broken,     \* requests whose connection was cut by an outage
    rows,       \* how often each request's event is in the table "events"
    queue,      \* messages in the producer's queue
    log,        \* how often each request's event is in the topic "events"
    lost,       \* history: messages given up by the producer or lost in a crash
    kills, outages

requestVars == <<phase, kind, status>>
producerVars == <<queue, log, lost>>
environmentVars == <<pgUp, broken, kills, outages>>
vars == <<loop, cur, requestVars, free, rows, producerVars, environmentVars>>

TypeOK ==
    /\ loop \in {"idle", "get", "insert", "send", "down"}
    /\ cur \in Requests \cup {Nobody}
    /\ phase \in [Requests -> {"new", "reading", "answered", "reset"}]
    /\ kind \in [Requests -> Kinds]
    /\ status \in [Requests -> {0, 200, 204, 400, 404}]
    /\ free \in 0..PoolSize
    /\ pgUp \in BOOLEAN
    /\ broken \in SUBSET Requests
    /\ rows \in [Requests -> Nat]
    /\ queue \in SUBSET Requests
    /\ log \in [Requests -> Nat]
    /\ lost \in SUBSET Requests
    /\ kills \in 0..MaxKills
    /\ outages \in 0..MaxOutages

Init ==
    /\ loop = "idle"
    /\ cur = Nobody
    /\ phase = [r \in Requests |-> "new"]
    /\ kind \in [Requests -> Kinds]
    /\ status = [r \in Requests |-> 0]
    /\ free = PoolSize
    /\ pgUp = TRUE
    /\ broken = {}
    /\ rows = [r \in Requests |-> 0]
    /\ queue = {}
    /\ log = [r \in Requests |-> 0]
    /\ lost = {}
    /\ kills = 0
    /\ outages = 0

------------------------------------------------------------------------------
(* The end of the process.                                                 *)

\* Requests being handled are cut off; the pool and the queue are gone.  Events
\* that were stored but not queued (stored) are lost for the topic as well.
Die(stored) ==
    /\ loop' = "down"
    /\ cur' = Nobody
    /\ phase' = [r \in Requests |->
                    IF phase[r] = "reading" \/ r = cur THEN "reset" ELSE phase[r]]
    /\ free' = PoolSize
    /\ queue' = {}
    /\ lost' = lost \cup queue \cup stored
    /\ UNCHANGED <<kind, status, log>>

------------------------------------------------------------------------------
(* The event-loop thread.                                                  *)

\* The head of a request is read: call() asks the pool for a connection.  It
\* is given one at once, or the thread blocks.
Call(r) ==
    /\ loop = "idle"
    /\ phase[r] = "new"
    /\ IF free > 0 /\ pgUp
       THEN /\ free' = free - 1
            /\ phase' = [phase EXCEPT ![r] = "reading"]
            /\ UNCHANGED <<loop, cur>>
       ELSE /\ loop' = "get"
            /\ cur' = r
            /\ UNCHANGED <<free, phase>>
    /\ UNCHANGED <<kind, status, rows, producerVars, environmentVars>>

\* Mutant of GetOk: the pool lends a connection it does not have.
GetOkUnguarded ==
    /\ loop = "get"
    /\ pgUp
    /\ free' = free - 1
    /\ phase' = [phase EXCEPT ![cur] = "reading"]
    /\ loop' = "idle"
    /\ cur' = Nobody
    /\ UNCHANGED <<kind, status, rows, producerVars, environmentVars>>

\* pool.get() returns: Postgres is back and the pool had a connection left.
GetOk ==
    /\ loop = "get"
    /\ free > 0
    /\ pgUp
    /\ free' = free - 1
    /\ phase' = [phase EXCEPT ![cur] = "reading"]
    /\ loop' = "idle"
    /\ cur' = Nobody
    /\ UNCHANGED <<kind, status, rows, producerVars, environmentVars>>

\* Mutant of GetTimeout: no timeout on an empty pool.
GetTimeoutOutage ==
    /\ loop = "get"
    /\ ~pgUp
    /\ Die({})
    /\ UNCHANGED <<rows, environmentVars>>

\* pool.get() times out and unwrap() panics.
GetTimeout ==
    /\ loop = "get"
    /\ free = 0 \/ ~pgUp
    /\ Die({})
    /\ UNCHANGED <<rows, environmentVars>>

\* The future of r ends with an answer; its connection goes back.
Answer(r, code) ==
    /\ phase' = [phase EXCEPT ![r] = "answered"]
    /\ status' = [status EXCEPT ![r] = code]
    /\ free' = free + 1

\* The answer to a complete body that is not an event.
CodeOf(k) == CASE k = "garbage" -> 400 [] k = "health" -> 200 [] OTHER -> 404

\* The body is complete and is no event: nothing but the answer.
BodyAnswered(r) ==
    /\ loop = "idle"
    /\ phase[r] = "reading"
    /\ kind[r] \notin Parsed
    /\ Answer(r, CodeOf(kind[r]))
    /\ UNCHANGED <<loop, cur, kind, rows, producerVars, environmentVars>>

\* The body is complete and parses: the thread turns to the insert.
BodyParsed(r) ==
    /\ loop = "idle"
    /\ phase[r] = "reading"
    /\ kind[r] \in Parsed
    /\ loop' = "insert"
    /\ cur' = r
    /\ UNCHANGED <<requestVars, free, rows, producerVars, environmentVars>>

\* Mutant of Insert: the result of conn.execute() is ignored.
InsertIgnored ==
    /\ loop = "insert"
    /\ \/ /\ pgUp /\ cur \notin broken /\ kind[cur] = "event"
          /\ rows' = [rows EXCEPT ![cur] = @ + 1]
       \/ /\ ~pgUp \/ cur \in broken \/ kind[cur] # "event"
          /\ rows' = rows
    /\ loop' = "send"
    /\ UNCHANGED <<cur, requestVars, free, producerVars, environmentVars>>

\* conn.execute("INSERT ...") succeeds.
Insert ==
    /\ loop = "insert"
    /\ pgUp
    /\ cur \notin broken
    /\ kind[cur] = "event"
    /\ rows' = [rows EXCEPT ![cur] = @ + 1]
    /\ loop' = "send"
    /\ UNCHANGED <<cur, requestVars, free, producerVars, environmentVars>>

\* conn.execute("INSERT ...") fails and unwrap() panics.
InsertPanic ==
    /\ loop = "insert"
    /\ ~pgUp \/ cur \in broken \/ kind[cur] # "event"
    /\ Die({})
    /\ UNCHANGED <<rows, environmentVars>>

\* Mutant of InsertUnconfirmed: the failure is answered 400, not a panic.
InsertUnconfirmedAnswered ==
    /\ loop = "insert"
    /\ ~pgUp
    /\ cur \notin broken
    /\ kind[cur] = "event"
    /\ rows' = [rows EXCEPT ![cur] = @ + 1]
    /\ Answer(cur, 400)
    /\ loop' = "idle"
    /\ cur' = Nobody
    /\ UNCHANGED <<kind, producerVars, environmentVars>>

\* Postgres goes away after it stored the row and before it said so.
InsertUnconfirmed ==
    /\ loop = "insert"
    /\ ~pgUp
    /\ cur \notin broken
    /\ kind[cur] = "event"
    /\ rows' = [rows EXCEPT ![cur] = @ + 1]
    /\ Die({cur})
    /\ UNCHANGED environmentVars

\* Mutant of Send: a full queue is ignored, and answered like a taken message.
SendIgnored ==
    /\ loop = "send"
    /\ queue' = IF Cardinality(queue) < QueueMax THEN queue \cup {cur} ELSE queue
    /\ Answer(cur, 204)
    /\ loop' = "idle"
    /\ cur' = Nobody
    /\ UNCHANGED <<kind, rows, log, lost, environmentVars>>

\* send_copy() takes the message; the answer is 204, delivered or not.
Send ==
    /\ loop = "send"
    /\ Cardinality(queue) < QueueMax
    /\ queue' = queue \cup {cur}
    /\ Answer(cur, 204)
    /\ loop' = "idle"
    /\ cur' = Nobody
    /\ UNCHANGED <<kind, rows, log, lost, environmentVars>>

\* The producer's queue is full: send_copy() fails and unwrap() panics.
SendPanic ==
    /\ loop = "send"
    /\ Cardinality(queue) >= QueueMax
    /\ Die({cur})
    /\ UNCHANGED <<rows, environmentVars>>

\* Mutants of Disconnect: the connection is not given back, and the future ends
\* although the only thread is blocked in pool.get().
DisconnectLeaks(r) ==
    /\ loop = "idle"
    /\ phase[r] = "reading"
    /\ phase' = [phase EXCEPT ![r] = "reset"]
    /\ UNCHANGED <<loop, cur, kind, status, free, rows, producerVars, environmentVars>>

DisconnectAnyTime(r) ==
    /\ phase[r] = "reading"
    /\ phase' = [phase EXCEPT ![r] = "reset"]
    /\ free' = free + 1
    /\ UNCHANGED <<loop, cur, kind, status, rows, producerVars, environmentVars>>

\* The client goes away while its body is read: the future ends.
Disconnect(r) ==
    /\ loop = "idle"
    /\ phase[r] = "reading"
    /\ phase' = [phase EXCEPT ![r] = "reset"]
    /\ free' = free + 1
    /\ UNCHANGED <<loop, cur, kind, status, rows, producerVars, environmentVars>>

------------------------------------------------------------------------------
(* The producer's thread.                                                  *)

\* Mutant of Deliver: the message stays queued although it was acknowledged.
DeliverStays(r) ==
    /\ r \in queue
    /\ log' = [log EXCEPT ![r] = @ + 1]
    /\ UNCHANGED <<loop, cur, requestVars, free, rows, queue, lost, environmentVars>>

\* A message reaches the topic and is acknowledged.  Messages in flight may
\* overtake each other.
Deliver(r) ==
    /\ r \in queue
    /\ log' = [log EXCEPT ![r] = @ + 1]
    /\ queue' = queue \ {r}
    /\ UNCHANGED <<loop, cur, requestVars, free, rows, lost, environmentVars>>

\* It reaches the topic, but the acknowledgement is lost: it will be repeated.
DeliverUnacked(r) ==
    /\ r \in queue
    /\ log[r] < Retries
    /\ log' = [log EXCEPT ![r] = @ + 1]
    /\ UNCHANGED <<loop, cur, requestVars, free, rows, queue, lost, environmentVars>>

\* The producer gives up: the error is logged.
DeliveryFails(r) ==
    /\ r \in queue
    /\ queue' = queue \ {r}
    /\ lost' = lost \cup {r}
    /\ UNCHANGED <<loop, cur, requestVars, free, rows, log, environmentVars>>

------------------------------------------------------------------------------
(* The environment.                                                        *)

\* Connections held by a request break, but for the one an insert is using,
\* which finds out by itself.
PgDown ==
    /\ pgUp
    /\ outages < MaxOutages
    /\ pgUp' = FALSE
    /\ broken' = broken \cup
          {r \in Requests : phase[r] = "reading" /\ ~(loop = "insert" /\ r = cur)}
    /\ outages' = outages + 1
    /\ UNCHANGED <<loop, cur, requestVars, free, rows, producerVars, kills>>

PgRecovers ==
    /\ ~pgUp
    /\ pgUp' = TRUE
    /\ UNCHANGED <<loop, cur, requestVars, free, rows, producerVars, broken, kills, outages>>

Kill ==
    /\ loop # "down"
    /\ kills < MaxKills
    /\ kills' = kills + 1
    /\ Die(IF loop = "send" THEN {cur} ELSE {})
    /\ UNCHANGED <<rows, pgUp, broken, outages>>

\* Marathon starts the process again; without Postgres it panics in main().
Restart ==
    /\ loop = "down"
    /\ pgUp
    /\ loop' = "idle"
    /\ UNCHANGED <<cur, requestVars, free, rows, producerVars, environmentVars>>

------------------------------------------------------------------------------

EventLoop ==
    \/ GetOk \/ GetTimeout
    \/ Insert \/ InsertPanic \/ InsertUnconfirmed
    \/ Send \/ SendPanic
    \/ \E r \in Requests :
          Call(r) \/ BodyAnswered(r) \/ BodyParsed(r) \/ Disconnect(r)
Producer == \E r \in Requests : Deliver(r) \/ DeliverUnacked(r) \/ DeliveryFails(r)
Environment == PgDown \/ PgRecovers \/ Kill \/ Restart

Next == EventLoop \/ Producer \/ Environment

Spec == Init /\ [][Next]_vars

\* The thread finishes what it is in the middle of (a pool timeout included),
\* the producer gets rid of each message, and Postgres and the process come
\* back.  That bodies arrive is up to the clients.
Fairness ==
    /\ WF_vars(GetOk) /\ WF_vars(GetTimeout)
    /\ WF_vars(Insert \/ InsertPanic) /\ WF_vars(Send \/ SendPanic)
    /\ \A r \in Requests : WF_vars(Deliver(r) \/ DeliveryFails(r))
    /\ WF_vars(PgRecovers) /\ WF_vars(Restart)

FairSpec == Spec /\ Fairness

------------------------------------------------------------------------------
(* Correctness.                                                            *)

\* The requests whose future holds a connection.
Holders == {r \in Requests : phase[r] = "reading"}

\* Every connection is in the pool or with a request whose body is being read
\* or handled: no error path, disconnect or panic leaks or duplicates one.
PoolConserved == free + Cardinality(Holders) = PoolSize

\* An event in the producer's queue or in the topic is in the table: a batch
\* job that reads the table sees at least what the streaming jobs saw.
StoredBeforeStreamed ==
    \A r \in Requests : r \in queue \/ log[r] > 0 => rows[r] = 1

\* The answer tells the truth about the table: 204 means exactly one row, any
\* other answer means none, and no request leaves two rows.
AnswerIsTruthful ==
    \A r \in Requests :
        /\ status[r] = 204 => rows[r] = 1
        /\ status[r] \notin {0, 204} => rows[r] = 0
        /\ rows[r] <= 1

\* A stored event that is missing from the topic is on its way (about to be
\* sent or in the queue), or the producer gave it up, or it died with the
\* process: nothing else makes table and topic differ.
MissingIsExplained ==
    \A r \in Requests : rows[r] = 1 /\ log[r] = 0 =>
        (loop = "send" /\ cur = r) \/ r \in queue \/ r \in lost

\* The events that may still reach the topic: the one that was just stored and
\* those in the producer's queue.
Outbox == queue \cup (IF loop = "send" THEN {cur} ELSE {})

\* The service is the journal that its callers and the streaming jobs rely on.
J == INSTANCE Journal WITH Events <- Requests, outbox <- Outbox

\* Whatever ends the process, and whatever the pool, Postgres and the producer do,
\* a row comes first, then its message, which may be repeated or given up but never
\* comes back, and what was answered stays true: main.rs:54-119 implements Journal.
ImplementsJournal == J!Spec

\* Once the event loop waits for a pool that is empty, the wait is in vain: the
\* connections are held by futures only the event loop itself can run, so
\* nothing but the end of the process ends the wait.
EmptyPoolIsFatal ==
    [][loop = "get" /\ free = 0 => loop' = "down" \/ (loop' = "get" /\ free' = 0)]_vars

\* The service always gets back to serving requests, through a restart if need
\* be.
ServesAgain == loop # "idle" ~> loop = "idle"

\* A stored event ends up in the topic or is given up; it does not linger.
StreamSettles ==
    \A r \in Requests : rows[r] = 1 ~> (log[r] > 0 \/ r \in lost)
==============================================================================
