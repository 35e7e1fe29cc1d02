----------------------------- MODULE EventStream -----------------------------
(***************************************************************************)
(* blah-events: the server-sent-events fan-out (src/blah-events).          *)
(*                                                                         *)
(* Two threads share connections: Arc<Mutex<Vec<Sender>>>.                 *)
(*  - The event-loop thread (TcpServer, one thread) runs call().  For      *)
(*    GET /events it creates a channel of capacity 0, pushes its sender    *)
(*    under the mutex and answers with the receiver as the body.  The      *)
(*    same thread moves what is in the channels to the sockets, so while   *)
(*    it waits for the mutex no client receives anything.                  *)
(*  - The Kafka thread consumes the topic "trainings" and, holding the     *)
(*    mutex for the whole broadcast, sends each text message to every      *)
(*    connection, waiting for each send.                                   *)
(*                                                                         *)
(* A sender of a full channel is parked by the send that fills it, and a   *)
(* parked sender waits until the receiver takes a message.  The broadcast  *)
(* stores a clone (to_owned) of each sender it used; a clone is not parked.*)
(*                                                                         *)
(* The service accepts connections at once, while the consumer still joins *)
(* its group; only when the partition is assigned to it is it known from   *)
(* which message on it consumes.                                           *)
(***************************************************************************)
EXTENDS Naturals, Sequences

CONSTANTS
    Clients,        \* connections (a browser that reconnects is another one)
    Text,           \* offsets of "trainings" whose payload is UTF-8 text
    ChannelSlots,   \* messages the library may fetch ahead of the Kafka thread
    MaxTopic,       \* bound: messages produced to "trainings"
    MaxCrashes,     \* bound: restarts of the service
    NoOffset        \* the consumer group has committed nothing yet

ASSUME TextAssumption == Text \subseteq Nat \ {0}
ASSUME BoundsAssumption ==
    /\ MaxTopic \in Nat
    /\ MaxCrashes \in Nat
    /\ ChannelSlots \in Nat \ {0}
ASSUME NoOffsetAssumption == NoOffset \notin Nat

VARIABLES
    topic,          \* number of messages in "trainings"; offsets 1..topic
    committed,      \* offset committed for the group "blah-events-0"
    stored,         \* last offset the client library has fetched since it
                    \* started, which is what it may commit (or NoOffset)
    position,       \* offset of the last message given to the Kafka thread
                    \* (0 while it joins)
    kafka,          \* Kafka thread: "join", "poll", "lock" (has a message), "send"
    conns,          \* the shared vector of senders
    next,           \* index of iter_mut in the broadcast
    kept,           \* the senders collect() has gathered so far
    phase,          \* "none", "waiting" (call() wants the mutex), "open", "closed"
    sent,           \* everything ever put into a connection's channel
    read,           \* how much of it the event loop has moved to the socket
    start,          \* history: last offset handled when it registered, or where
                    \* the consumer started if that was later
    crashes

kafkaVars == <<position, kafka, next, kept>>
serviceVars == <<committed, stored, crashes>>
clientVars == <<phase, sent, read, start>>
vars == <<topic, serviceVars, kafkaVars, conns, clientVars>>

Handle == [client : Clients, parked : BOOLEAN]

TypeOK ==
    /\ topic \in 0..MaxTopic
    /\ committed \in Nat \cup {NoOffset}
    /\ stored \in Nat \cup {NoOffset}
    /\ position \in Nat
    /\ kafka \in {"join", "poll", "lock", "send"}
    /\ conns \in Seq(Handle)
    /\ next \in Nat \ {0}
    /\ kept \in Seq(Handle)
    /\ phase \in [Clients -> {"none", "waiting", "open", "closed"}]
    /\ sent \in [Clients -> Seq(Nat)]
    /\ read \in [Clients -> Nat]
    /\ start \in [Clients -> Nat]
    /\ crashes \in 0..MaxCrashes

Init ==
    /\ topic = 0
    /\ committed = NoOffset
    /\ stored = NoOffset
    /\ position = 0
    /\ kafka = "join"
    /\ conns = <<>>
    /\ next = 1
    /\ kept = <<>>
    /\ phase = [c \in Clients |-> "none"]
    /\ sent = [c \in Clients |-> <<>>]
    /\ read = [c \in Clients |-> 0]
    /\ start = [c \in Clients |-> 0]
    /\ crashes = 0

\* The Kafka thread holds the mutex exactly while it broadcasts; the event
\* loop holds it for one push only, which Register does in a single step.
Locked == kafka = "send"

\* The event-loop thread is inside call(), waiting for the mutex.
LoopBlocked == \E c \in Clients : phase[c] = "waiting"

\* Last offset the client library has fetched.
Fetched == IF stored = NoOffset THEN position ELSE stored

\* Last offset whose handling is complete.
Handled == IF kafka \in {"join", "poll"} THEN position ELSE position - 1

\* A sender after a send that filled its channel, and after the receiver took
\* a message.
Parked(h) == [client |-> h.client, parked |-> TRUE]
Unparked(h) == [client |-> h.client, parked |-> FALSE]

\* Mutant of ToOwned: the vector keeps the sender it used, not a clone.
ToOwnedSame(h) == h

\* tx.to_owned(): a clone of a sender has a task of its own.
ToOwned(h) == [client |-> h.client, parked |-> FALSE]

------------------------------------------------------------------------------
(* The event-loop thread.                                                  *)

\* GET /events reaches call(), which goes for the mutex.
Request(c) ==
    /\ ~LoopBlocked
    /\ phase[c] = "none"
    /\ phase' = [phase EXCEPT ![c] = "waiting"]
    /\ UNCHANGED <<topic, serviceVars, kafkaVars, conns, sent, read, start>>

\* The mutex is free: push the sender, unlock, answer with the body.
Register(c) ==
    /\ phase[c] = "waiting"
    /\ ~Locked
    /\ conns' = Append(conns, [client |-> c, parked |-> FALSE])
    /\ phase' = [phase EXCEPT ![c] = "open"]
    /\ start' = [start EXCEPT ![c] = Handled]
    /\ UNCHANGED <<topic, serviceVars, kafkaVars, sent, read>>

\* The event loop polls a body: one message leaves its channel, and the
\* receiver unparks the sender.
Receive(c) ==
    /\ ~LoopBlocked
    /\ phase[c] = "open"
    /\ read[c] < Len(sent[c])
    /\ read' = [read EXCEPT ![c] = @ + 1]
    /\ conns' = [i \in 1..Len(conns) |->
                    IF conns[i].client = c THEN Unparked(conns[i]) ELSE conns[i]]
    /\ UNCHANGED <<topic, serviceVars, kafkaVars, phase, sent, start>>

\* The client goes away: the event loop drops the body, hence the receiver.
Disconnect(c) ==
    /\ ~LoopBlocked
    /\ phase[c] = "open"
    /\ phase' = [phase EXCEPT ![c] = "closed"]
    /\ UNCHANGED <<topic, serviceVars, kafkaVars, conns, sent, read, start>>

------------------------------------------------------------------------------
(* The Kafka thread.                                                       *)

\* for_each is given the next message; a payload that is not text is ignored.
Poll ==
    /\ kafka = "poll"
    /\ position < Fetched
    /\ position' = position + 1
    /\ kafka' = IF position + 1 \in Text THEN "lock" ELSE "poll"
    /\ UNCHANGED <<topic, serviceVars, next, kept, conns, clientVars>>

\* let mut conns = connections.lock().unwrap()
Acquire ==
    /\ kafka = "lock"
    /\ kafka' = "send"
    /\ next' = 1
    /\ kept' = <<>>
    /\ UNCHANGED <<topic, serviceVars, position, conns, clientVars>>

\* Mutant of SendOk: try_send in place of send and wait, a full channel ignored.
SendOkTry ==
    /\ Locked
    /\ next <= Len(conns)
    /\ LET h == conns[next]
       IN  /\ phase[h.client] = "open"
           /\ sent' = IF read[h.client] < Len(sent[h.client]) THEN sent
                      ELSE [sent EXCEPT ![h.client] = Append(@, position)]
           /\ kept' = Append(kept, ToOwned(h))
    /\ next' = next + 1
    /\ UNCHANGED <<topic, serviceVars, position, kafka, conns, phase, read, start>>

\* tx.send(..).wait() is Ok: the channel takes the message, the sender that
\* filled it is parked, and a clone of it is kept.
SendOk ==
    /\ Locked
    /\ next <= Len(conns)
    /\ LET h == conns[next]
       IN  /\ phase[h.client] = "open"
           /\ ~h.parked
           /\ sent' = [sent EXCEPT ![h.client] = Append(@, position)]
           /\ conns' = [conns EXCEPT ![next] = Parked(h)]
           /\ kept' = Append(kept, ToOwned(Parked(h)))
    /\ next' = next + 1
    /\ UNCHANGED <<topic, serviceVars, position, kafka, phase, read, start>>

\* Mutants of SendErr: an error ends the broadcast (collect() into a Result),
\* and the sender of a dead connection is kept.
SendErrStops ==
    /\ Locked
    /\ next <= Len(conns)
    /\ phase[conns[next].client] = "closed"
    /\ conns' = kept
    /\ kafka' = "poll"
    /\ UNCHANGED <<topic, serviceVars, position, next, kept, clientVars>>

SendErrKeeps ==
    /\ Locked
    /\ next <= Len(conns)
    /\ phase[conns[next].client] = "closed"
    /\ kept' = Append(kept, ToOwned(conns[next]))
    /\ next' = next + 1
    /\ UNCHANGED <<topic, serviceVars, position, kafka, conns, clientVars>>

\* The receiver is gone: the send is an error and the sender is not kept.
SendErr ==
    /\ Locked
    /\ next <= Len(conns)
    /\ phase[conns[next].client] = "closed"
    /\ next' = next + 1
    /\ UNCHANGED <<topic, serviceVars, position, kafka, kept, conns, clientVars>>

\* Mutant of Finish: the senders are added to the vector, not put in its place.
FinishExtends ==
    /\ Locked
    /\ next > Len(conns)
    /\ conns' = conns \o kept
    /\ kafka' = "poll"
    /\ UNCHANGED <<topic, serviceVars, position, next, kept, clientVars>>

\* *conns = ...collect(); the guard goes out of scope.
Finish ==
    /\ Locked
    /\ next > Len(conns)
    /\ conns' = kept
    /\ kafka' = "poll"
    /\ UNCHANGED <<topic, serviceVars, position, next, kept, clientVars>>

------------------------------------------------------------------------------
(* Kafka and the process.                                                  *)

\* A training is announced by a streaming or a batch job.
Produce ==
    /\ topic < MaxTopic
    /\ topic' = topic + 1
    /\ UNCHANGED <<serviceVars, kafkaVars, conns, clientVars>>

\* The thread started by consumer.start() fetches a message and stores its
\* offset; the channel to the Kafka thread lets it run a little ahead.
Fetch ==
    /\ kafka # "join"
    /\ Fetched < topic
    /\ Fetched < position + ChannelSlots
    /\ stored' = Fetched + 1
    /\ UNCHANGED <<topic, committed, crashes, kafkaVars, conns, clientVars>>

\* enable.auto.commit: what is fetched is committed, broadcast or not.
Commit ==
    /\ stored # NoOffset
    /\ committed # stored
    /\ committed' = stored
    /\ UNCHANGED <<topic, stored, crashes, kafkaVars, conns, clientVars>>

\* Mutant of Resume: no auto.offset.reset for a group that has no offset yet.
ResumeCommitted == committed

\* Where a consumer of the group starts: auto.offset.reset is "largest", which
\* is the end of the topic when the partition is assigned.
Resume == IF committed = NoOffset THEN topic ELSE committed

\* The group assigns the partition to the consumer, and the position is looked
\* up.  Connections that registered before start there, too.
Assign ==
    /\ kafka = "join"
    /\ kafka' = "poll"
    /\ position' = Resume
    /\ start' = [c \in Clients |-> IF phase[c] = "open" THEN Resume ELSE start[c]]
    /\ UNCHANGED <<topic, serviceVars, next, kept, conns, phase, sent, read>>

\* The process dies and is started again: no connection survives.
Restart ==
    /\ crashes < MaxCrashes
    /\ crashes' = crashes + 1
    /\ stored' = NoOffset
    /\ position' = 0
    /\ kafka' = "join"
    /\ conns' = <<>>
    /\ next' = 1
    /\ kept' = <<>>
    /\ phase' = [c \in Clients |-> IF phase[c] = "none" THEN "none" ELSE "closed"]
    /\ UNCHANGED <<topic, committed, sent, read, start>>

------------------------------------------------------------------------------

KafkaThread == Poll \/ Acquire \/ SendOk \/ SendErr \/ Finish
EventLoop == \E c \in Clients : Request(c) \/ Register(c) \/ Receive(c) \/ Disconnect(c)
Environment == Produce \/ Assign \/ Fetch \/ Commit \/ Restart

Next == KafkaThread \/ EventLoop \/ Environment

Spec == Init /\ [][Next]_vars

\* Each thread keeps running: one that can take a step takes it, and the group
\* takes its consumer.  Nothing is assumed of clients that have not connected, of
\* commits or of crashes.
Fairness ==
    /\ WF_vars(Assign)
    /\ WF_vars(Fetch)
    /\ WF_vars(KafkaThread)
    /\ \A c \in Clients : WF_vars(Register(c)) /\ WF_vars(Receive(c))

FairSpec == Spec /\ Fairness

------------------------------------------------------------------------------
(* Correctness.                                                            *)

\* The last offset put into the channel of c, and the last one that left it.
Last(c) == IF sent[c] = <<>> THEN start[c] ELSE sent[c][Len(sent[c])]
Cursor(c) == IF read[c] = 0 THEN start[c] ELSE sent[c][read[c]]

\* The broadcast in progress has already been through the sender of c.
Passed(c) == Locked /\ \E i \in 1..(next - 1) : conns[i].client = c

\* The offset up to which a connection must have been sent everything.
Reached(c) == IF Passed(c) THEN position ELSE Handled

Registered(c) == \E i \in 1..Len(conns) : conns[i].client = c

\* A connection is one to the topic once the consumer has a position.
Feeding(c) ==
    IF phase[c] = "waiting" \/ (phase[c] = "open" /\ kafka = "join") THEN "none"
    ELSE phase[c]

\* A connection implements the feed a browser relies on (module Feed).
F == INSTANCE Feed WITH
        phase  <- [c \in Clients |-> Feeding(c)],
        cursor <- [c \in Clients |-> Cursor(c)],
        carried <- read

\* No step of either thread, restarts included, lets a connection skip,
\* repeat or reorder a message: main.rs:56-66 and 138-153 implement Feed.
ImplementsFeed == F!Spec

\* An open connection has been sent every text message broadcast since it
\* registered: the vector the broadcast writes back has lost no sender that
\* was pushed while it ran, and no registration falls between two messages.
NothingMissed ==
    \A c \in Clients : phase[c] = "open" =>
        /\ Last(c) <= Reached(c)
        /\ \A t \in Text : ~(Last(c) < t /\ t <= Reached(c))

\* The broadcast, which holds the mutex, never waits for a slow client: the
\* sender it comes to is not parked by an earlier message.  Otherwise the
\* Kafka thread would wait for the event loop to drain a channel while the
\* event loop waits in call() for the mutex.
BroadcastNeverWaits ==
    Locked /\ next <= Len(conns) => ~conns[next].parked

\* Each client has at most one sender in the vector, and every open one has it:
\* no message is sent twice to a connection.
OneSenderEach ==
    /\ \A i, j \in 1..Len(conns) : conns[i].client = conns[j].client => i = j
    /\ \A c \in Clients : phase[c] = "open" => Registered(c)

\* A request for /events is answered, however slow the other clients are.
RequestAnswered ==
    \A c \in Clients : phase[c] = "waiting" ~> phase[c] # "waiting"

\* A message produced while a client is connected to a consumer that has been
\* assigned the partition reaches it, unless the connection ends first.  (One
\* produced while the consumer joins its group may reach nobody.)
EventuallyReceived ==
    \A c \in Clients, t \in Text :
        (phase[c] = "open" /\ kafka # "join" /\ start[c] < t /\ t <= topic)
            ~> (phase[c] = "closed" \/ Cursor(c) >= t)

\* The sender of a connection that has ended is dropped by the next broadcast:
\* the vector does not fill with dead senders while there is traffic.
DeadSenderDropped ==
    \A c \in Clients :
        (/\ phase[c] = "closed" /\ kafka # "join"
         /\ \E t \in Text : position < t /\ t <= topic)
            ~> ~Registered(c)
==============================================================================
