----------------------------- MODULE Collection -----------------------------
(***************************************************************************)
(* blah-collection/processing: how many events of each collection arrived  *)
(* in each second, kept as documents of the Elasticsearch index            *)
(* "collection".  Two processes write them:                                *)
(*  - "streaming" consumes the topic "events" into a map and, at every     *)
(*    tick of a timer, sends the map to Elasticsearch as one bulk of       *)
(*    increments and clears it.  It does not wait for the answer.          *)
(*  - "batch", a job, reads the whole table "events" and sends the counts  *)
(*    as one bulk of upserts that overwrite the documents.                 *)
(*                                                                         *)
(* Both bodies go through a read_function that starts at the beginning of  *)
(* the body each time it is called: a body longer than the transfer buffer *)
(* is sent as repetitions of its first part.  Offsets are committed by a   *)
(* timer of the client library, whether or not their messages have left    *)
(* the map.  What was sent to Elasticsearch may be applied long after the  *)
(* request has failed or the process that sent it has ended.               *)
(***************************************************************************)
EXTENDS Naturals, Sequences, FiniteSets

CONSTANTS
    Events,         \* events accepted by blah-data
    Keys,           \* a second and a collection: the id of a document
    KeyOf,          \* the key of each event
    BufferItems,    \* items of a bulk that fit into the transfer buffer
    ChannelSlots,   \* messages the library may fetch ahead of for_each
    MaxTopic,       \* bound: messages in the topic "events"
    MaxCrashes,     \* bound: restarts of the streaming process
    MaxRuns,        \* bound: runs of the batch job
    NoOffset,       \* no offset is known
    NoRace          \* nothing is said of the race for a document

ASSUME SetsAssumption == IsFiniteSet(Events) /\ IsFiniteSet(Keys)
ASSUME KeyAssumption == KeyOf \in [Events -> Keys]
ASSUME SizesAssumption == BufferItems \in Nat \ {0} /\ ChannelSlots \in Nat \ {0}
ASSUME BoundsAssumption == MaxTopic \in Nat /\ MaxCrashes \in Nat /\ MaxRuns \in Nat
ASSUME NoOffsetAssumption == NoOffset \notin Nat

VARIABLES
    table,          \* events in the Postgres table
    past,           \* keys that will get no more rows: their second is over
    outbox,         \* events whose message may still reach the topic
    topic,          \* messages of the topic "events"; offsets 1..Len(topic)
    committed,      \* offset committed for the group, or NoOffset
    position,       \* offset of the last message for_each was given, or
                    \* NoOffset while the consumer joins its group
    map,            \* the HashMap of the streaming process: counts by key
    bulks,          \* number of bulks sent by the streaming process
    flight,         \* increments on their way to the index
    index,          \* the count in each document, 0 if there is none
    batch,          \* batch job: "idle", "read" (the table), "sent"
    upserts,        \* the counts it has read
    posted,         \* counts sent, by this run or an earlier one, that may
                    \* still be written
    runs,
    healed,         \* history: keys a batch wrote when nothing was under way
    race,           \* history: for each document what raced with its last write
    start,          \* history: the first position of the consumer, or NoOffset
    again,          \* history: messages of each key given to for_each again
    failed,         \* history: an increment failed
    torn,           \* history: a bulk of increments exceeded the buffer
    crashes

storeVars == <<table, past, outbox>>
consumerVars == <<committed, position>>
streamingVars == <<map, bulks, flight>>
batchVars == <<batch, runs, healed>>
raceVars == <<upserts, posted, race>>
historyVars == <<start, again, failed, torn, crashes>>
vars == <<storeVars, topic, consumerVars, streamingVars, index, batchVars, raceVars,
          historyVars>>

Increment == [bulk : Nat, copy : Nat, key : Keys, count : Nat]

\* How much of a key was under way when the batch read the table, and how much
\* was added to the document between the read and the write.
Race == [over : Nat, missed : Nat]

\* quiet and race are history: nothing was under way when the table was read, and
\* what raced since then.
Upsert == [run : Nat, copy : Nat, key : Keys, count : Nat,
           quiet : BOOLEAN, race : Race \cup {NoRace}]

TypeOK ==
    /\ table \in SUBSET Events
    /\ past \in SUBSET Keys
    /\ outbox \in SUBSET Events
    /\ topic \in Seq(Events)
    /\ committed \in (0..Len(topic)) \cup {NoOffset}
    /\ position \in (0..Len(topic)) \cup {NoOffset}
    /\ map \in [Keys -> Nat]
    /\ bulks \in Nat
    /\ flight \in SUBSET Increment /\ IsFiniteSet(flight)
    /\ index \in [Keys -> Nat]
    /\ batch \in {"idle", "read", "sent"}
    /\ upserts \in SUBSET Upsert
    /\ posted \in SUBSET Upsert
    /\ runs \in 0..MaxRuns
    /\ healed \in SUBSET Keys
    /\ race \in [Keys -> Race \cup {NoRace}]
    /\ start \in (0..Len(topic)) \cup {NoOffset}
    /\ again \in [Keys -> Nat]
    /\ failed \in BOOLEAN
    /\ torn \in BOOLEAN
    /\ crashes \in 0..MaxCrashes

Init ==
    /\ table = {}
    /\ past = {}
    /\ outbox = {}
    /\ topic = <<>>
    /\ committed = NoOffset
    /\ position = NoOffset
    /\ map = [k \in Keys |-> 0]
    /\ bulks = 0
    /\ flight = {}
    /\ index = [k \in Keys |-> 0]
    /\ batch = "idle"
    /\ upserts = {}
    /\ posted = {}
    /\ runs = 0
    /\ healed = {}
    /\ race = [k \in Keys |-> NoRace]
    /\ start = NoOffset
    /\ again = [k \in Keys |-> 0]
    /\ failed = FALSE
    /\ torn = FALSE
    /\ crashes = 0

\* Rows of the table, and messages at offsets a + 1 .. b, with key k.
Rows(k) == Cardinality({e \in table : KeyOf[e] = k})
Messages(k, a, b) == Cardinality({o \in (a + 1)..b : KeyOf[topic[o]] = k})

\* The keys of the map.
Dirty == {k \in Keys : map[k] > 0}

\* Where a consumer of the group starts: auto.offset.reset is "largest", which
\* is the end of the topic when the partition is assigned.
Resume == IF committed = NoOffset THEN Len(topic) ELSE committed

\* The messages up to here are handled or passed over.
Handled == IF position = NoOffset THEN Resume ELSE position

\* An increment stands for as many units as it counts.
Units(k) == UNION {{i} \X (1..i.count) : i \in {j \in flight : j.key = k}}

\* Counts of key k that are not in the index yet, and those to come with them.
Pending(k) == map[k] + Cardinality(Units(k))
ToCome(k) ==
    Cardinality({e \in outbox : KeyOf[e] = k}) + Messages(k, Handled, Len(topic)) + Pending(k)

\* Nothing about key k is under way, nor will be: no row or message to come, no
\* message that is still to be handled or would be handled again after a
\* restart, no count in the map, no increment in flight.
Quiet(k) ==
    /\ k \in past
    /\ \A e \in outbox : KeyOf[e] # k
    /\ \A o \in 1..Len(topic) : KeyOf[topic[o]] = k => o <= Handled /\ o <= Resume
    /\ map[k] = 0
    /\ \A i \in flight : i.key # k

\* From here on a document may differ from its rows by more than what raced,
\* until a batch that reads the table from now on has written it.
Forget(S) == {[u EXCEPT !.race = NoRace] : u \in S}
Mishap ==
    /\ upserts' = Forget(upserts)
    /\ posted' = Forget(posted)
    /\ race' = [k \in Keys |-> NoRace]

------------------------------------------------------------------------------
(* blah-data and its producer: rows first, then messages (module Journal).  *)

\* An event is stored; its date, taken before, belongs to a second for which
\* rows still come in.
Store(e) ==
    /\ e \notin table
    /\ KeyOf[e] \notin past
    /\ table' = table \cup {e}
    /\ outbox' = outbox \cup {e}
    /\ UNCHANGED <<past, topic, consumerVars, streamingVars, index, batchVars,
                   raceVars, historyVars>>

\* The last row of a second is in.
Tick(k) ==
    /\ k \notin past
    /\ past' = past \cup {k}
    /\ UNCHANGED <<table, outbox, topic, consumerVars, streamingVars, index,
                   batchVars, raceVars, historyVars>>

\* The message of an event reaches the topic; it may do so twice.  While the
\* consumer joins its group it may be passed over.
Deliver(e) ==
    /\ e \in outbox
    /\ Len(topic) < MaxTopic
    /\ topic' = Append(topic, e)
    /\ outbox' \in {outbox, outbox \ {e}}
    /\ IF outbox' = outbox \/ position = NoOffset THEN Mishap ELSE UNCHANGED raceVars
    /\ UNCHANGED <<table, past, consumerVars, streamingVars, index, batchVars,
                   historyVars>>

\* The producer gives up, or dies with the message in its queue.
GiveUp(e) ==
    /\ e \in outbox
    /\ outbox' = outbox \ {e}
    /\ Mishap
    /\ UNCHANGED <<table, past, topic, consumerVars, streamingVars, index,
                   batchVars, historyVars>>

------------------------------------------------------------------------------
(* The streaming process.                                                  *)

\* The group assigns the partition to the consumer, and the position is looked
\* up.
Assign ==
    /\ position = NoOffset
    /\ position' = Resume
    /\ start' = IF start = NoOffset THEN Resume ELSE start
    /\ UNCHANGED <<storeVars, topic, committed, streamingVars, index, batchVars,
                   raceVars, again, failed, torn, crashes>>

\* for_each is given the next message and counts it in the map.
Consume ==
    /\ position # NoOffset
    /\ position < Len(topic)
    /\ position' = position + 1
    /\ map' = [map EXCEPT ![KeyOf[topic[position + 1]]] = @ + 1]
    /\ UNCHANGED <<storeVars, topic, committed, bulks, flight, index, batchVars,
                   raceVars, historyVars>>

\* Mutant of Commit: offsets are committed that are not in the topic yet.
CommitBeyond ==
    /\ position # NoOffset
    /\ committed' \in position..(position + ChannelSlots)
    /\ committed # NoOffset => committed < committed'
    /\ UNCHANGED <<storeVars, topic, position, streamingVars, index, batchVars,
                   raceVars, historyVars>>

\* enable.auto.commit: what the library has fetched, which is what for_each has
\* handled and what waits in the channel, is committed.
Commit ==
    /\ position # NoOffset
    /\ committed' \in position..Len(topic)
    /\ committed' <= position + ChannelSlots
    /\ committed # NoOffset => committed < committed'
    /\ UNCHANGED <<storeVars, topic, position, streamingVars, index, batchVars,
                   raceVars, historyVars>>

\* What arrives of a bulk with an item for each of the keys S: how often each.
\* A body that exceeds the buffer arrives as repetitions of its first part: it
\* is rejected as a whole, or items of the first part are in it, possibly more
\* than once, and the rest is not.
Arrivals(S) ==
    LET n == Cardinality(S)
        Copies == (n + BufferItems - 1) \div BufferItems
    IN  IF n <= BufferItems
        THEN {[k \in Keys |-> IF k \in S THEN 1 ELSE 0]}
        ELSE {copies \in [Keys -> 0..Copies] :
                 LET Present == {k \in Keys : copies[k] > 0}
                 IN  Present \subseteq S /\ Cardinality(Present) <= BufferItems}

\* The bulk of the map: copies[k] times the increment of key k.
Bulk(copies) ==
    UNION {{[bulk |-> bulks + 1, copy |-> n, key |-> k, count |-> map[k]] :
               n \in 1..copies[k]} : k \in Keys}

Tears == Cardinality(Dirty) > BufferItems

\* Mutant of Flush: the map is not cleared.
FlushKeeps ==
    /\ Dirty # {}
    /\ \E copies \in Arrivals(Dirty) : flight' = flight \cup Bulk(copies)
    /\ bulks' = bulks + 1
    /\ torn' = (torn \/ Tears)
    /\ IF Tears THEN Mishap ELSE UNCHANGED raceVars
    /\ UNCHANGED <<storeVars, topic, consumerVars, map, index, batchVars,
                   start, again, failed, crashes>>

\* Mutant of Flush: the process waits until the map fills the buffer.
FlushFull ==
    /\ Cardinality(Dirty) >= BufferItems
    /\ \E copies \in Arrivals(Dirty) : flight' = flight \cup Bulk(copies)
    /\ bulks' = bulks + 1
    /\ torn' = (torn \/ Tears)
    /\ IF Tears THEN Mishap ELSE UNCHANGED raceVars
    /\ map' = [k \in Keys |-> 0]
    /\ UNCHANGED <<storeVars, topic, consumerVars, index, batchVars,
                   start, again, failed, crashes>>

\* The timer ticks: the map, if there is anything in it, is sent as increments
\* and cleared at once.
Flush ==
    /\ Dirty # {}
    /\ \E copies \in Arrivals(Dirty) : flight' = flight \cup Bulk(copies)
    /\ bulks' = bulks + 1
    /\ torn' = (torn \/ Tears)
    /\ IF Tears THEN Mishap ELSE UNCHANGED raceVars
    /\ map' = [k \in Keys |-> 0]
    /\ UNCHANGED <<storeVars, topic, consumerVars, index, batchVars,
                   start, again, failed, crashes>>

\* The process ends, be it that send_copy() to "trainings" panics on a full
\* queue, and is started again: the map is gone, and messages whose offset was
\* not committed will be given to for_each again.
Restart ==
    /\ crashes < MaxCrashes
    /\ crashes' = crashes + 1
    /\ position' = NoOffset
    /\ again' = [k \in Keys |-> again[k] + Messages(k, Resume, Handled)]
    /\ map' = [k \in Keys |-> 0]
    /\ Mishap
    /\ UNCHANGED <<storeVars, topic, committed, bulks, flight, index, batchVars,
                   start, failed, torn>>

------------------------------------------------------------------------------
(* Elasticsearch and the increments.                                       *)

\* History: a batch that has read the table will overwrite the increment.
Missing(S, i) ==
    {IF u.key = i.key /\ u.race # NoRace
     THEN [u EXCEPT !.race.missed = @ + i.count] ELSE u : u \in S}

\* Mutant of Apply: the document is replaced by what was to be added to it.
ApplySets(i) ==
    /\ i \in flight
    /\ index' = [index EXCEPT ![i.key] = i.count]
    /\ flight' = flight \ {i}
    /\ upserts' = Missing(upserts, i)
    /\ posted' = Missing(posted, i)
    /\ UNCHANGED <<storeVars, topic, consumerVars, map, bulks, batchVars, race,
                   historyVars>>

\* "ctx._source.count += count", or the document is created with the count.
Apply(i) ==
    /\ i \in flight
    /\ index' = [index EXCEPT ![i.key] = @ + i.count]
    /\ flight' = flight \ {i}
    /\ upserts' = Missing(upserts, i)
    /\ posted' = Missing(posted, i)
    /\ UNCHANGED <<storeVars, topic, consumerVars, map, bulks, batchVars, race,
                   historyVars>>

\* The request or one of its items fails: at most a line in the log.
Fail(i) ==
    /\ i \in flight
    /\ flight' = flight \ {i}
    /\ failed' = TRUE
    /\ Mishap
    /\ UNCHANGED <<storeVars, topic, consumerVars, map, bulks, index, batchVars,
                   start, again, torn, crashes>>

------------------------------------------------------------------------------
(* The batch job.                                                          *)

\* Nothing about key k is under way but upserts of the same count.
Undisturbed(k) == Quiet(k) /\ \A u \in posted : u.key = k => u.count = Rows(k)

\* SELECT * FROM events: one snapshot of the table, counted by key.
BatchRead ==
    /\ batch = "idle"
    /\ runs < MaxRuns
    /\ runs' = runs + 1
    /\ batch' = "read"
    /\ upserts' = {[run |-> runs + 1, copy |-> 1, key |-> k, count |-> Rows(k),
                    quiet |-> Undisturbed(k),
                    race |-> [over |-> ToCome(k), missed |-> 0]] :
                      k \in {KeyOf[e] : e \in table}}
    /\ UNCHANGED <<storeVars, topic, consumerVars, streamingVars, index, posted, healed,
                   race, historyVars>>

\* The bulk is sent.
BatchPost ==
    /\ batch = "read"
    /\ batch' = "sent"
    /\ \E copies \in Arrivals({u.key : u \in upserts}) :
          posted' = posted \cup
              UNION {{[u EXCEPT !.copy = n] : n \in 1..copies[u.key]} : u \in upserts}
    /\ upserts' = {}
    /\ UNCHANGED <<storeVars, topic, consumerVars, streamingVars, index, runs, healed,
                   race, historyVars>>

\* The job ends: the bulk is answered, or something failed on the way.  What was
\* sent is not taken back.
BatchEnd ==
    /\ batch # "idle"
    /\ batch' = "idle"
    /\ upserts' = {}
    /\ UNCHANGED <<storeVars, topic, consumerVars, streamingVars, index, posted, runs,
                   healed, race, historyVars>>

\* History: what a write makes of the race for its document.
Written(u) ==
    /\ healed' = IF u.quiet THEN healed \cup {u.key} ELSE healed
    /\ race' = [race EXCEPT ![u.key] = u.race]

\* Mutant of BatchWrite: the batch increments as streaming does.
BatchWriteAdds(u) ==
    /\ u \in posted
    /\ index' = [index EXCEPT ![u.key] = @ + u.count]
    /\ posted' = posted \ {u}
    /\ Written(u)
    /\ UNCHANGED <<storeVars, topic, consumerVars, streamingVars, batch, upserts, runs,
                   historyVars>>

\* "doc" with "doc_as_upsert": the document is overwritten, be it after the job.
BatchWrite(u) ==
    /\ u \in posted
    /\ index' = [index EXCEPT ![u.key] = u.count]
    /\ posted' = posted \ {u}
    /\ Written(u)
    /\ UNCHANGED <<storeVars, topic, consumerVars, streamingVars, batch, upserts, runs,
                   historyVars>>

\* The request or one of its items fails.
BatchFail(u) ==
    /\ u \in posted
    /\ posted' = posted \ {u}
    /\ UNCHANGED <<storeVars, topic, consumerVars, streamingVars, index, batchVars, upserts,
                   race, historyVars>>

------------------------------------------------------------------------------

Source == \E e \in Events : Store(e) \/ Deliver(e) \/ GiveUp(e)
Clock == \E k \in Keys : Tick(k)
Streaming == Assign \/ Consume \/ Commit \/ Flush \/ Restart
Elastic == \E i \in flight : Apply(i) \/ Fail(i)
Batch == BatchRead \/ BatchPost \/ BatchEnd \/ \E u \in posted : BatchWrite(u) \/ BatchFail(u)

Next == Source \/ Clock \/ Streaming \/ Elastic \/ Batch

Spec == Init /\ [][Next]_vars

\* The consumer is taken into its group, what is fetched is handled, the timer
\* ticks, and every request of the streaming process ends one way or the other.
Fairness == WF_vars(Assign) /\ WF_vars(Consume) /\ WF_vars(Flush) /\ WF_vars(Elastic)

FairSpec == Spec /\ Fairness

------------------------------------------------------------------------------
(* Correctness.                                                            *)

\* How often for_each was given a message of key k.
Given(k) == IF start = NoOffset THEN 0 ELSE Messages(k, start, Handled) + again[k]

\* As long as no batch has run and every bulk fitted the buffer, the index and
\* what is under way count each message at most as often as for_each was given
\* it, and exactly as often if nothing failed and the process never died:
\* no message is counted by two flushes or falls between them.
CountedOnce ==
    runs = 0 /\ ~torn =>
        \A k \in Keys :
            /\ index[k] + Pending(k) <= Given(k)
            /\ ~failed /\ crashes = 0 => index[k] + Pending(k) = Given(k)

\* A batch makes up for everything that went wrong before it: a document it
\* wrote for a key about which nothing was under way when it read the table
\* has, and keeps, the number of rows, whatever was lost, counted twice or torn
\* before, although streaming and batch never wait for each other, and although
\* upserts of runs that have failed may still be written.
HealedStays ==
    \A k \in healed : index[k] = Rows(k)

\* What streaming and a batch do to the same document while neither waits for
\* the other is bounded by what raced: once all is counted, the document is off
\* its rows by what was under way when the batch read the table, which is
\* counted on top, less what was added between the read and the write, which is
\* overwritten.  It holds unless a request, a message or the streaming process
\* fails after the read, whatever failed before it.
RaceIsBounded ==
    \A k \in Keys :
        race[k] # NoRace =>
            index[k] + ToCome(k) + race[k].missed = Rows(k) + race[k].over

\* Nothing stays in the topic, in the map or in flight for ever.
Backlog == Handled < Len(topic) \/ Dirty # {} \/ flight # {}
BacklogDrains == Backlog ~> ~Backlog
==============================================================================
