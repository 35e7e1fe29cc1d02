------------------------------- MODULE Training -------------------------------
(***************************************************************************)
(* The Spark jobs of blah-count and blah-user that keep the indexes        *)
(* "count" and "user" (src/blah-count/algo, src/blah-user/algo).           *)
(*                                                                         *)
(*  - A streaming job takes what has come to the topic "events" since the  *)
(*    last interval, trains documents from it and has Elasticsearch merge  *)
(*    them into those it holds, by a script.                               *)
(*  - A batch job trains documents from the table and writes them over     *)
(*    those in the index, while streaming goes on.                         *)
(*  - Both streaming jobs are members of the group "trainings": Kafka      *)
(*    gives each of them some of the partitions, hence of the events.      *)
(*                                                                         *)
(* Apart from that the two have nothing in common but their form, so a     *)
(* behaviour follows one of them.                                          *)
(*                                                                         *)
(* An event is known by its number in the table; the service stamps events *)
(* when it stores them, so numbers and dates agree.                        *)
(***************************************************************************)
EXTENDS Naturals, Sequences, FiniteSets, SequencesExt

CONSTANTS
    Tracked,        \* what is tracked, in order: a sequence of records with a
                    \* user, an item, a price, an email and an ip, or None
    GeoIp,          \* place of an ip: a country and a zip code, or None
    Uuid(_),        \* id of the document of a count: made of a hash of 32 bits,
                    \* so that two counts may have one
    Keep,           \* events kept in a profile (20)
    None,           \* no such property
    Empty,          \* an empty text, which is a property to Scala, but not to Groovy
    Malformed,      \* a price that is not a number
    MaxFailures,    \* bound: lost messages, rejected or repeated writes, crashes
    MaxRuns         \* bound: runs of the batch jobs

ASSUME BoundsAssumption == MaxFailures \in Nat /\ MaxRuns \in Nat /\ Keep \in Nat \ {0}
ASSUME NoneAssumption == None \notin Nat
ASSUME TrackedAssumption == Tracked \in Seq(ToSet(Tracked))

Jobs == {"count", "user"}

VARIABLES
    job,            \* the job that a behaviour follows
    stored,         \* rows of the table: the events 1..stored
    coming,         \* events whose messages are on their way to the job
    share,          \* messages in the partitions that the job is given
    position,       \* how many of them it has taken
    committed,      \* the position committed for the group, or None
    batch,          \* events of the micro-batch under way
    todo,           \* groups of it whose documents are still to be written
    index,          \* documents in Elasticsearch, by id
    table,          \* rows that the batch job under way has read
    rest,           \* groups of them whose documents are still to be written
    sure,           \* history: ids about which no message or write has gone wrong
                    \* since a batch job wrote their document
    extra,          \* history: events that it counted, though streaming had not dealt
                    \* with them, by id
    lost,           \* history: events that it did not count, though streaming had
                    \* dealt with them, by id
    ordered,        \* history: ids that are sure, with nothing extra or lost, whose
                    \* events have come in order, too
    failures,
    runs

topicVars == <<coming, share>>
streamVars == <<position, committed, batch, todo>>
batchVars == <<table, rest, runs>>
histories == <<sure, extra, lost, ordered>>
vars == <<job, stored, topicVars, streamVars, index, batchVars, histories, failures>>

Events == 1..Len(Tracked)

\* The group an event belongs to.  A count is of an item, a price and further
\* properties that are taken as part of the item.  A batch job gets none of the
\* properties if the price is malformed (from_json).
Group(e) ==
    IF job = "user" THEN Tracked[e].user
    ELSE IF Tracked[e].price = Malformed THEN [item |-> None, price |-> None]
    ELSE [item |-> Tracked[e].item, price |-> Tracked[e].price]

\* A streaming job gets nothing at all of such an event, not even a date, and
\* skips it.  The profiles have no use for a price.
Read(events) == {e \in events : job = "count" => Tracked[e].price # Malformed}

\* Events without a user belong to no profile.
Groups(events) == {Group(e) : e \in events} \ {None}

Of(g, events) == {e \in events : Group(e) = g}

\* The id of the document of a group.
Id(g) == IF job = "user" THEN g ELSE Uuid(g)

Ids(events) == {Id(g) : g \in Groups(events)}

\* Events that are of a document for streaming.
About(k, events) == {e \in Read(events) : Group(e) # None /\ Id(Group(e)) = k}

OrElse(a, b) == IF a = None THEN b ELSE a

------------------------------------------------------------------------------
(* Documents.                                                              *)

\* Mutant of Newest: the first event that has it, not the last.
NewestFirstSeen(events, property) ==
    LET defined == {e \in events : Tracked[e][property] # None}
    IN  IF defined = {} THEN None ELSE Tracked[Min(defined)][property]

\* mergeEvents(): a property of the latest event that has it.
Newest(events, property) ==
    LET defined == {e \in events : Tracked[e][property] # None}
    IN  IF defined = {} THEN None ELSE Tracked[Max(defined)][property]

\* The latest events, the latest first: an event has its place by the number of
\* those after it.
Sorted(events) ==
    [n \in 1..(IF Cardinality(events) < Keep THEN Cardinality(events) ELSE Keep) |->
        CHOOSE e \in events : Cardinality({d \in events : d > e}) = n - 1]

Place(ip) == IF ip = None THEN [country |-> None, zip |-> None] ELSE GeoIp[ip]

Profile(events) ==
    LET place == Place(Newest(events, "ip"))
    IN  [count |-> Cardinality(events), date |-> Max(events),
         email |-> Newest(events, "email"),
         country |-> place.country, zip |-> place.zip, events |-> Sorted(events)]

\* train(): the document of a group.
Train(g, events) ==
    IF job = "user" THEN Profile(Of(g, events))
    ELSE [count |-> Cardinality(Of(g, events)), price |-> g.price]

TakeRight(s) == SubSeq(s, IF Len(s) < Keep THEN 1 ELSE Len(s) - Keep + 1, Len(s))

\* if(a) in Groovy: an empty text is as good as none.
IfTrue(a, b) == IF a \in {None, Empty} THEN b ELSE a

\* Mutant of UserScript: the whole list is kept.
UserScriptKeepsAll(old, new) ==
    [count |-> old.count + new.count, date |-> new.date,
     email |-> IfTrue(new.email, old.email),
     country |-> IfTrue(new.country, old.country),
     zip |-> IfTrue(new.zip, old.zip), events |-> old.events \o new.events]

UserScript(old, new) ==
    [count |-> old.count + new.count, date |-> new.date,
     email |-> IfTrue(new.email, old.email),
     country |-> IfTrue(new.country, old.country),
     zip |-> IfTrue(new.zip, old.zip), events |-> TakeRight(old.events \o new.events)]

CountScript(old, new) ==
    [count |-> old.count + new.count, price |-> old.price + new.price]

\* The script of counts adds prices: without one on either side it ends with an
\* error, and the document stays as it is.
ScriptFails(k, doc) ==
    job = "count" /\ k \in DOMAIN index /\ None \in {index[k].price, doc.price}

\* Update with a script, or else insert.
Scripted(k, doc) ==
    IF k \notin DOMAIN index THEN doc
    ELSE IF ScriptFails(k, doc) THEN index[k]
    ELSE IF job = "user" THEN UserScript(index[k], doc)
    ELSE CountScript(index[k], doc)

\* Update with a document, or else insert: what it does not have stays.
Overlaid(k, doc) ==
    IF k \notin DOMAIN index THEN doc
    ELSE [f \in DOMAIN doc |-> OrElse(doc[f], index[k][f])]

Put(k, doc) ==
    index' = [l \in DOMAIN index \cup {k} |-> IF l = k THEN doc ELSE index[l]]

------------------------------------------------------------------------------
(* What is known of a document.                                            *)

Rows(k) == About(k, 1..stored)

\* Its events that streaming still has to deal with.
UnderWay(k) ==
    About(k, coming \cup {share[i] : i \in (position + 1)..Len(share)}
                    \cup {e \in batch : Group(e) \in todo})

\* Its events that have been dealt with.
Done(k) == Rows(k) \ UnderWay(k)

Spoil(ids) ==
    /\ sure' = sure \ ids
    /\ ordered' = ordered \ ids
    /\ UNCHANGED <<extra, lost>>

TypeOK ==
    /\ job \in {"count", "user"}
    /\ stored \in 0..Len(Tracked)
    /\ coming \subseteq 1..stored
    /\ share \in Seq(1..stored)
    /\ position \in 0..Len(share)
    /\ committed = None \/ committed \in 0..Len(share)
    /\ batch \subseteq 1..stored
    /\ todo \subseteq Groups(batch)
    /\ DOMAIN index \subseteq Ids(1..stored)
    /\ job = "user" => \A u \in DOMAIN index : Len(index[u].events) \in 1..Keep
    /\ table \in 0..stored
    /\ rest \subseteq Groups(1..table)
    /\ ordered \subseteq sure /\ sure \subseteq Ids(Events)
    /\ extra \in [Ids(Events) -> SUBSET (1..stored)]
    /\ lost \in [Ids(Events) -> SUBSET (1..stored)]
    /\ failures \in 0..MaxFailures
    /\ runs \in 0..MaxRuns

Init ==
    /\ job \in {"count", "user"}
    /\ stored = 0
    /\ coming = {} /\ share = <<>>
    /\ position = 0 /\ committed = None
    /\ batch = {} /\ todo = {}
    /\ index = <<>>
    /\ table = 0 /\ rest = {}
    /\ sure = Ids(Events) /\ ordered = Ids(Events)
    /\ extra = [k \in Ids(Events) |-> {}] /\ lost = extra
    /\ failures = 0 /\ runs = 0

Failure == failures < MaxFailures /\ failures' = failures + 1

------------------------------------------------------------------------------
(* The service that stores events and sends them (module DataService).     *)

\* The next event is stored, and its message sent.
Store ==
    /\ stored < Len(Tracked)
    /\ stored' = stored + 1
    /\ coming' = coming \cup {stored + 1}
    /\ UNCHANGED <<job, share, streamVars, index, batchVars, histories, failures>>

\* The event is stored, but its message is lost, or goes to a partition of the
\* other job.
StoreUnseen ==
    /\ stored < Len(Tracked)
    /\ stored' = stored + 1
    /\ Spoil(Ids(Read({stored + 1})))
    /\ UNCHANGED <<job, topicVars, streamVars, index, batchVars, failures>>

\* A message has come to a partition; not always in the order of the table.
Arrive(e) ==
    /\ e \in coming
    /\ coming' = coming \ {e}
    /\ share' = Append(share, e)
    /\ UNCHANGED <<job, stored, streamVars, index, batchVars, histories, failures>>

------------------------------------------------------------------------------
(* Streaming.                                                              *)

\* An interval is over and there are messages: foreachRDD.
Take ==
    /\ batch = {}
    /\ position < Len(share)
    /\ batch' = Read({share[i] : i \in (position + 1)..Len(share)})
    /\ todo' = Groups(batch')
    /\ position' = Len(share)
    /\ UNCHANGED <<job, stored, topicVars, committed, index, batchVars, histories,
                   failures>>

\* writeToElastic: one document of a bulk is updated.
Write(g) ==
    /\ g \in todo
    /\ Put(Id(g), Scripted(Id(g), Train(g, batch)))
    /\ todo' = todo \ {g}
    /\ IF ScriptFails(Id(g), Train(g, batch)) THEN Spoil({Id(g)})
       ELSE /\ UNCHANGED <<sure, extra, lost>>
            /\ ordered' = IF \E e \in Of(g, batch), d \in Done(Id(g)) : e < d
                          THEN ordered \ {Id(g)} ELSE ordered
    /\ UNCHANGED <<job, stored, topicVars, position, committed, batch, batchVars,
                   failures>>

\* The update is rejected: nobody looks at the answer to a bulk.
Reject(g) ==
    /\ g \in todo
    /\ Failure
    /\ todo' = todo \ {g}
    /\ Spoil({Id(g)})
    /\ UNCHANGED <<job, stored, topicVars, position, committed, batch, index, batchVars>>

\* The connection ends after the update: Spark runs the task again.
WriteAgain(g) ==
    /\ g \in todo
    /\ Failure
    /\ Put(Id(g), Scripted(Id(g), Train(g, batch)))
    /\ Spoil({Id(g)})
    /\ UNCHANGED <<job, stored, topicVars, streamVars, batchVars>>

\* writeToKafka: every document has been written before it is announced.
Announce ==
    /\ batch # {}
    /\ todo = {}
    /\ batch' = {}
    /\ UNCHANGED <<job, stored, topicVars, position, committed, todo, index, batchVars,
                   histories, failures>>

\* The consumer commits what has been taken, whether it is written or not.
Commit ==
    /\ position > 0
    /\ committed # position
    /\ committed' = position
    /\ UNCHANGED <<job, stored, topicVars, position, batch, todo, index, batchVars,
                   histories, failures>>

\* Where the job starts again: without a committed position at the end.
Resume == IF committed = None THEN Len(share) ELSE committed

\* Messages that it misses or takes again by that.
Misplaced ==
    {share[i] : i \in {i \in 1..Len(share) :
                          i \in (Resume + 1)..position \/ i \in (position + 1)..Resume}}

\* The job ends and is started again.
Crash ==
    /\ Failure
    /\ batch' = {}
    /\ todo' = {}
    /\ position' = Resume
    /\ Spoil({Id(g) : g \in todo} \cup Ids(Read(Misplaced)))
    /\ UNCHANGED <<job, stored, topicVars, committed, index, batchVars>>

------------------------------------------------------------------------------
(* Batch.                                                                  *)

\* The job reads the table.
BatchRead ==
    /\ rest = {}
    /\ stored > 0
    /\ runs < MaxRuns
    /\ runs' = runs + 1
    /\ table' = stored
    /\ rest' = Groups(1..stored)
    /\ UNCHANGED <<job, stored, topicVars, streamVars, index, histories, failures>>

\* What a document that is written over another does not have stays as it was:
\* perhaps from an event that streaming will take again.
Complete(k, written) ==
    k \notin DOMAIN index \/ k \in ordered \/ Newest(written, "email") # None

\* A document that was trained from some events is right if they are those that
\* streaming has dealt with: it goes on from there.
Judge(k, written) ==
    /\ sure' = sure \cup {k}
    /\ extra' = [extra EXCEPT ![k] = written \ Done(k)]
    /\ lost' = [lost EXCEPT ![k] = Done(k) \ written]
    /\ ordered' = IF written = Done(k) /\ Complete(k, written) THEN ordered \cup {k}
                  ELSE ordered \ {k}

\* Mutant of BatchWrite: it runs the script of streaming.
BatchWriteScript(g) ==
    /\ g \in rest
    /\ Put(Id(g), Scripted(Id(g), Train(g, 1..table)))
    /\ rest' = rest \ {g}
    /\ Judge(Id(g), Of(g, 1..table))
    /\ UNCHANGED <<job, stored, topicVars, streamVars, table, runs, failures>>

\* One document is written over the one in the index, which may be of another
\* group with the same id.
BatchWrite(g) ==
    /\ g \in rest
    /\ Put(Id(g), Overlaid(Id(g), Train(g, 1..table)))
    /\ rest' = rest \ {g}
    /\ Judge(Id(g), Of(g, 1..table))
    /\ UNCHANGED <<job, stored, topicVars, streamVars, table, runs, failures>>

\* The job ends early.
BatchDies ==
    /\ rest # {}
    /\ Failure
    /\ rest' = {}
    /\ UNCHANGED <<job, stored, topicVars, streamVars, index, table, runs, histories>>

------------------------------------------------------------------------------

Next ==
    \/ Store
    \/ StoreUnseen
    \/ \E e \in coming : Arrive(e)
    \/ Take
    \/ Announce
    \/ Commit
    \/ Crash
    \/ BatchRead
    \/ BatchDies
    \/ \E g \in todo : Write(g) \/ Reject(g) \/ WriteAgain(g)
    \/ \E g \in rest : BatchWrite(g)

Spec == Init /\ [][Next]_vars

------------------------------------------------------------------------------
(* Properties.                                                             *)

\* Events that a document counts.
Counted(k) == IF k \in DOMAIN index THEN index[k].count ELSE 0

\* Unless a message or a write goes wrong after it, what a batch job writes over a
\* document puts the count off by the events that raced with it, and by nothing
\* else, for good: an event that was in the table while streaming still had to deal
\* with it is counted twice, one that was dealt with after the table had been read is
\* lost.  So are the events of another group whose hash is the same, and malformed
\* ones are counted by the batch alone.  From there on streaming counts each event
\* once, however micro-batches, commits and writes interleave; without a race, the
\* document and what is under way stand for the rows of the table, and all that went
\* wrong before is made up for (src/blah-count/algo and src/blah-user/algo:
\* StreamingJob, BatchJob; CountAlgo.scala:22,49-53).
CountsAgree ==
    \A k \in sure :
        Counted(k) + Cardinality(UnderWay(k)) + Cardinality(lost[k])
            = Cardinality(Rows(k)) + Cardinality(extra[k])

\* If nothing raced or went wrong, no event of a profile came after a later one and
\* no batch left an email as it was, the date of the profile is that of the latest
\* event and its email that of the latest event with one, though it was merged from
\* events within a micro-batch and then by a script from micro-batches and batch
\* runs.  It need not be so if that email is empty: the script takes it for none,
\* the training does not (src/blah-user/algo/src/main/scala/UserAlgo.scala:
\* mergeEvents; StreamingJob.scala:25).
NewestWins ==
    job = "user" =>
        \A u \in ordered \cap DOMAIN index :
            /\ Newest(Done(u), "email") # Empty
                 => index[u].email = Newest(Done(u), "email")
            /\ index[u].date = Max(Done(u))
==============================================================================
