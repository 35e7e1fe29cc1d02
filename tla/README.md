# A verification project for blah

blah is a web analytics system: pages send events, services and jobs turn them
into counts, profiles and funnels, and a dashboard shows them as they change.
This directory holds TLA+ models of the parts of it that are hard to test, TLC
configurations that check them on small instances, and proofs checked by TLAPS
for every value of the parameters.

- `PROJECT.json` lists components, runs, mutants, the map from definitions to
  source lines, findings, hazards and theorems.
- A component `X` is module `X`; `MCX` and the files `X*.cfg` are its instances
  for TLC; `XProofs` are its theorems.

Run `tlc -config DataService.cfg MCDataService.tla` to check and
`tlapm DataServiceProofs.tla` to prove.

## 1. The system

```
 page --POST /data/<collection>--> blah-data --row--> Postgres "events"
                                       |                     |
                                       +--message--> Kafka "events"
                                                      |      |
                  collection streaming, Spark streaming   collection batch,
                  jobs of count and user                  Spark batch jobs
                                       |                     |
                     increments (bulk) +-> Elasticsearch <---+ upserts (bulk)
                                       |         ^           |
                                       +-> Kafka "trainings" <+
                                                 |   |
                                blah-events (SSE)+   | serving services
                                                 v   |
                                             blah-ui widgets
 blah-autoscale polls Marathon and Mesos; blah-jobs lists and starts Chronos jobs.
```

| component | state | operations | hard behaviour | correct when |
|---|---|---|---|---|
| blah-data (Rust, one thread) | Postgres pool, producer queue | take a connection, read a body, insert, queue a message, answer | the thread blocks on the pool it alone can refill; table and topic are written one after the other; panics end every request | no connection leaks; the answer is true of the table; table and topic differ only for a reason one can name; it always gets back to serving |
| blah-events (Rust, two threads) | shared vector of senders, consumer offsets | register a client, broadcast a message, drop a dead client, commit, restart | clients connect while the consumer still joins its group; the broadcast holds a mutex the event loop wants, and waits for channels the event loop drains | each connection gets every message since it registered, once and in order; nobody waits for ever |
| blah-collection streaming (Rust) | map of counts, offsets, bulks under way | count a message, flush, commit, restart | commits are not tied to flushes; bulks overlap and fail; long bodies are torn | counted once but for a failure; nothing lingers |
| blah-collection batch (Rust job) | the counts it has read | read the table, overwrite the documents | races with streaming's increments; what was sent may be applied after the job has ended | repairs every document with nothing under way, for good; a race costs no more than what raced |
| blah-count, blah-user streaming and batch (Spark) | micro-batch, offsets, Elasticsearch documents | group, script update, partial update | same group on the same topic; batch runs race with streaming; ids are hashes; malformed events are read differently; writes rejected or repeated; commits before writes | a document and what is under way for it stand for the rows of the table, each once, but for what raced; the newest properties win |
| funnel, recommendation, similarity, referrer (Spark batch) | Elasticsearch documents | recompute from the table | ids are hashes | one document for each result |
| serving programs (Rust, hyper, one thread each) | requests under way | translate a query, ask Elasticsearch, parse aggregations | deep merges of JSON; a panic ends every request | counts and rows are those of the documents meant |
| segmentation widget (JavaScript) | a model, rounds of calls | change the model, ask for each segment, replace the model by what comes back | answers in any order bring old models back; segments are shared by reference | a late answer undoes no more than what overlapped, and nothing once all are back in order; charts fit their labels |
| other widgets and blah-ui (JavaScript) | a model per widget | request, replace the model by an answer | answers arrive in any order | the last thing the user asked for is shown |
| blah-autoscale (Rust loop) | last statistics | read applications, agents, statistics; scale | a round works on old numbers and labels; NaN; failures end the process; an upload that does not end | never above a maximum; an overloaded application is brought to its limit |
| blah-jobs (Rust, JavaScript) | none; a polled list | list, run, stop | a list joined from two requests, either of which may go wrong; polls and clicks overtake each other | a list is of one moment, or plainly wrong; a click finds its job; the list settles on the truth |
| blah-tracking (JavaScript) | none | post an event | any answer but 200 is an error, and the service answers 204 | a resolved promise means stored |

The hazards of each, with the line where each bites and the property that covers
it (or why none does yet), are in `PROJECT.json`.

## 2. What is modelled

### EventStream: blah-events

Two threads share `Arc<Mutex<Vec<Sender>>>`. The event loop runs `Request`,
`Register` (the push under the mutex, lines 56-66), `Receive` and `Disconnect`;
while it waits in `call()` it does nothing else (`LoopBlocked`). The Kafka thread
runs `Poll`, `Acquire`, one `SendOk` or `SendErr` for each sender of the vector,
and `Finish`, which puts the collected clones in the vector's place. The mutex is
held exactly when `kafka = "send"`; the critical section of `Register` is one
step because nothing in it can wait.

The model turns on one detail of the channel: a send that fills a channel *parks*
the sender until the receiver takes a message, but `to_owned()` stores a clone,
which is not parked. The channel has capacity 0, so without the clone the second
message to a slow client would stop the broadcast with the mutex held, and the
event loop, the only one to drain the channel, would wait for the mutex.
`BroadcastNeverWaits` is that argument, and the mutant `ToOwnedSame` shows that
it rests on the clone. The price is that the queue of a client has no bound.

`Assign`, `Fetch`, `Commit` and `Restart` are the consumer. A process begins to
accept connections while its consumer still joins the group (`kafka = "join"`); only
with `Assign` does it have a position, which for a group without a committed offset
is the end of the topic at that moment (`Resume`, `auto.offset.reset = largest`). A
message produced before may reach nobody, connected or not: a connection that
registered earlier starts there, too, and `EventuallyReceived` speaks of messages
produced from then on. What is committed is what the library has fetched, broadcast
or not.

### Feed: what a connection promises

A feed starts at some offset when it opens and from then on carries the text
messages of the topic in order, without gap or repetition, until it closes.
EventStream implements it (`ImplementsFeed`): the refinement mapping takes
`phase`, the last offset written to the socket, and the number of messages written,
without which a repetition would be a stutter. A feed is "none" while its request
waits and while its connection is open but the consumer has no position yet
(`Feeding`), so `Assign` opens all such feeds at once (`Subscribe(S)`).

### DataService: blah-data

The event loop is idle, in `pool.get()`, in the insert, about to send, or down.
`Call` takes a connection for *every* request, before the body is read; the
connection returns with `Answer` or `Disconnect`. `Die` is the panic of the only
thread: requests are reset, the pool and the queue are gone. The producer's
thread delivers, delivers twice, or gives up. Postgres may stop between any two
steps, in the middle of an insert too (`InsertUnconfirmed`).

### Journal: what blah-data promises

An event is stored, then its message is on its way (`outbox`), and only meanwhile may
the caller be told 204; anything else is told of what is not stored and never will be.
A message is repeated at most `Retries` times and does not come back once it is given
up; the end of the service gives up all it had, and may store the row it was busy
with (`Stop`). DataService implements it (`ImplementsJournal`): the outbox is the
producer's queue and the event between insert and queue. Collection takes its events
from actions modelled after Journal (`Store`, `Deliver`, `GiveUp`): rows first, then
messages, which may come again or never. That the two agree is by construction and
not a theorem.

### Collection: blah-collection/processing

`Store`, `Deliver` and `GiveUp` stand for blah-data and its producer in the order
Journal says (row first, then the message, possibly twice or never). `Assign`,
`Consume`, `Commit`, `Flush` and `Restart` are streaming.rs; here, too, the consumer
has no position until the group assigns it one. `BatchRead`, `BatchPost` and
`BatchEnd` are batch.rs: the job reads the table, sends the counts, and ends. What it
has sent is out of its hands: `BatchWrite` and `BatchFail` are what becomes of a
posted upsert, before or after the end of the job, with upserts of several runs on
their way together; `Apply` and `Fail` are what becomes of an increment. Time appears
only as `Tick(k)`: the second of key `k` is over, no further row gets its date.
`Arrivals` is what is left of a body that is longer than the buffer `read_function`
is given: repetitions of its first part.

Two histories say what a batch is good for. `healed` are the keys it wrote when
nothing about them was under way at its reading (`Undisturbed`): these stay exact
(`HealedStays`). For every other document `race` keeps what raced with its last
write: what was under way when the table was read and is counted on top (`over`), and
what was added between the read and the write and is overwritten (`missed`).
`RaceIsBounded` says that the document is off by exactly that. After a failure nothing
is said of a document (`Mishap`, `NoRace`) until a batch that reads the table later
has written it.

### Autoscale: blah-autoscale

A round is `Tick`, a `ReadApp` for each application in any order, `ReadSlaves`,
a `Statistic` for each, and `ScaleUp` or `Refuse` for the overloaded ones. The
cluster changes between any two of these steps. Usage is hot or cool, and not a
number when no task was found. Every `unwrap()` on what other systems answer is
a `Panic`, followed by `Restart`.

A label of Marathon is a string; `from_value()` of serde_json 0.9 takes the digits of
a string for a number, so a numeric label replaces `--max` for its application
(`MaximumOf`), below or above it. A label that is no number panics (`ReadLabel`), and
so does every round until it is changed. The maximum an application has may thus
change under a round; the history `most` is the highest it ever had.

The PUT is an upload: `ScaleUp` starts it, `PutReads` is libcurl asking the
`read_function` for more, which it is given whatever was sent (`ReadFunction`).
Marathon takes what arrives (`PutTaken`), at any time after, but only a refusal
(`ScaleRejected`) or a broken connection (`HttpFails`) ends it, and `main()` waits.
What an overloaded application may expect (`OverloadIsDealtWith`) is therefore said up
to a loop that waits for a PUT, and finding 1 is about that loop.

### Training: blah-count and blah-user, Spark jobs

The two programs have one form: a streaming job (`Take`, one `Write` for each
document of a micro-batch, `Announce`, `Commit`, `Crash`) and a batch job
(`BatchRead`, one `BatchWrite` for each document, `BatchDies`). A behaviour follows
one of them; `Train` is its algorithm, `Scripted` the script Elasticsearch runs for
streaming, `Overlaid` the partial update of the batch. Both streaming jobs join the
group "trainings", so each is given a share of the messages only: what goes to the
other is `StoreUnseen`. A write may be rejected, which nobody notices, or run twice
(`WriteAgain`: Spark repeats the task).

A `Group` is what events are counted by; the document's `Id` is, for counts, a UUID
of the group's 32-bit hash (the constant `Uuid`), so two groups may share a document
and add to it or overwrite it. `Malformed` stands for a property of the wrong type:
a streaming job gets no date of such an event and skips it (`Read`), the batch job
takes the date from the table and counts the event without its properties (`Group`).
`Empty` is the empty string: to Scala a property, to the script, which tests with
Groovy truth, none (`IfTrue`).

A profile has the latest events, the latest first: an event has its place by the
number of those after it, up to `Keep` (`Sorted`).

What is expected is said by history, and judged when a batch writes a document
(`Judge`): `sure` are the ids about which no message or write has gone wrong since a
batch has written their document, or at all; `extra` are the events it counted although
streaming had still to deal with them, `lost` those streaming had dealt with that were
not in its table (or not counted). The race of batch and streaming, a collision and a
malformed event are thus in the bound `CountsAgree` states, not excluded from it.
`ordered` are the ids with nothing extra or lost whose events have come in order as
well, and for which no property of the old document shows through (`Complete`): the
update is partial, so a property that no row of the table has keeps the value it had,
which may come from an event that streaming will take again.

### Search and Serving: the seven serving programs

Search holds the pure part: for each operation the query it makes and what
is parsed from the answer. Filters become one query as the code's `merge()` makes it:
the terms of several filters are joined (`Filtered`), bounds overwrite one another
(`LastFiltered`). Aggregations become trees of buckets (`Buckets`), and
`parse_aggregation` is translated as it is (`ParseBucket`, `Merged`), the shared item of
util.rs:46 included. The recursion of `parse_aggregation` over the levels of a group is
a recursive function over the number of levels that are left and the documents of a
bucket (`Parse`); sorting is the order of a finite set (`InOrder`).

Serving is the life of a request: `Call`, `BadBody`, `Ask`, `Reply`, `ReplyError`,
`Garbage` (an `unwrap()` in the only thread: the program ends with all its requests),
`AskFails`, `Leave`, `Restart`. The properties compare what was answered with a
definition over documents (`Meant` for counts, `MeantSum`, `MeantUsers`, and `InRow` for
rows) that knows nothing of queries and buckets: each filter holds, but for a bound that
a later one with the same operator overwrites. Counts grouped by several fields are
compared if the documents with the first field have the others too (`SameKeys`); finding
3 is about those that do not. `IndexesAssumption` says what the documents that Spark
writes have, `AsksAssumption` what the routes and the parsers of queries let through.

### Segmentation: the widget of blah-count

The model shown is one value. Each control makes a new one (`Update`) and starts a
round of calls, one per segment; when the last call of a round is back its model is
shown again (`Completed`), whatever has been shown since. Models are deep copies but
for the segments, which a filter changes in place (`InPlace`) in every round that
has them; a tag says which segments are the same one. Text is taken over half a
second after the last key (`Type`, `TakeOver`), into the segment that was shown then;
if no model has that segment any more, the text is in none.

Histories say what may be expected. `wish` are the settings the user made last, on top
of those shown then; `stale` the settings the rounds under way at that change stand
for (`Due`), which may still come back; `swayed` is set when the round begun last came
back before an older one, or when an event had counts asked for an older model
(`OnCount`). A late answer may thus undo a change, and `KeepsWhatIsSet` says to what,
and when it does so for good.

### Jobs: blah-jobs

A poll is answered from two requests to Chronos (`GetJobs`, `GetStates`), a click from
one. Each call of the widget works on the state of the moment it was made, and its
answer replaces the state (`ListLands`, `ClickLands`), so answers that overtake each
other bring old states back. The service does not look at the code of an answer:
an error on the second request is parsed as CSV, no line of it is about a job, and
every job is listed as idle (`GetError`); a request that fails makes an empty list
(`ChronosFails`); a list of jobs that is not JSON, or states that are not UTF-8, end
the process (`Panic`, `Restart`). The callback of the widget ignores a failed poll
(`PollLost`).

## 3. The runs

| run | instance | shows |
|---|---|---|
| events | 2 connections, 3 messages, one not text, 1 restart | no message missed, the broadcast never waits, one sender each; the fan-out implements Feed; requests are answered, messages arrive, dead senders go |
| data_service | 3 requests, pool of 2, queue of 1, 1 kill, 1 outage | pool, answers, table and topic agree; the service implements Journal; an empty pool ends the process; the service serves again; the stream settles |
| collection_counts | 2 documents, 2 messages, a consumer that has yet to join, 1 crash | each message is counted once, but for crashes and failed requests; no backlog stays for ever |
| collection_batch | 2 documents, 2 of 3 events stored, bulks of 1 item, 2 batch runs, or 1 and a crash | what a batch wrote for a quiet key stays exact, torn bulks and late upserts or not; where streaming and batch race, a document is off by what raced |
| autoscale | 2 applications without label, with one of 4 or one that is no number, `--max` 2, 1 agent, 2 events | never above a maximum it had; an overloaded application is brought to its limit, but for labels that end every round and a loop that waits for a PUT |
| autoscale_put | 1 application | violated: a PUT that Marathon takes is never over |
| autoscale_refusal | 1 application, maximum 10 | violated: refused at seven, with a log line that says the maximum is reached |
| jobs | 2 jobs, 2 polls, 1 click, 3 events | a list is of one moment, empty or all idle; an answered click finds its job, the widget settles on the truth |
| serving | every subset of 6 visits, 20 queries, 2 requests, 1 failure | counts, sums, numbers of users and rows, by two fields too, are those of the documents meant; similar items come once |
| serving_leak | the same visits, grouped by two fields that not all of them have | violated: a row bears the key of the row before it |
| training | 4 events, two with colliding ids, one malformed and with an empty email, 2 batch runs, or 1 and a failure | a document and what is under way count each row once, but for what raced with the last batch; in order, the newest properties win |
| segmentation | 2 segments of 1 filter, 3 rounds, 3 actions and an event or a failed call (2 with both) | a late answer undoes only to what was under way at the last change, and for good only if the last round was overtaken or an event came in between; charts fit their labels |

**Bounds.** Two connections suffice for a sender that dies beside one that lives,
registered before or after it; three messages for a sender that is used, replaced
and used again while another is parked. A pool of two lets one request hold a
connection while another takes and a third waits for one; a queue of one is full
after one event. Two documents and a buffer of one item tear a bulk; a buffer of
two does not, which separates the run on torn bulks from the one on overlapping
ones. Two messages may be of one document, so that its bulks overlap; after a crash the
second start finds what the first has left, and a consumer that has yet to join has a
message pass it by. Of three events two are stored in collection_batch: the same
document twice, or two documents. A maximum of two, and of four by label, lets an
application step to 2, or from 1 to 2, 3 and stop; two events put a deploy with
another label and a lost agent into one round, or a refused PUT after a deploy. Two
polls overtake each other and a click, and with three events a job can come and go in
between. Six visits give buckets with and without inner buckets in
every order, and a terms aggregation of two is cut off by a third value. Four events
give a micro-batch that meets an older document, a later one, and one the batch has
read as well; the first has no email, so that a partial update can leave one, and no
user; two have ids that collide; the last is malformed for counts and has an empty
email. Three actions, an event and three rounds let a late round meet two
later models and the text typed before them. All bounds appear as guards
(`MaxTopic`, `MaxCrashes`, `MaxRuns`, `MaxKills`, `MaxOutages`, `MaxEvents`,
`MaxFailures`, `MaxActs`, `MaxRounds`, `MaxSegments`, `MaxFilters`, `Retries`) and none
of the proofs depends on their value.

Three runs have a CONSTRAINT (`Bounded`) besides, which cuts off combinations of these
events, not single ones: in collection_batch runs, crashes and documents are three
together; in training runs and failures are two, and at most two messages are on
their way; in segmentation actions, events and failures are four. None of these runs
checks a temporal property. Two runs have a VIEW, which identifies states that go on
alike: in collection_batch it leaves out the histories that only `CountedOnce` reads
(`WithoutCounts`), which that run does not check; in training (`View`) what the batch
has read when it has nothing left to write, the places of messages already taken when
no crash can come any more, and which events are extra or lost, of which the
properties read the number only. Symmetry is used in collection_batch only, where no
temporal property is checked.

**Deadlock** is checked in jobs, serving and serving_leak, where something can always
happen. The other instances may come to rest, with all bounded events used and nothing
left to do; that nothing *waits* for ever there is what the liveness properties say.

Every property of a passing run has a mutant in `PROJECT.json`: a change of the
model such as a bug in the code would be, under which TLC finds it violated.

## 4. Fairness

- EventStream: the two threads run (`KafkaThread`, `Register`, `Receive`), the group
  takes its consumer (`Assign`) and the library fetches. std's mutex is not fair, and
  none is assumed: with finitely many messages the Kafka thread leaves the mutex alone
  in the end, and weak fairness of `Register` is enough. Nothing makes clients connect
  or stay.
- DataService: the thread finishes what it is in the middle of, a pool timeout
  included; each queued message is delivered or given up (librdkafka's message
  timeout); Postgres recovers, and Marathon restarts the process. That bodies
  arrive is the clients' business and not assumed.
- Collection: the group takes the consumer, for_each handles what is fetched, the timer
  ticks, each request ends one way or the other (curl's timeouts).
- Autoscale: the loop goes on, Marathon restarts it and takes what it has been sent
  (`PutTaken`), and Marathon and Mesos replace lost tasks and agents. Loads, deploys and
  failures are not fair.
- Jobs: Chronos launches what is queued and jobs end, Marathon restarts the
  service, the timer ticks, and each call ends one way or the other. Clicks and
  changes in Chronos are not fair.
- Serving, Training and Segmentation state safety only.

## 5. What is proved

For all values of the constants that satisfy the named assumptions of the modules
(numbers are naturals, pools and buffers are not empty, sets are finite where a
cardinality is taken, markers like `NoOffset` are no numbers):

| module | theorem | property |
|---|---|---|
| EventStreamProofs | TypeCorrect, NothingIsMissed, NeverWaits, OneSender | TypeOK, NothingMissed, BroadcastNeverWaits, OneSenderEach |
| EventStreamProofs | FeedImplemented | ImplementsFeed |
| DataServiceProofs | TypeCorrect, PoolIsConserved, StreamedIsStored, AnswersAreTruthful, MissingExplained | TypeOK, PoolConserved, StoredBeforeStreamed, AnswerIsTruthful, MissingIsExplained |
| DataServiceProofs | EmptyPoolKills | EmptyPoolIsFatal |
| DataServiceProofs | JournalImplemented | ImplementsJournal |
| CollectionProofs | TypeCorrect, HealingLasts, RaceCostsWhatRaced, NothingCountedTwice | TypeOK, HealedStays, RaceIsBounded, CountedOnce |
| AutoscaleProofs | TypeCorrect, MaximumIsKept | TypeOK, NeverAboveMaximum |
| JobsProofs | TypeCorrect, ClickFinds, OneMoment | TypeOK, ClickFindsItsJob, AnswerIsOneMoment |
| SegmentationProofs | TypeCorrect, SettingsKept, ChartsFit | TypeOK, KeepsWhatIsSet, ChartFitsItsLabels |
| TrainingProofs | TypeCorrect, OffByWhatRaced, LatestWins | TypeOK, CountsAgree, NewestWins |
| ServingProofs | TypeCorrect | TypeOK |
| ServingProofs | CountsExact, CountedOnce | CountsAreExact, EachCountedOnce |
| ServingProofs | SimilarOnce | EachSimilarOnce |

Each module proves one inductive invariant (`IInv`, theorem `Invariance`), one
lemma for each action, and takes the properties from it.

- **EventStream.** `NothingMissed` is not inductive: that a send appends the *next*
  message needs to know where the broadcast is. The invariant adds how offsets are
  ordered (`Offsets`: handled, position, fetched, topic), that nothing has been fetched
  or sent while the consumer joins its group (`Joining`), that no sender of the
  vector is parked unless this broadcast has passed it (`Senders`), that `kept`
  holds exactly the senders passed and still open (`Collected`), and that each
  channel holds consecutive text offsets (`Channels`). The refinement follows from
  the last: what a client receives next is the message after its cursor.
- **DataService.** The pool is counted with the cardinality of `Holders`, so each
  action that moves a request into or out of it is a lemma on finite sets. Answers
  and rows need what a request in each phase has done so far (`Progress`), and so does
  the refinement: a row is stored for the first time because the request is being
  handled, and a message leaves the outbox with the queue because the event between
  insert and queue is in no queue yet.
- **Collection.** A key is *quiet* when no row, message, count or increment of it is
  to come. Quiet keys stay quiet under every step, crashes included (the messages a
  restart replays lie below the committed offset), and their rows do not change. A key
  is `Settled` when a batch that found it undisturbed has written it or may still. The
  invariant `Healing` then says that a settled key is quiet and that *every* upsert of
  it, read or posted, of this run or an ended one, is the number of rows: whichever is
  applied last changes nothing.
  `RaceIsBounded` is the balance of what is written; `Balance` states the same of each
  upsert that may be, from its reading on, and each action moves a unit from one of
  outbox, topic, map, flight and index to the next, or to `missed`.
  `CountedOnce` is about sums of increments. Each increment is as many units as it
  counts (`Units`), and `Pending` is the cardinality of a set: applying or losing an
  increment takes its units away, a flush adds as many new ones as the map held. That
  they are new rests on the numbers of bulks, which grow.
- **Autoscale.** The maximum a round has read is one the application had
  (`ReadMaximum`, `HadMaximum`); a PUT is started only with a number within it
  (`WithinMaximum`), and the highest maximum never falls, so the number may be taken at
  any time later.
- **Jobs.** A list between its two requests still names the jobs there are, unless
  one came or went (`NamesHold`), and the state a click keeps has a row for its job
  (`ClickedIsKept`). `AnswerIsOneMoment` is an action property and follows from the
  first.
- **Segmentation.** A round keeps the model it began with. What was asked in it are
  the step and the dates of that model, whatever is done to its filters (`Sound`).
  What a round will show is the wish or was due at the last change, and the round
  begun last shows the wish unless swayed (`Promised`); with nothing stale, every round
  has the filters shown (`InStep`).
- **Training.** A message is coming or at one place of the share, and a micro-batch
  consists of messages that were taken (`Whereabouts`). So the three parts of what is
  under way are disjoint, and a write adds to a document what it takes from them, for
  each of the groups that share its id. What a batch writes stands for what it has
  read, whose difference to what streaming has dealt with is what `extra` and `lost`
  keep. The
  newest properties are carried from the events dealt with to those and a micro-batch
  of later ones (`LaterWins`, by well-founded induction for the existence of a
  greatest event); that a key without a document has no events dealt with follows
  from the counts. That a profile has the right type rests on each place up to the
  number of events having one event (`Sorted`).
- **Serving.** Of the state only little is needed: a request that was answered has one
  of the `Results` of its query (`Truthful`). The rest is about what the operators of
  Search return for *any* documents, filters and groups: a finite set in a strict order
  is a sequence of its elements (`InOrderSorts`), sequences flattened have their
  elements in turn (`FlattenPlaces`), the buckets of a level part the documents that
  have its field (`BucketsApart`), and the merged query means what the filters say one
  by one, for counts (`QueryMeant`), sums (`SumMeant`) and users (`UsersMeant`). Rows
  are `Counting` if each counts the documents that have its values and no document is in
  two of them. A level keeps that from the levels within it (`FieldRows`,
  `HistogramRight`), because rows with the same fields are merged into an item that
  keeps nothing of the row before (`MergedRows`); `SameKeys` is what makes the fields
  the same. So the rows of any number of levels are right (`ParseRight`). For similar
  items, what `dedup()` keeps of a list sorted by item and score is the best of each
  item (`FirstOfEachItem`). The library's induction theorems take an operator as a
  parameter; induction over levels and positions uses sets of numbers instead
  (`Inductive`), which follows from the well-foundedness of the naturals.

**Checked but not proved:** the liveness properties (`RequestAnswered`,
`EventuallyReceived`, `DeadSenderDropped`, `ServesAgain`, `StreamSettles`,
`BacklogDrains`, `OverloadIsDealtWith`, `SettlesOnTruth`): temporal reasoning under
fairness is out of the prover's reach. The three violated properties are found by TLC.
Every safety and action property that a passing run checks is a theorem.

## 6. Findings

The three `violation` runs are disagreements between the code and the repository's
own log and tests; `PROJECT.json` quotes the lines.

1. `service.rs:232-236` uploads the new number of instances with a `read_function` that
   takes a new slice of the body at every call, so it never returns the 0 that ends an
   upload; `post_field_size` is for a POST. Marathon may scale the application when it
   has read the number, but the request does not end, and the loop waits for it. The
   log line at 239 and the module's test at 316-317 wait for the end. A refusal ends
   the upload, and so would a broken connection, which ends the process.
2. `service.rs:214` refuses a step that overshoots the maximum instead of cutting it,
   and logs that the maximum is reached: with ten, at seven, eight and nine.
3. `util.rs:46` of blah-count merges every inner row into the same item: a row whose
   bucket lacks a key keeps the key of the row before it. `test_parse_nested_aggregation`
   expects of each row the keys of its own buckets. Rows grouped by a date and one
   field, which is all the widgets ask for, and rows of documents that have the same
   fields are not affected (`CountsAreExact`, `EachCountedOnce`).

Other behaviour the models follow, which nothing in the repository contradicts and no
run claims:

- the quick filter of Segmentation makes three updates with a round each, so an answer
  between them shows one step or date of the old choice until the last is back, for
  good if they come back in another order; "Remove segment" removes the last one;
- an event that tells the widget of new counts while an older model is shown has the
  counts asked for that model, and its round may be the last; a segment that was
  removed comes back with a late answer, for good in the same cases;
- an empty email is a property to the training and to the batch job, and none to the
  script: it wins within a micro-batch and in a new document, not over an old one;
- the script of counts adds the price of an item at every micro-batch, and fails for
  items without a price, so their documents stay at the first micro-batch;
- `takeRight` keeps the events at the end of a list that begins with the latest ones,
  and places are merged field by field, so two may mix.

## 7. What the models leave out

- One Kafka partition and one instance of each consumer (marathon.json runs one of
  blah-events); no rebalance.
- The content of events and documents that no property is about; routes that touch
  no state.
- Messages on "trainings" are just messages: that streaming.rs and batch.rs queue
  them before their bulk is applied is listed as a hazard and left to Pipeline.
- A rejected bulk fails as a set of increments; a torn one may also arrive in part.
- A panic of the Kafka thread of blah-events alone; the unbounded queue of a client.
- CPU usage is nondeterministic where its value depends on the sampling.
- An agent runs at most one task of an application.
- Training follows one job at a time; the two share nothing but the group. An index
  is a function from keys to documents: its refresh and versions are left out.
- Elasticsearch evaluates the queries of Search as its documentation says, and counts
  of terms are exact, which across several shards they need not be; scores are those
  of the documents, and the order of unsorted hits is any.
- Of the properties of a profile an email, an address and what is looked up for it
  are kept; a latitude or longitude of 0.0, false to the script too, is not.
- Segmentation has one pending text, where each input has its own delay; no property
  depends on which.
- The property and operator of a filter in Segmentation are one value with its text;
  the other three widgets of blah-count have the same loop with one call in it.
- Components with no model are listed in `PROJECT.json` with the reason: floating
  point (the algorithms of recommendation and similarity), rendering, scripts.

## 8. Plan

Done: Feed, EventStream, Journal, DataService, Collection, Autoscale, Jobs, Search,
Serving, Training, Segmentation, and proofs about all of them.

What would come next, in this order:

1. **Funnel**: the two path algorithms as operators over short sequences, against a
   definition of the paths of a session.
2. **Tracking** over DataService: a client that retries rejected calls. The service
   answers 204 and the client takes nothing but 200, so every event would be stored
   as often as its caller retries.
3. **Pipeline**: DataService, Collection and EventStream composed with a widget that
   queries when told: does it show the last count in the end? Journal is the
   interface of the first two, Feed that of the last.
4. **ConsumerGroups**: the two Spark jobs on several partitions, with rebalances.
