-------------------------- MODULE CollectionProofs --------------------------
(***************************************************************************)
(* Proofs about Collection, for any finite sets of events and keys, any    *)
(* size of the buffer and any number of crashes and batch runs.            *)
(*                                                                         *)
(* That a healed document stays exact rests on two facts: a key about      *)
(* which nothing is under way stays so, and all that any run of the batch  *)
(* has read or sent of it, then or before, is the number of its rows       *)
(* (Healing).                                                              *)
(*                                                                         *)
(* That messages are counted once, and that a race costs no more than what *)
(* raced, rests on what each action moves from one stage to the next:      *)
(* outbox, topic, map, flight, index (Counting, Balance).                  *)
(***************************************************************************)
EXTENDS Collection, FiniteSetTheorems, SequenceTheorems, TLAPS

\* A batch has written the document, or may, that found the key undisturbed.
Settled(k) == k \in healed \/ \E u \in upserts \cup posted : u.key = k /\ u.quiet

\* A settled key is quiet, and whatever is written to it is the number of its rows.
Healing ==
    /\ batch = "idle" => upserts = {}
    /\ \A k \in Keys :
          Settled(k) =>
              Quiet(k) /\ \A u \in upserts \cup posted : u.key = k => u.count = Rows(k)

IInv == TypeOK /\ Healing /\ HealedStays

------------------------------------------------------------------------------

\* Rows are counted in a finite table.
LEMMA RowsNumber == ASSUME TypeOK, NEW k \in Keys PROVE Rows(k) \in Nat
<1>1. IsFiniteSet({e \in table : KeyOf[e] = k})
  <2>1. {e \in table : KeyOf[e] = k} \subseteq Events
    BY DEF TypeOK
  <2>2. QED
    BY <2>1, SetsAssumption, FS_Subset
<1>2. QED
  BY <1>1, FS_CardinalityType DEF Rows

\* A count of messages is a number.
LEMMA MessagesNumber ==
    ASSUME NEW k \in Keys, NEW a \in Nat, NEW b \in Nat PROVE Messages(k, a, b) \in Nat
<1>1. IsFiniteSet((a + 1)..b)
  BY FS_Interval
<1>2. IsFiniteSet({o \in (a + 1)..b : KeyOf[topic[o]] = k})
  BY <1>1, FS_Subset
<1>3. QED
  BY <1>2, FS_CardinalityType DEF Messages

\* Offsets are in the topic.
LEMMA OffsetsInTopic ==
    ASSUME TypeOK
    PROVE  /\ Len(topic) \in Nat
           /\ Resume \in 0..Len(topic)
           /\ Handled \in 0..Len(topic)
  BY LenProperties DEF TypeOK, Resume, Handled

\* An increment has as many units as it counts.
LEMMA UnitsOfOne ==
    ASSUME NEW i \in Increment
    PROVE  /\ IsFiniteSet({i} \X (1..i.count))
           /\ Cardinality({i} \X (1..i.count)) = i.count
<1> DEFINE f == [n \in 1..i.count |-> <<i, n>>]
<1>1. i.count \in Nat
  BY DEF Increment
<1>2. IsFiniteSet(1..i.count) /\ Cardinality(1..i.count) = i.count
  BY <1>1, FS_Interval
<1>3. f \in Bijection(1..i.count, {i} \X (1..i.count))
  <2>1. \A m, n \in 1..i.count : f[m] = f[n] => m = n
    OBVIOUS
  <2>2. \A x \in {i} \X (1..i.count) : x[2] \in 1..i.count /\ f[x[2]] = x
    OBVIOUS
  <2>3. f \in [1..i.count -> {i} \X (1..i.count)]
    OBVIOUS
  <2> HIDE DEF f
  <2>4. QED
    BY <2>1, <2>2, <2>3 DEF Bijection, Injection, Surjection, IsInjective
<1>4. ExistsBijection(1..i.count, {i} \X (1..i.count))
  BY <1>3 DEF ExistsBijection
<1>5. QED
  BY <1>2, <1>4, FS_Bijection

\* What is under way is finite.
LEMMA UnitsNumber ==
    ASSUME TypeOK, NEW k \in Keys
    PROVE  IsFiniteSet(Units(k)) /\ Cardinality(Units(k)) \in Nat
<1> DEFINE own == {j \in flight : j.key = k}
           ones == [i \in own |-> {i} \X (1..i.count)]
           all == {{i} \X (1..i.count) : i \in own}
<1>1. IsFiniteSet(own)
  <2>1. IsFiniteSet(flight)
    BY DEF TypeOK
  <2>2. QED
    BY <2>1, FS_Subset
<1>2. ones \in Surjection(own, all)
  BY DEF Surjection
<1>3. IsFiniteSet(all)
  <2> HIDE DEF own, ones, all
  <2>1. QED
    BY <1>1, <1>2, FS_Surjection
<1>4. \A T \in all : IsFiniteSet(T)
  <2> SUFFICES ASSUME NEW i \in own PROVE IsFiniteSet({i} \X (1..i.count))
    OBVIOUS
  <2>1. i \in Increment
    BY DEF TypeOK
  <2>2. QED
    BY <2>1, UnitsOfOne
<1>5. IsFiniteSet(UNION all)
  <2> HIDE DEF all
  <2>1. QED
    BY <1>3, <1>4, FS_UNION
<1>6. IsFiniteSet(Units(k))
  BY <1>5 DEF Units
<1>7. QED
  BY <1>6, FS_CardinalityType

\* Messages waiting for the producer, as rows, are finite.
LEMMA OutboxNumber ==
    ASSUME TypeOK, NEW k \in Keys
    PROVE  /\ IsFiniteSet({e \in outbox : KeyOf[e] = k})
           /\ Cardinality({e \in outbox : KeyOf[e] = k}) \in Nat
<1>1. {e \in outbox : KeyOf[e] = k} \subseteq Events
  BY DEF TypeOK
<1>2. IsFiniteSet({e \in outbox : KeyOf[e] = k})
  BY <1>1, SetsAssumption, FS_Subset
<1>3. QED
  BY <1>2, FS_CardinalityType

\* What is still to come are numbers, in all and in each part.
LEMMA ToComeNumber ==
    ASSUME TypeOK, NEW k \in Keys
    PROVE  /\ map[k] \in Nat /\ Pending(k) \in Nat /\ ToCome(k) \in Nat
           /\ Messages(k, Handled, Len(topic)) \in Nat
<1>1. map[k] \in Nat /\ Pending(k) \in Nat
  BY UnitsNumber DEF TypeOK, Pending
<1>2. Messages(k, Handled, Len(topic)) \in Nat
  BY OffsetsInTopic, MessagesNumber
<1>3. Cardinality({e \in outbox : KeyOf[e] = k}) \in Nat
  BY OutboxNumber
<1>4. ToCome(k) \in Nat
  BY <1>1, <1>2, <1>3 DEF ToCome
<1>5. QED
  BY <1>1, <1>2, <1>4

\* Only keys of a bulk arrive.
LEMMA ArrivingKeys ==
    ASSUME NEW S \in SUBSET Keys, NEW copies \in Arrivals(S), NEW k \in Keys, copies[k] # 0
    PROVE  k \in S
<1>1. CASE Cardinality(S) <= BufferItems
  BY <1>1 DEF Arrivals
<1>2. CASE ~(Cardinality(S) <= BufferItems)
  <2>1. /\ {x \in Keys : copies[x] > 0} \subseteq S
        /\ copies \in [Keys -> 0..((Cardinality(S) + BufferItems - 1) \div BufferItems)]
    BY <1>2 DEF Arrivals
  <2>2. copies[k] > 0
    BY <2>1
  <2>3. QED
    BY <2>1, <2>2
<1>3. QED
  BY <1>1, <1>2

\* What arrives of a bulk are increments of keys that were in the map.
LEMMA BulkItems ==
    ASSUME TypeOK, NEW copies \in Arrivals(Dirty), NEW i \in Bulk(copies)
    PROVE  i \in Increment /\ map[i.key] > 0
<1>0. PICK k \in Keys :
         i \in {[bulk |-> bulks + 1, copy |-> n, key |-> k, count |-> map[k]] :
                  n \in 1..copies[k]}
  BY DEF Bulk
<1>1. PICK n \in 1..copies[k] :
         i = [bulk |-> bulks + 1, copy |-> n, key |-> k, count |-> map[k]]
  BY <1>0
<1>2. n \in Nat /\ bulks + 1 \in Nat /\ map[k] \in Nat
  BY DEF TypeOK
<1>3. copies[k] # 0
  BY <1>1
<1>4. k \in Dirty
  BY <1>3, ArrivingKeys DEF Dirty
<1>5. QED
  BY <1>1, <1>2, <1>4 DEF Increment, Dirty

\* There are finitely many of them.
LEMMA BulkIsFinite ==
    ASSUME NEW S \in SUBSET Keys, NEW copies \in Arrivals(S) PROVE IsFiniteSet(Bulk(copies))
<1> DEFINE Most == (Cardinality(S) + BufferItems - 1) \div BufferItems
           Item(k, n) == [bulk |-> bulks + 1, copy |-> n, key |-> k, count |-> map[k]]
<1>1. IsFiniteSet(S) /\ Cardinality(S) \in Nat
  BY SetsAssumption, FS_Subset, FS_CardinalityType
<1>2. PICK N \in Nat : \A k \in Keys : copies[k] \in 0..N
  <2>1. CASE Cardinality(S) <= BufferItems
    <3>1. \A k \in Keys : copies[k] \in 0..1
      BY <2>1 DEF Arrivals
    <3>2. QED
      BY <3>1
  <2>2. CASE ~(Cardinality(S) <= BufferItems)
    <3>1. copies \in [Keys -> 0..Most]
      BY <2>2 DEF Arrivals
    <3>2. Most \in Nat
      BY <1>1, SizesAssumption
    <3> HIDE DEF Most
    <3>3. QED
      BY <3>1, <3>2
  <2>3. QED
    BY <2>1, <2>2
<1> DEFINE f == [x \in Keys \X (1..N) |-> Item(x[1], x[2])]
           all == {Item(x[1], x[2]) : x \in Keys \X (1..N)}
<1>3. IsFiniteSet(Keys \X (1..N))
  <2>1. IsFiniteSet(1..N)
    BY FS_Interval
  <2>2. QED
    BY <2>1, SetsAssumption, FS_Product
<1>4. f \in Surjection(Keys \X (1..N), all)
  BY DEF Surjection
<1>5. IsFiniteSet(all)
  <2> HIDE DEF f, all
  <2>1. QED
    BY <1>3, <1>4, FS_Surjection
<1>6. Bulk(copies) \subseteq all
  <2> SUFFICES ASSUME NEW i \in Bulk(copies) PROVE i \in all
    OBVIOUS
  <2>1. PICK k \in Keys : i \in {Item(k, n) : n \in 1..copies[k]}
    BY DEF Bulk
  <2>2. PICK n \in 1..copies[k] : i = Item(k, n)
    BY <2>1
  <2>3. n \in 1..N
    BY <1>2
  <2>4. <<k, n>> \in Keys \X (1..N) /\ i = Item(<<k, n>>[1], <<k, n>>[2])
    BY <2>2, <2>3
  <2>5. QED
    BY <2>4
<1>7. QED
  BY <1>5, <1>6, FS_Subset

\* What a batch sends are upserts it has read, but for the number of the copy.
LEMMA PostedItems ==
    ASSUME TypeOK, BatchPost, NEW u \in posted', u \notin posted
    PROVE  u \in Upsert /\ \E v \in upserts :
              u.key = v.key /\ u.count = v.count /\ u.quiet = v.quiet /\ u.race = v.race
<1>1. PICK copies \in Arrivals({v.key : v \in upserts}) :
         posted' = posted \cup
             UNION {{[v EXCEPT !.copy = n] : n \in 1..copies[v.key]} : v \in upserts}
  BY DEF BatchPost
<1>2. PICK v \in upserts : u \in {[v EXCEPT !.copy = n] : n \in 1..copies[v.key]}
  BY <1>1
<1>3. PICK n \in 1..copies[v.key] : u = [v EXCEPT !.copy = n]
  BY <1>2
<1>4. v \in Upsert /\ n \in Nat
  BY DEF TypeOK
<1>5. QED
  BY <1>3, <1>4 DEF Upsert

\* What history adds to upserts leaves what they write.
LEMMA SameUpserts ==
    ASSUME TypeOK, NEW S \in SUBSET Upsert, NEW T,
           \/ T = S
           \/ T = Forget(S)
           \/ \E i \in flight : T = Missing(S, i)
    PROVE  /\ T \in SUBSET Upsert
           /\ \A u \in T : \E v \in S :
                 u.key = v.key /\ u.count = v.count /\ u.quiet = v.quiet /\ u.run = v.run
<1>1. CASE T = S
  BY <1>1
<1>2. CASE T = Forget(S)
  <2> SUFFICES ASSUME NEW u \in T
      PROVE  u \in Upsert /\ \E v \in S :
                 u.key = v.key /\ u.count = v.count /\ u.quiet = v.quiet /\ u.run = v.run
    OBVIOUS
  <2>1. PICK v \in S : u = [v EXCEPT !.race = NoRace]
    BY <1>2 DEF Forget
  <2>2. QED
    BY <2>1 DEF Upsert
<1>3. ASSUME NEW i \in flight, T = Missing(S, i)
      PROVE  /\ T \in SUBSET Upsert
             /\ \A u \in T : \E v \in S :
                   u.key = v.key /\ u.count = v.count /\ u.quiet = v.quiet /\ u.run = v.run
  <2> SUFFICES ASSUME NEW u \in T
      PROVE  u \in Upsert /\ \E v \in S :
                 u.key = v.key /\ u.count = v.count /\ u.quiet = v.quiet /\ u.run = v.run
    OBVIOUS
  <2>1. PICK v \in S :
           u = IF v.key = i.key /\ v.race # NoRace
               THEN [v EXCEPT !.race.missed = @ + i.count] ELSE v
    BY <1>3 DEF Missing
  <2>2. i.count \in Nat /\ v \in Upsert
    BY DEF TypeOK, Increment
  <2>3. CASE v.key = i.key /\ v.race # NoRace
    <3>1. v.race \in Race /\ u = [v EXCEPT !.race.missed = @ + i.count]
      BY <2>1, <2>2, <2>3 DEF Upsert
    <3>2. u = [v EXCEPT !.race = [v.race EXCEPT !.missed = v.race.missed + i.count]]
      BY <2>2, <3>1 DEF Upsert, Race
    <3>3. [v.race EXCEPT !.missed = v.race.missed + i.count] \in Race
      BY <2>2, <3>1 DEF Race
    <3>4. QED
      BY <2>2, <3>2, <3>3 DEF Upsert
  <2>4. CASE ~(v.key = i.key /\ v.race # NoRace)
    BY <2>1, <2>2, <2>4
  <2>5. QED
    BY <2>3, <2>4
<1>4. QED
  BY <1>1, <1>2, <1>3

------------------------------------------------------------------------------
(* Types.                                                                  *)

LEMMA InitType == Init => TypeOK
<1> SUFFICES ASSUME Init PROVE TypeOK
  OBVIOUS
<1>1. topic \in Seq(Events) /\ Len(topic) = 0
  BY EmptySeq DEF Init
<1>2. /\ map \in [Keys -> Nat] /\ index \in [Keys -> Nat] /\ again \in [Keys -> Nat]
      /\ race \in [Keys -> Race \cup {NoRace}]
      /\ crashes \in 0..MaxCrashes /\ runs \in 0..MaxRuns
  BY BoundsAssumption DEF Init
<1>3. flight \in SUBSET Increment /\ IsFiniteSet(flight)
  BY FS_EmptySet DEF Init
<1>4. QED
  BY <1>1, <1>2, <1>3 DEF Init, TypeOK

\* What is written down of races keeps its type when they are forgotten, or not.
LEMMA RaceType ==
    ASSUME TypeOK, Mishap \/ UNCHANGED raceVars
    PROVE  /\ upserts' \in SUBSET Upsert /\ posted' \in SUBSET Upsert
           /\ race' \in [Keys -> Race \cup {NoRace}]
<1>1. upserts \in SUBSET Upsert /\ posted \in SUBSET Upsert
  BY DEF TypeOK
<1>2. /\ upserts' = upserts \/ upserts' = Forget(upserts)
      /\ posted' = posted \/ posted' = Forget(posted)
  BY DEF Mishap, raceVars
<1>3. upserts' \in SUBSET Upsert /\ posted' \in SUBSET Upsert
  BY <1>1, <1>2, SameUpserts
<1>4. race' \in [Keys -> Race \cup {NoRace}]
  BY DEF Mishap, raceVars, TypeOK
<1>5. QED
  BY <1>3, <1>4

LEMMA SourceType == ASSUME TypeOK, NEW e \in Events, Store(e) \/ Deliver(e) \/ GiveUp(e)
                    PROVE  TypeOK'
<1> USE DEF storeVars, consumerVars, streamingVars, batchVars, historyVars
<1>0. /\ upserts' \in SUBSET Upsert /\ posted' \in SUBSET Upsert
      /\ race' \in [Keys -> Race \cup {NoRace}]
  <2>1. Mishap \/ UNCHANGED raceVars
    BY DEF Store, Deliver, GiveUp
  <2>2. QED
    BY <2>1, RaceType
<1>1. CASE Store(e)
  BY <1>0, <1>1 DEF Store, TypeOK
<1>2. CASE GiveUp(e)
  BY <1>0, <1>2 DEF GiveUp, TypeOK
<1>3. CASE Deliver(e)
  <2>1. /\ topic' \in Seq(Events) /\ Len(topic') = Len(topic) + 1 /\ Len(topic) \in Nat
    BY <1>3, AppendProperties, LenProperties DEF Deliver, TypeOK
  <2>2. /\ position' \in (0..Len(topic')) \cup {NoOffset}
        /\ committed' \in (0..Len(topic')) \cup {NoOffset}
        /\ start' \in (0..Len(topic')) \cup {NoOffset}
    BY <1>3, <2>1 DEF Deliver, TypeOK
  <2>3. outbox' \in SUBSET Events
    BY <1>3 DEF Deliver, TypeOK
  <2>4. QED
    BY <1>0, <1>3, <2>1, <2>2, <2>3 DEF Deliver, TypeOK
<1>4. QED
  BY <1>1, <1>2, <1>3

LEMMA TickType == ASSUME TypeOK, NEW k \in Keys, Tick(k) PROVE TypeOK'
  BY DEF TypeOK, Tick, storeVars, consumerVars, streamingVars, batchVars, raceVars,
         historyVars

LEMMA StreamingType == ASSUME TypeOK, Streaming PROVE TypeOK'
<1> USE DEF storeVars, consumerVars, streamingVars, batchVars, historyVars
<1>0. Len(topic) \in Nat /\ Resume \in 0..Len(topic) /\ Handled \in 0..Len(topic)
  BY OffsetsInTopic
<1>1. /\ upserts' \in SUBSET Upsert /\ posted' \in SUBSET Upsert
      /\ race' \in [Keys -> Race \cup {NoRace}]
  <2>1. Mishap \/ UNCHANGED raceVars
    BY DEF Streaming, Assign, Consume, Commit, Flush, Restart
  <2>2. QED
    BY <2>1, RaceType
<1>2. CASE Assign
  BY <1>0, <1>1, <1>2 DEF Assign, TypeOK
<1>3. CASE Consume
  <2>1. position \in 0..Len(topic) /\ position + 1 \in 1..Len(topic)
    BY <1>0, <1>3 DEF Consume, TypeOK
  <2>2. KeyOf[topic[position + 1]] \in Keys
    BY <2>1, KeyAssumption, ElementOfSeq DEF TypeOK
  <2>3. map' \in [Keys -> Nat] /\ position' \in 0..Len(topic)
    BY <1>3, <2>1, <2>2 DEF Consume, TypeOK
  <2>4. QED
    BY <1>1, <1>3, <2>3 DEF Consume, TypeOK
<1>4. CASE Commit
  <2>1. committed' \in 0..Len(topic)
    BY <1>0, <1>4 DEF Commit, TypeOK
  <2>2. QED
    BY <1>1, <1>4, <2>1 DEF Commit, TypeOK
<1>5. CASE Flush
  <2>1. PICK copies \in Arrivals(Dirty) : flight' = flight \cup Bulk(copies)
    BY <1>5 DEF Flush
  <2>2. flight' \in SUBSET Increment
    BY <2>1, BulkItems DEF TypeOK
  <2>3. IsFiniteSet(flight')
    <3>1. IsFiniteSet(flight) /\ IsFiniteSet(Bulk(copies))
      BY BulkIsFinite DEF TypeOK, Dirty
    <3>2. QED
      BY <2>1, <3>1, FS_Union
  <2>4. torn' \in BOOLEAN /\ map' \in [Keys -> Nat] /\ bulks' \in Nat
    BY <1>5 DEF Flush, TypeOK
  <2>5. QED
    BY <1>1, <1>5, <2>2, <2>3, <2>4 DEF Flush, TypeOK
<1>6. CASE Restart
  <2>1. \A k \in Keys : Messages(k, Resume, Handled) \in Nat
    BY <1>0, MessagesNumber
  <2>2. again' \in [Keys -> Nat] /\ crashes' \in 0..MaxCrashes /\ map' \in [Keys -> Nat]
    BY <1>6, <2>1, BoundsAssumption DEF Restart, TypeOK
  <2>3. QED
    BY <1>1, <1>6, <2>2 DEF Restart, TypeOK
<1>7. QED
  BY <1>2, <1>3, <1>4, <1>5, <1>6 DEF Streaming

LEMMA ElasticType == ASSUME TypeOK, NEW i \in flight, Apply(i) \/ Fail(i) PROVE TypeOK'
<1> USE DEF storeVars, consumerVars, streamingVars, batchVars, historyVars
<1>1. i.key \in Keys /\ i.count \in Nat
  BY DEF Increment, TypeOK
<1>2. flight' \in SUBSET Increment /\ IsFiniteSet(flight')
  <2>1. flight' = flight \ {i}
    BY DEF Apply, Fail
  <2>2. QED
    BY <2>1, FS_Subset DEF TypeOK
<1>3. CASE Apply(i)
  <2>1. index' \in [Keys -> Nat]
    BY <1>1, <1>3 DEF Apply, TypeOK
  <2>2. upserts' \in SUBSET Upsert /\ posted' \in SUBSET Upsert
    <3>1. /\ upserts' = Missing(upserts, i) /\ upserts \in SUBSET Upsert
          /\ posted' = Missing(posted, i) /\ posted \in SUBSET Upsert
      BY <1>3 DEF Apply, TypeOK
    <3>2. \A S \in SUBSET Upsert : Missing(S, i) \in SUBSET Upsert
      BY SameUpserts
    <3>3. QED
      BY <3>1, <3>2
  <2>3. QED
    BY <1>2, <1>3, <2>1, <2>2 DEF Apply, TypeOK
<1>4. CASE Fail(i)
  <2>1. /\ upserts' \in SUBSET Upsert /\ posted' \in SUBSET Upsert
        /\ race' \in [Keys -> Race \cup {NoRace}]
    BY <1>4, RaceType DEF Fail
  <2>2. QED
    BY <1>2, <1>4, <2>1 DEF Fail, TypeOK
<1>5. QED
  BY <1>3, <1>4

\* What the batch reads of a key.
LEMMA ReadItems ==
    ASSUME TypeOK, BatchRead, NEW u \in upserts'
    PROVE  /\ u \in Upsert /\ u.count = Rows(u.key) /\ u.quiet = Undisturbed(u.key)
           /\ u.race = [over |-> ToCome(u.key), missed |-> 0]
<1>1. PICK e \in table :
         u = [run |-> runs + 1, copy |-> 1, key |-> KeyOf[e], count |-> Rows(KeyOf[e]),
              quiet |-> Undisturbed(KeyOf[e]),
              race |-> [over |-> ToCome(KeyOf[e]), missed |-> 0]]
  BY DEF BatchRead
<1>2. KeyOf[e] \in Keys /\ runs + 1 \in Nat
  BY KeyAssumption, BoundsAssumption DEF TypeOK
<1>3. Rows(KeyOf[e]) \in Nat /\ ToCome(KeyOf[e]) \in Nat
  BY <1>2, RowsNumber, ToComeNumber
<1>4. Undisturbed(KeyOf[e]) \in BOOLEAN
  BY DEF Undisturbed, Quiet
<1>5. [over |-> ToCome(KeyOf[e]), missed |-> 0] \in Race
  BY <1>3 DEF Race
<1>6. u \in Upsert
  BY <1>1, <1>2, <1>3, <1>4, <1>5 DEF Upsert
<1>7. QED
  BY <1>1, <1>6

LEMMA BatchType == ASSUME TypeOK, Batch PROVE TypeOK'
<1> USE DEF storeVars, consumerVars, streamingVars, batchVars, historyVars
<1>1. CASE BatchRead
  <2>1. upserts' \in SUBSET Upsert
    BY <1>1, ReadItems
  <2>2. runs' \in 0..MaxRuns
    BY <1>1, BoundsAssumption DEF BatchRead, TypeOK
  <2>3. QED
    BY <1>1, <2>1, <2>2 DEF BatchRead, TypeOK
<1>2. CASE BatchPost
  <2>1. posted' \in SUBSET Upsert
    BY <1>2, PostedItems DEF TypeOK
  <2>2. upserts' = {}
    BY <1>2 DEF BatchPost
  <2>3. QED
    BY <1>2, <2>1, <2>2 DEF BatchPost, TypeOK
<1>3. CASE BatchEnd
  BY <1>3 DEF BatchEnd, TypeOK
<1>4. ASSUME NEW u \in posted, BatchWrite(u) PROVE TypeOK'
  <2>1. u.key \in Keys /\ u.count \in Nat /\ u.race \in Race \cup {NoRace}
    BY DEF Upsert, TypeOK
  <2>2. /\ index' \in [Keys -> Nat] /\ race' \in [Keys -> Race \cup {NoRace}]
        /\ healed' \in SUBSET Keys /\ posted' \in SUBSET Upsert
    BY <1>4, <2>1 DEF BatchWrite, Written, TypeOK
  <2>3. QED
    BY <1>4, <2>2 DEF BatchWrite, TypeOK
<1>5. ASSUME NEW u \in posted, BatchFail(u) PROVE TypeOK'
  BY <1>5 DEF BatchFail, TypeOK
<1>6. QED
  BY <1>1, <1>2, <1>3, <1>4, <1>5 DEF Batch

LEMMA NextType == TypeOK /\ [Next]_vars => TypeOK'
<1> SUFFICES ASSUME TypeOK, [Next]_vars PROVE TypeOK'
  OBVIOUS
<1>1. CASE UNCHANGED vars
  BY <1>1 DEF TypeOK, vars, storeVars, consumerVars, streamingVars, batchVars, raceVars,
             historyVars
<1>2. QED
  BY <1>1, SourceType, TickType, StreamingType, ElasticType, BatchType
     DEF Next, Source, Clock, Elastic

------------------------------------------------------------------------------
(* A quiet key stays quiet.                                                *)

\* What the environment does leaves a quiet key quiet and its rows alone.
LEMMA QuietSource ==
    ASSUME TypeOK, NEW k \in Keys, Quiet(k), Source \/ Clock
    PROVE  Quiet(k)' /\ Rows(k)' = Rows(k) /\ index' = index
<1> USE DEF storeVars, consumerVars, streamingVars, batchVars, historyVars
<1>0. /\ Len(topic) \in Nat /\ topic \in Seq(Events)
      /\ Resume \in 0..Len(topic) /\ Handled \in 0..Len(topic)
  BY OffsetsInTopic DEF TypeOK
<1>1. ASSUME NEW e \in Events, Store(e) PROVE Quiet(k)' /\ Rows(k)' = Rows(k) /\ index' = index
  <2>1. KeyOf[e] # k
    BY <1>1 DEF Store, Quiet
  <2>2. {x \in table' : KeyOf[x] = k} = {x \in table : KeyOf[x] = k}
    BY <1>1, <2>1 DEF Store
  <2>3. Quiet(k)'
    BY <1>1, <2>1 DEF Store, Quiet, Resume, Handled
  <2>4. QED
    BY <1>1, <2>2, <2>3 DEF Store, Rows
<1>2. ASSUME NEW e \in Events, Deliver(e) PROVE Quiet(k)' /\ Rows(k)' = Rows(k) /\ index' = index
  <2>1. KeyOf[e] # k /\ outbox' \subseteq outbox
    BY <1>2 DEF Deliver, Quiet
  <2>2. /\ Len(topic') = Len(topic) + 1
        /\ \A o \in 1..Len(topic) : topic'[o] = topic[o]
        /\ topic'[Len(topic) + 1] = e
    BY <1>0, <1>2, AppendProperties DEF Deliver
  <2>3. committed' = committed /\ position' = position
    BY <1>2 DEF Deliver
  <2>4. Resume' \in Nat /\ Resume' >= Resume /\ Handled' \in Nat /\ Handled' >= Handled
    BY <1>0, <2>2, <2>3 DEF Resume, Handled, TypeOK
  <2>5. \A o \in 1..Len(topic') : KeyOf[topic'[o]] = k => o <= Handled' /\ o <= Resume'
    <3> SUFFICES ASSUME NEW o \in 1..Len(topic'), KeyOf[topic'[o]] = k
                 PROVE  o <= Handled' /\ o <= Resume'
      OBVIOUS
    <3>1. o \in 1..Len(topic) /\ topic'[o] = topic[o]
      BY <1>0, <2>1, <2>2
    <3>2. o <= Handled /\ o <= Resume
      BY <3>1 DEF Quiet
    <3>3. QED
      BY <1>0, <2>4, <3>1, <3>2
  <2>6. Quiet(k)'
    BY <1>2, <2>1, <2>5 DEF Deliver, Quiet
  <2>7. QED
    BY <1>2, <2>6 DEF Deliver, Rows
<1>3. ASSUME NEW e \in Events, GiveUp(e) PROVE Quiet(k)' /\ Rows(k)' = Rows(k) /\ index' = index
  BY <1>3 DEF GiveUp, Quiet, Resume, Handled, Rows
<1>4. ASSUME NEW j \in Keys, Tick(j) PROVE Quiet(k)' /\ Rows(k)' = Rows(k) /\ index' = index
  BY <1>4 DEF Tick, Quiet, Resume, Handled, Rows
<1>5. QED
  BY <1>1, <1>2, <1>3, <1>4 DEF Source, Clock

\* The streaming process leaves a quiet key quiet.
LEMMA QuietStreaming ==
    ASSUME TypeOK, NEW k \in Keys, Quiet(k), Streaming
    PROVE  Quiet(k)' /\ Rows(k)' = Rows(k) /\ index' = index
<1> USE DEF storeVars, consumerVars, streamingVars, batchVars, historyVars
<1>0. Len(topic) \in Nat /\ Resume \in 0..Len(topic) /\ Handled \in 0..Len(topic)
  BY OffsetsInTopic
<1>1. CASE Assign
  <2>1. Resume' = Resume /\ Handled' = Handled
    BY <1>0, <1>1, NoOffsetAssumption DEF Assign, Resume, Handled
  <2>2. QED
    BY <1>1, <2>1 DEF Assign, Quiet, Rows
<1>2. CASE Consume
  <2>1. position \in 0..Len(topic) /\ Handled = position
    BY <1>2 DEF Consume, Handled, TypeOK
  <2>2. KeyOf[topic[position + 1]] # k
    BY <1>0, <1>2, <2>1 DEF Consume, Quiet
  <2>3. map'[k] = 0
    BY <1>2, <2>2 DEF Consume, Quiet, TypeOK
  <2>4. Handled' = position + 1 /\ Resume' = Resume
    BY <1>2, <2>1, NoOffsetAssumption DEF Consume, Handled, Resume
  <2>5. \A o \in 1..Len(topic) : KeyOf[topic[o]] = k => o <= Handled' /\ o <= Resume'
    BY <1>0, <2>1, <2>4 DEF Quiet
  <2>6. QED
    BY <1>2, <2>3, <2>5 DEF Consume, Quiet, Rows
<1>3. CASE Commit
  <2>1. /\ Handled = position /\ Handled' = position
        /\ committed' \in position..Len(topic) /\ Resume' = committed'
    BY <1>0, <1>3, NoOffsetAssumption DEF Commit, Resume, Handled, TypeOK
  <2>2. \A o \in 1..Len(topic) : KeyOf[topic[o]] = k => o <= Handled' /\ o <= Resume'
    BY <1>0, <2>1 DEF Quiet
  <2>3. QED
    BY <1>3, <2>2 DEF Commit, Quiet, Rows
<1>4. CASE Flush
  <2>1. PICK copies \in Arrivals(Dirty) : flight' = flight \cup Bulk(copies)
    BY <1>4 DEF Flush
  <2>2. \A i \in Bulk(copies) : i.key # k
    BY BulkItems DEF Quiet
  <2>3. map'[k] = 0
    BY <1>4 DEF Flush
  <2>4. QED
    BY <1>4, <2>1, <2>2, <2>3 DEF Flush, Quiet, Resume, Handled, Rows
<1>5. CASE Restart
  <2>1. Resume' = Resume /\ Handled' = Resume /\ map'[k] = 0
    BY <1>5 DEF Restart, Resume, Handled
  <2>2. QED
    BY <1>5, <2>1 DEF Restart, Quiet, Rows
<1>6. QED
  BY <1>1, <1>2, <1>3, <1>4, <1>5 DEF Streaming

\* No increment of a quiet key reaches the index.
LEMMA QuietElastic ==
    ASSUME TypeOK, NEW k \in Keys, Quiet(k), Elastic
    PROVE  Quiet(k)' /\ Rows(k)' = Rows(k) /\ index'[k] = index[k]
<1> USE DEF storeVars, consumerVars, streamingVars, batchVars, historyVars
<1>1. ASSUME NEW i \in flight, Apply(i)
      PROVE  Quiet(k)' /\ Rows(k)' = Rows(k) /\ index'[k] = index[k]
  <2>1. i.key # k
    BY DEF Quiet
  <2>2. index'[k] = index[k]
    BY <1>1, <2>1 DEF Apply, TypeOK
  <2>3. QED
    BY <1>1, <2>2 DEF Apply, Quiet, Resume, Handled, Rows
<1>2. ASSUME NEW i \in flight, Fail(i)
      PROVE  Quiet(k)' /\ Rows(k)' = Rows(k) /\ index'[k] = index[k]
  BY <1>2 DEF Fail, Quiet, Resume, Handled, Rows
<1>3. QED
  BY <1>1, <1>2 DEF Elastic

\* The batch touches the index, its own state and nothing else.
LEMMA BatchLeaves ==
    ASSUME Batch \/ UNCHANGED vars
    PROVE  UNCHANGED <<storeVars, topic, consumerVars, streamingVars, historyVars>>
  BY DEF Batch, BatchRead, BatchPost, BatchWrite, BatchEnd, BatchFail, vars

LEMMA QuietBatch ==
    ASSUME NEW k \in Keys, Batch \/ UNCHANGED vars
    PROVE  Quiet(k)' = Quiet(k) /\ Rows(k)' = Rows(k)
  BY BatchLeaves DEF Quiet, Rows, Resume, Handled, storeVars, consumerVars, streamingVars

------------------------------------------------------------------------------
(* Healed documents.                                                       *)

LEMMA InitHealing == Init => Healing /\ HealedStays
  BY DEF Init, Healing, Settled, HealedStays

\* Steps other than the batch's change of upserts what is history only.
LEMMA OthersKeep ==
    ASSUME TypeOK, Source \/ Clock \/ Streaming \/ Elastic
    PROVE  /\ batch' = batch /\ healed' = healed
           /\ \A u \in upserts' : \E v \in upserts :
                 u.key = v.key /\ u.count = v.count /\ u.quiet = v.quiet
           /\ \A u \in posted' : \E v \in posted :
                 u.key = v.key /\ u.count = v.count /\ u.quiet = v.quiet
<1>1. batch' = batch /\ healed' = healed
  BY DEF Source, Clock, Streaming, Elastic, Store, Deliver, GiveUp, Tick, Assign, Consume,
         Commit, Flush, Restart, Apply, Fail, batchVars
<1>2. upserts \in SUBSET Upsert /\ posted \in SUBSET Upsert
  BY DEF TypeOK
<1>3. CASE Mishap \/ UNCHANGED raceVars
  <2>1. /\ upserts' = upserts \/ upserts' = Forget(upserts)
        /\ posted' = posted \/ posted' = Forget(posted)
    BY <1>3 DEF Mishap, raceVars
  <2>2. \A S \in SUBSET Upsert : \A T \in {S, Forget(S)} : \A u \in T : \E v \in S :
           u.key = v.key /\ u.count = v.count /\ u.quiet = v.quiet
    BY SameUpserts
  <2>3. QED
    BY <1>1, <1>2, <2>1, <2>2
<1>4. CASE \E i \in flight : Apply(i)
  <2>0. PICK i \in flight : Apply(i)
    BY <1>4
  <2>1. upserts' = Missing(upserts, i) /\ posted' = Missing(posted, i)
    BY <2>0 DEF Apply
  <2>2. \A S \in SUBSET Upsert : \A u \in Missing(S, i) : \E v \in S :
           u.key = v.key /\ u.count = v.count /\ u.quiet = v.quiet
    BY SameUpserts
  <2>3. QED
    BY <1>1, <1>2, <2>1, <2>2
<1>5. (Mishap \/ UNCHANGED raceVars) \/ \E i \in flight : Apply(i)
  BY DEF Source, Clock, Streaming, Elastic, Store, Deliver, GiveUp, Tick, Assign, Consume,
         Commit, Flush, Restart, Fail
<1>6. QED
  BY <1>3, <1>4, <1>5

LEMMA OthersHeal ==
    ASSUME IInv, Source \/ Clock \/ Streaming \/ Elastic PROVE Healing' /\ HealedStays'
<1>1. /\ batch' = batch /\ healed' = healed
      /\ \A u \in upserts' : \E v \in upserts :
            u.key = v.key /\ u.count = v.count /\ u.quiet = v.quiet
      /\ \A u \in posted' : \E v \in posted :
            u.key = v.key /\ u.count = v.count /\ u.quiet = v.quiet
  BY OthersKeep DEF IInv
<1>2. \A k \in Keys : Quiet(k) => Quiet(k)' /\ Rows(k)' = Rows(k) /\ index'[k] = index[k]
  BY QuietSource, QuietStreaming, QuietElastic DEF IInv
<1>3. \A k \in Keys : Settled(k)' => Settled(k)
  BY <1>1 DEF Settled
<1>4. ASSUME NEW k \in Keys, Settled(k)
      PROVE  Quiet(k)' /\ \A u \in upserts' \cup posted' : u.key = k => u.count = Rows(k)'
  <2>1. Quiet(k) /\ \A u \in upserts \cup posted : u.key = k => u.count = Rows(k)
    BY <1>4 DEF IInv, Healing
  <2>2. QED
    BY <1>1, <1>2, <2>1
<1>5. batch' = "idle" => upserts' = {}
  BY <1>1 DEF IInv, Healing
<1>6. Healing'
  BY <1>3, <1>4, <1>5 DEF Healing
<1>7. HealedStays'
  <2> SUFFICES ASSUME NEW k \in healed PROVE index'[k] = Rows(k)'
    BY <1>1 DEF HealedStays
  <2>1. k \in Keys /\ Settled(k)
    BY DEF IInv, TypeOK, Settled
  <2>2. QED
    BY <1>2, <2>1 DEF IInv, Healing, HealedStays
<1>8. QED
  BY <1>6, <1>7

\* The batch reads what is true of quiet keys, and writes what it has read.
LEMMA BatchHeals == ASSUME IInv, Batch PROVE Healing' /\ HealedStays'
<1> USE DEF batchVars
<1>1. \A k \in Keys : Quiet(k)' = Quiet(k) /\ Rows(k)' = Rows(k)
  BY QuietBatch
<1>2. /\ \A u \in upserts \cup posted : u.key \in Keys
      /\ healed \subseteq Keys /\ index \in [Keys -> Nat]
  BY DEF IInv, TypeOK, Upsert
<1>3. \A k \in Keys : Settled(k) =>
         Quiet(k) /\ \A u \in upserts \cup posted : u.key = k => u.count = Rows(k)
  BY DEF IInv, Healing
<1>4. CASE BatchRead
  <2>1. \A u \in upserts' : /\ u.key \in Keys /\ u.count = Rows(u.key)
                            /\ u.quiet = Undisturbed(u.key)
    BY <1>4, ReadItems DEF IInv, Upsert
  <2>2. posted' = posted /\ healed' = healed /\ index' = index /\ batch' = "read"
    BY <1>4 DEF BatchRead
  <2>3. ASSUME NEW k \in Keys, Settled(k)'
        PROVE  Quiet(k)' /\ \A u \in upserts' \cup posted' : u.key = k => u.count = Rows(k)'
    <3>1. CASE Settled(k)
      BY <1>1, <1>3, <2>1, <2>2, <3>1
    <3>2. CASE ~Settled(k)
      <4>1. Undisturbed(k)
        BY <2>1, <2>2, <2>3, <3>2 DEF Settled
      <4>2. QED
        BY <1>1, <2>1, <2>2, <4>1 DEF Undisturbed
    <3>3. QED
      BY <3>1, <3>2
  <2>4. Healing'
    BY <2>2, <2>3 DEF Healing
  <2>5. HealedStays'
    BY <1>1, <1>2, <2>2 DEF HealedStays, IInv
  <2>6. QED
    BY <2>4, <2>5
<1>5. ASSUME \A u \in upserts' \cup posted' : \E v \in upserts \cup posted :
                 u.key = v.key /\ u.count = v.count /\ u.quiet = v.quiet,
             healed' = healed, index' = index, batch' = "idle" => upserts' = {}
      PROVE  Healing' /\ HealedStays'
  <2>1. \A k \in Keys : Settled(k)' => Settled(k)
    BY <1>5 DEF Settled
  <2>2. Healing'
    BY <1>1, <1>3, <1>5, <2>1 DEF Healing
  <2>3. HealedStays'
    BY <1>1, <1>2, <1>5 DEF HealedStays, IInv
  <2>4. QED
    BY <2>2, <2>3
<1>6. CASE BatchPost
  <2>1. \A u \in posted' : u \notin posted =>
           \E v \in upserts : u.key = v.key /\ u.count = v.count /\ u.quiet = v.quiet
    BY <1>6, PostedItems DEF IInv
  <2>2. upserts' = {} /\ healed' = healed /\ index' = index
    BY <1>6 DEF BatchPost
  <2>3. QED
    BY <1>5, <2>1, <2>2
<1>7. CASE BatchEnd
  BY <1>5, <1>7 DEF BatchEnd
<1>8. ASSUME NEW u \in posted, BatchFail(u) PROVE Healing' /\ HealedStays'
  BY <1>5, <1>8 DEF BatchFail, IInv, Healing
<1>9. ASSUME NEW u \in posted, BatchWrite(u) PROVE Healing' /\ HealedStays'
  <2>1. /\ posted' = posted \ {u} /\ upserts' = upserts /\ batch' = batch
        /\ healed' = IF u.quiet THEN healed \cup {u.key} ELSE healed
        /\ index' = [index EXCEPT ![u.key] = u.count]
    BY <1>9 DEF BatchWrite, Written
  <2>2. \A k \in Keys : Settled(k)' => Settled(k)
    BY <2>1 DEF Settled
  <2>3. Healing'
    BY <1>1, <1>3, <2>1, <2>2 DEF Healing, IInv
  <2>4. ASSUME NEW k \in healed' PROVE index'[k] = Rows(k)'
    <3>1. k \in Keys /\ Settled(k)
      BY <1>2, <2>1 DEF Settled
    <3>2. CASE k = u.key
      BY <1>1, <1>2, <1>3, <2>1, <3>1, <3>2
    <3>3. CASE k # u.key
      BY <1>1, <1>2, <2>1, <3>1, <3>3 DEF HealedStays, IInv
    <3>4. QED
      BY <3>2, <3>3
  <2>5. QED
    BY <2>3, <2>4 DEF HealedStays
<1>10. QED
  BY <1>4, <1>6, <1>7, <1>8, <1>9 DEF Batch

LEMMA NextHeals == IInv /\ [Next]_vars => Healing' /\ HealedStays'
<1> SUFFICES ASSUME IInv, [Next]_vars PROVE Healing' /\ HealedStays'
  OBVIOUS
<1>1. CASE UNCHANGED vars
  <2>1. \A k \in Keys : Quiet(k)' = Quiet(k) /\ Rows(k)' = Rows(k)
    BY <1>1, QuietBatch
  <2>2. healed \subseteq Keys
    BY DEF IInv, TypeOK
  <2>3. /\ upserts' = upserts /\ posted' = posted /\ healed' = healed /\ index' = index
        /\ batch' = batch
    BY <1>1 DEF vars, batchVars, raceVars
  <2>4. \A k \in Keys : Settled(k)' = Settled(k)
    BY <2>3 DEF Settled
  <2>5. QED
    BY <2>1, <2>2, <2>3, <2>4 DEF IInv, Healing, HealedStays
<1>2. QED
  BY <1>1, OthersHeal, BatchHeals DEF Next

------------------------------------------------------------------------------
(* What is under way.                                                      *)

\* The increments of the next flush are new: its bulk has a number of its own.
Numbered == \A i \in flight : i.bulk <= bulks

\* Messages between two offsets are those up to any offset between them and those
\* from there on.
LEMMA MessagesAdd ==
    ASSUME NEW k \in Keys, NEW a \in Nat, NEW b \in Nat, NEW c \in Nat, a <= b, b <= c
    PROVE  Messages(k, a, b) + Messages(k, b, c) = Messages(k, a, c)
<1> DEFINE M(x, y) == {o \in (x + 1)..y : KeyOf[topic[o]] = k}
<1>1. IsFiniteSet(M(a, b)) /\ IsFiniteSet(M(b, c))
  <2>1. IsFiniteSet((a + 1)..b) /\ IsFiniteSet((b + 1)..c)
    BY FS_Interval
  <2>2. M(a, b) \subseteq (a + 1)..b /\ M(b, c) \subseteq (b + 1)..c
    OBVIOUS
  <2> HIDE DEF M
  <2>3. QED
    BY <2>1, <2>2, FS_Subset
<1>2. M(a, b) \cup M(b, c) = M(a, c) /\ M(a, b) \cap M(b, c) = {}
  OBVIOUS
<1>3. /\ Messages(k, a, b) = Cardinality(M(a, b)) /\ Messages(k, b, c) = Cardinality(M(b, c))
      /\ Messages(k, a, c) = Cardinality(M(a, c))
  BY DEF Messages
<1> HIDE DEF M
<1>4. Cardinality(M(a, b) \cup M(b, c))
         = Cardinality(M(a, b)) + Cardinality(M(b, c)) - Cardinality(M(a, b) \cap M(b, c))
  BY <1>1, FS_Union
<1>5. Cardinality(M(a, b)) \in Nat /\ Cardinality(M(b, c)) \in Nat
  BY <1>1, FS_CardinalityType
<1>6. QED
  BY <1>2, <1>3, <1>4, <1>5, FS_EmptySet

LEMMA NoMessages ==
    ASSUME NEW k \in Keys, NEW a \in Nat, NEW b \in Nat, b <= a PROVE Messages(k, a, b) = 0
<1>1. {o \in (a + 1)..b : KeyOf[topic[o]] = k} = {}
  OBVIOUS
<1>2. QED
  BY <1>1, FS_EmptySet DEF Messages

LEMMA OneMessage ==
    ASSUME NEW k \in Keys, NEW a \in Nat
    PROVE  Messages(k, a, a + 1) = IF KeyOf[topic[a + 1]] = k THEN 1 ELSE 0
<1>1. {o \in (a + 1)..(a + 1) : KeyOf[topic[o]] = k}
         = IF KeyOf[topic[a + 1]] = k THEN {a + 1} ELSE {}
  OBVIOUS
<1>2. Cardinality({a + 1}) = 1 /\ Cardinality({}) = 0
  BY FS_EmptySet, FS_Singleton
<1>3. QED
  BY <1>1, <1>2 DEF Messages

\* What is in the topic stays there.
LEMMA MessagesKept ==
    ASSUME TypeOK, topic' = topic \/ \E e \in Events : topic' = Append(topic, e),
           NEW k \in Keys, NEW a \in Nat, NEW b \in 0..Len(topic)
    PROVE  Messages(k, a, b)' = Messages(k, a, b)
<1>1. \A o \in (a + 1)..b : topic'[o] = topic[o]
  <2>1. CASE topic' = topic
    BY <2>1
  <2>2. ASSUME NEW e \in Events, topic' = Append(topic, e)
        PROVE  \A o \in (a + 1)..b : topic'[o] = topic[o]
    <3>1. \A o \in 1..Len(topic) : topic'[o] = topic[o]
      BY <2>2, AppendProperties DEF TypeOK
    <3>2. (a + 1)..b \subseteq 1..Len(topic)
      BY OffsetsInTopic
    <3>3. QED
      BY <3>1, <3>2
  <2>3. QED
    BY <2>1, <2>2
<1>2. {o \in (a + 1)..b : KeyOf[topic'[o]] = k} = {o \in (a + 1)..b : KeyOf[topic[o]] = k}
  BY <1>1
<1>3. QED
  BY <1>2 DEF Messages

\* There are no fewer of them when the topic grows.
LEMMA MessagesGrow ==
    ASSUME TypeOK, topic' = topic \/ \E e \in Events : topic' = Append(topic, e),
           NEW k \in Keys, NEW a \in Nat, NEW b \in 0..Len(topic), NEW c \in Nat, b <= c
    PROVE  Messages(k, a, c)' \in Nat /\ Messages(k, a, b) <= Messages(k, a, c)'
<1> DEFINE old == {o \in (a + 1)..b : KeyOf[topic'[o]] = k}
           new == {o \in (a + 1)..c : KeyOf[topic'[o]] = k}
<1>1. IsFiniteSet(new)
  <2>1. IsFiniteSet((a + 1)..c)
    BY FS_Interval
  <2>2. QED
    BY <2>1, FS_Subset
<1>2. old \subseteq new
  BY OffsetsInTopic
<1>3. Messages(k, a, b) = Cardinality(old)
  BY MessagesKept DEF Messages
<1>4. Messages(k, a, c)' = Cardinality(new)
  BY DEF Messages
<1> HIDE DEF old, new
<1>5. QED
  BY <1>1, <1>2, <1>3, <1>4, FS_Subset, FS_CardinalityType

\* for_each is given the message after the last one.
LEMMA ConsumeSteps ==
    ASSUME TypeOK, Consume
    PROVE  /\ position \in Nat /\ position + 1 \in 1..Len(topic) /\ position' = position + 1
           /\ Handled = position /\ Handled' = position + 1
<1>1. /\ position \in 0..Len(topic) /\ Len(topic) \in Nat /\ position + 1 \in 1..Len(topic)
      /\ position' = position + 1
  BY LenProperties DEF Consume, TypeOK
<1>2. Handled = position /\ Handled' = position + 1
  BY <1>1, NoOffsetAssumption DEF Consume, Handled
<1>3. QED
  BY <1>1, <1>2

\* It moves it from the topic into the map.
LEMMA ConsumeMoves ==
    ASSUME TypeOK, Consume, NEW k \in Keys
    PROVE  Pending(k)' = Pending(k) + Messages(k, position, position + 1)
<1>1. /\ position \in Nat
      /\ map' = [map EXCEPT ![KeyOf[topic[position + 1]]] = @ + 1] /\ flight' = flight
  BY ConsumeSteps DEF Consume
<1>3. Cardinality(Units(k)') = Cardinality(Units(k)) /\ Cardinality(Units(k)) \in Nat
  BY <1>1, UnitsNumber DEF Units
<1>4. map'[k] = map[k] + Messages(k, position, position + 1) /\ map[k] \in Nat
  <2>1. map'[k] = IF KeyOf[topic[position + 1]] = k THEN map[k] + 1 ELSE map[k]
    BY <1>1 DEF TypeOK
  <2>2. map[k] \in Nat
    BY DEF TypeOK
  <2>3. Messages(k, position, position + 1)
           = IF KeyOf[topic[position + 1]] = k THEN 1 ELSE 0
    BY <1>1, OneMessage
  <2>4. QED
    BY <2>1, <2>2, <2>3
<1>5. Messages(k, position, position + 1) \in Nat
  BY <1>1, MessagesNumber
<1>6. QED
  BY <1>3, <1>4, <1>5 DEF Pending

\* The timer moves what the map counts into an increment, if the bulk is not torn.
LEMMA FlushMoves ==
    ASSUME TypeOK, Numbered, Flush, ~Tears, NEW k \in Keys
    PROVE  Pending(k)' = Pending(k)
<1> DEFINE item == [bulk |-> bulks + 1, copy |-> 1, key |-> k, count |-> map[k]]
           new == {item} \X (1..map[k])
<1>1. PICK copies \in Arrivals(Dirty) : flight' = flight \cup Bulk(copies)
  BY DEF Flush
<1>2. copies = [j \in Keys |-> IF j \in Dirty THEN 1 ELSE 0]
  <2>1. IsFiniteSet(Dirty)
    BY SetsAssumption, FS_Subset DEF Dirty
  <2>2. Cardinality(Dirty) <= BufferItems
    BY <2>1, FS_CardinalityType, SizesAssumption DEF Tears
  <2>3. QED
    BY <2>2 DEF Arrivals
<1>3. Bulk(copies) = {[bulk |-> bulks + 1, copy |-> 1, key |-> j, count |-> map[j]] : j \in Dirty}
  BY <1>2 DEF Bulk, Dirty
<1>4. map[k] \in Nat /\ bulks \in Nat /\ item \in Increment
  BY DEF TypeOK, Increment
<1>5. {j \in flight' : j.key = k}
         = {j \in flight : j.key = k} \cup (IF k \in Dirty THEN {item} ELSE {})
  BY <1>1, <1>3
<1>6. k \notin Dirty => new = {}
  BY <1>4 DEF Dirty
<1>7. Units(k)' = Units(k) \cup new
  <2>1. Units(k)' = UNION {{i} \X (1..i.count) : i \in {j \in flight' : j.key = k}}
    BY DEF Units
  <2>2. item.count = map[k]
    OBVIOUS
  <2>3. CASE k \in Dirty
    <3>1. Units(k)' = UNION {{i} \X (1..i.count) : i \in {j \in flight : j.key = k} \cup {item}}
      BY <1>5, <2>1, <2>3
    <3> HIDE DEF item
    <3>2. QED
      BY <2>2, <3>1 DEF Units
  <2>4. CASE k \notin Dirty
    <3>1. {j \in flight' : j.key = k} = {j \in flight : j.key = k}
      BY <1>5, <2>4
    <3>2. QED
      BY <1>6, <2>1, <2>4, <3>1 DEF Units
  <2>5. QED
    BY <2>3, <2>4
<1>8. Units(k) \cap new = {}
  <2>1. ASSUME NEW u \in Units(k), u \in new PROVE FALSE
    <3>1. PICK i \in flight : u \in {i} \X (1..i.count)
      BY <2>1 DEF Units
    <3>2. i = item
      BY <2>1, <3>1
    <3>3. i.bulk = bulks + 1
      BY <3>2
    <3>4. i.bulk <= bulks
      BY DEF Numbered
    <3>5. QED
      BY <1>4, <3>3, <3>4
  <2>2. QED
    BY <2>1
<1>9. IsFiniteSet(new) /\ Cardinality(new) = map[k]
  BY <1>4, UnitsOfOne
<1>10. IsFiniteSet(Units(k)) /\ Cardinality(Units(k)) \in Nat
  BY UnitsNumber
<1> HIDE DEF new
<1>11. Cardinality(Units(k) \cup new)
          = Cardinality(Units(k)) + Cardinality(new) - Cardinality(Units(k) \cap new)
  BY <1>9, <1>10, FS_Union
<1>12. Cardinality(Units(k) \cap new) = 0
  BY <1>8, FS_EmptySet
<1>13. Cardinality(Units(k)') = Cardinality(Units(k)) + map[k]
  BY <1>4, <1>7, <1>9, <1>10, <1>11, <1>12
<1>14. map'[k] = 0
  BY DEF Flush
<1>15. QED
  BY <1>4, <1>10, <1>13, <1>14 DEF Pending

\* An increment leaves the flight with its units.
LEMMA ElasticMoves ==
    ASSUME TypeOK, NEW i \in flight, Apply(i) \/ Fail(i), NEW k \in Keys
    PROVE  /\ i.count \in Nat /\ Pending(k)' \in Nat
           /\ Pending(k) = Pending(k)' + (IF i.key = k THEN i.count ELSE 0)
<1> DEFINE ones == {i} \X (1..i.count)
<1>1. flight' = flight \ {i} /\ map' = map
  BY DEF Apply, Fail
<1>2. i \in Increment /\ i.count \in Nat /\ map[k] \in Nat
  BY DEF TypeOK, Increment
<1>3. IsFiniteSet(Units(k)) /\ Cardinality(Units(k)) \in Nat
  BY UnitsNumber
<1>4. IsFiniteSet(ones) /\ Cardinality(ones) = i.count
  BY <1>2, UnitsOfOne
<1>5. CASE i.key = k
  <2>1. Units(k)' = Units(k) \ ones /\ ones \subseteq Units(k)
    BY <1>1, <1>5 DEF Units
  <2> HIDE DEF ones
  <2>2. /\ IsFiniteSet(Units(k) \ ones)
        /\ Cardinality(Units(k) \ ones) = Cardinality(Units(k)) - Cardinality(Units(k) \cap ones)
    BY <1>3, FS_Difference
  <2>3. Units(k) \cap ones = ones
    BY <2>1
  <2>4. Cardinality(Units(k)') = Cardinality(Units(k)) - i.count
    BY <1>4, <2>1, <2>2, <2>3
  <2>5. Cardinality(Units(k)') \in Nat
    BY <2>1, <2>2, FS_CardinalityType
  <2>6. QED
    BY <1>1, <1>2, <1>3, <1>5, <2>4, <2>5 DEF Pending
<1>6. CASE i.key # k
  <2>1. Units(k)' = Units(k)
    BY <1>1, <1>6 DEF Units
  <2>2. QED
    BY <1>1, <1>2, <1>3, <1>6, <2>1 DEF Pending
<1>7. QED
  BY <1>5, <1>6

------------------------------------------------------------------------------
(* Messages are counted once.                                              *)

\* The offsets of the group do not lie before the first position.  As long as the
\* process has not died, nothing is given again and the position, once known,
\* stays known.  Nothing is written before the first run of the batch.
Started ==
    /\ start = NoOffset => position = NoOffset /\ committed = NoOffset
    /\ start # NoOffset => start <= Handled /\ start <= Resume
    /\ crashes = 0 => /\ start # NoOffset => position # NoOffset
                      /\ \A k \in Keys : again[k] = 0
    /\ runs = 0 => batch = "idle" /\ posted = {}

Counting == Numbered /\ Started /\ CountedOnce

\* What is counted are numbers.
LEMMA GivenNumber ==
    ASSUME TypeOK, NEW k \in Keys
    PROVE  /\ index[k] \in Nat /\ again[k] \in Nat /\ Given(k) \in Nat
           /\ start # NoOffset => start \in Nat /\ Messages(k, start, Handled) \in Nat
<1>1. index[k] \in Nat /\ again[k] \in Nat /\ (start # NoOffset => start \in Nat)
  BY OffsetsInTopic DEF TypeOK
<1>2. Handled \in Nat
  BY OffsetsInTopic
<1>3. start # NoOffset => Messages(k, start, Handled) \in Nat
  BY <1>1, <1>2, MessagesNumber
<1>4. QED
  BY <1>1, <1>3 DEF Given

LEMMA InitCounting == Init => Counting
<1> SUFFICES ASSUME Init PROVE Counting
  OBVIOUS
<1>1. ASSUME NEW k \in Keys PROVE index[k] = 0 /\ Pending(k) = 0 /\ Given(k) = 0
  <2>1. Units(k) = {} /\ index[k] = 0 /\ map[k] = 0
    BY <1>1 DEF Init, Units
  <2>2. QED
    BY <2>1, FS_EmptySet DEF Init, Pending, Given
<1>2. CountedOnce
  BY <1>1 DEF CountedOnce
<1>3. QED
  BY <1>2 DEF Init, Counting, Numbered, Started

\* Steps that leave the count of what is under way and of what was given.
LEMMA SameCounts ==
    ASSUME CountedOnce, UNCHANGED <<index, runs, torn, failed, crashes>>,
           \A k \in Keys : Pending(k)' = Pending(k) /\ Given(k)' = Given(k)
    PROVE  CountedOnce'
  BY DEF CountedOnce

\* Rows and messages come in, or the consumer joins or commits.
LEMMA OthersCount ==
    ASSUME TypeOK, Counting, Source \/ Clock \/ Assign \/ Commit PROVE Counting'
<1> USE DEF storeVars, consumerVars, streamingVars, batchVars, historyVars
<1>1. /\ UNCHANGED <<map, bulks, flight, index, batch, runs, again, failed, torn, crashes>>
      /\ topic' = topic \/ \E e \in Events : topic' = Append(topic, e)
  BY DEF Source, Clock, Store, Deliver, GiveUp, Tick, Assign, Commit
<1>2. Numbered'
  BY <1>1 DEF Counting, Numbered
<1>3. \A k \in Keys : Pending(k)' = Pending(k)
  BY <1>1 DEF Units, Pending
<1>4. /\ Len(topic) \in Nat /\ Resume \in 0..Len(topic) /\ Handled \in 0..Len(topic)
      /\ start \in Nat \cup {NoOffset}
  BY OffsetsInTopic DEF TypeOK
<1>5. posted = {} => posted' = {}
  BY DEF Source, Clock, Store, Deliver, GiveUp, Tick, Assign, Commit, raceVars, Mishap, Forget
<1>6. CASE Assign
  <2>1. Resume' = Resume /\ Handled' = Handled /\ position' = Resume
    BY <1>4, <1>6, NoOffsetAssumption DEF Assign, Resume, Handled
  <2>2. /\ start' = IF start = NoOffset THEN Resume ELSE start
        /\ topic' = topic /\ committed' = committed
    BY <1>6 DEF Assign
  <2>3. Started'
    BY <1>1, <1>4, <1>5, <2>1, <2>2, NoOffsetAssumption DEF Counting, Started, Handled
  <2>4. CASE start # NoOffset
    <3>1. \A k \in Keys : Given(k)' = Given(k)
      BY <1>1, <2>1, <2>2, <2>4 DEF Given, Messages
    <3>2. QED
      BY <1>1, <1>2, <1>3, <2>3, <3>1, SameCounts DEF Counting
  <2>5. CASE start = NoOffset
    <3>1. start' = Handled'
      BY <1>6, <2>1, <2>2, <2>5 DEF Assign, Handled
    <3>2. start' # NoOffset /\ Handled' \in Nat
      BY <1>4, <2>1, <3>1, NoOffsetAssumption
    <3>3. ASSUME NEW k \in Keys PROVE Given(k)' = again[k] /\ Given(k) = 0 /\ again[k] \in Nat
      <4>1. Messages(k, start, Handled)' = Messages(k, Resume, Resume)
        BY <2>1, <2>2, <2>5, <3>1 DEF Messages
      <4>2. Messages(k, Resume, Resume) = 0
        BY <1>4, NoMessages
      <4>3. again[k] \in Nat
        BY DEF TypeOK
      <4>4. QED
        BY <1>1, <2>5, <3>2, <4>1, <4>2, <4>3 DEF Given
    <3>4. \A k \in Keys : index[k] \in Nat /\ Pending(k) \in Nat
      BY GivenNumber, ToComeNumber
    <3>5. CountedOnce'
      BY <1>1, <1>3, <3>3, <3>4 DEF Counting, Started, CountedOnce
    <3>6. QED
      BY <1>2, <2>3, <3>5 DEF Counting
  <2>6. QED
    BY <2>4, <2>5
<1>7. CASE Commit
  <2>1. /\ position # NoOffset /\ Handled = position /\ Handled' = position
        /\ Resume' = committed' /\ committed' \in position..Len(topic)
        /\ start' = start /\ position' = position /\ topic' = topic
    BY <1>4, <1>7, NoOffsetAssumption DEF Commit, Resume, Handled, TypeOK
  <2>2. \A k \in Keys : Given(k)' = Given(k)
    BY <1>1, <2>1 DEF Given, Messages
  <2>3. Started'
    BY <1>1, <1>4, <1>5, <2>1 DEF Counting, Started
  <2>4. QED
    BY <1>1, <1>2, <1>3, <2>2, <2>3, SameCounts DEF Counting
<1>8. CASE Source \/ Clock
  <2>1. /\ UNCHANGED <<position, committed, start>> /\ Len(topic') \in Nat
        /\ Len(topic') >= Len(topic)
    <3>1. UNCHANGED <<position, committed, start>>
      BY <1>8 DEF Source, Clock, Store, Deliver, GiveUp, Tick
    <3>2. Len(topic') \in Nat /\ Len(topic') >= Len(topic)
      BY <1>1, AppendProperties, LenProperties DEF TypeOK
    <3>3. QED
      BY <3>1, <3>2
  <2>2. /\ Resume' \in Nat /\ Resume' >= Resume /\ Handled' \in Nat /\ Handled' >= Handled
        /\ position # NoOffset => Handled' = Handled
    BY <1>4, <2>1 DEF Resume, Handled, TypeOK
  <2>3. Started'
    BY <1>1, <1>4, <1>5, <2>1, <2>2 DEF Counting, Started
  <2>4. ASSUME NEW k \in Keys
        PROVE  /\ Given(k) <= Given(k)'
               /\ Given(k)' \in Nat
               /\ position # NoOffset \/ start = NoOffset => Given(k)' = Given(k)
    <3>1. CASE start = NoOffset
      BY <2>1, <3>1, GivenNumber DEF Given
    <3>2. CASE start # NoOffset
      <4>1. start \in Nat /\ Given(k) = Messages(k, start, Handled) + again[k]
        BY <1>4, <3>2 DEF Given
      <4>2. Given(k)' = Messages(k, start, Handled)' + again[k] /\ again[k] \in Nat
        BY <1>1, <2>1, <3>2 DEF Given, TypeOK
      <4>3. /\ Messages(k, start, Handled) \in Nat /\ Messages(k, start, Handled)' \in Nat
            /\ Messages(k, start, Handled) <= Messages(k, start, Handled)'
        <5>1. \A c \in Nat : c >= Handled =>
                 /\ Messages(k, start, c)' \in Nat
                 /\ Messages(k, start, Handled) <= Messages(k, start, c)'
          BY <1>1, <1>4, <2>1, <4>1, MessagesGrow
        <5>2. QED
          BY <2>1, <2>2, <3>2, <5>1, GivenNumber
      <4>4. position # NoOffset => Messages(k, start, Handled)' = Messages(k, start, Handled)
        <5>1. Messages(k, start, Handled)' = Messages(k, start, Handled) \/ position = NoOffset
          BY <1>1, <1>4, <2>1, <2>2, <4>1, MessagesKept
        <5>2. QED
          BY <5>1
      <4>5. QED
        BY <3>2, <4>1, <4>2, <4>3, <4>4
    <3>3. QED
      BY <3>1, <3>2
  <2>5. ASSUME NEW k \in Keys
        PROVE  /\ index[k] \in Nat /\ Pending(k) \in Nat
               /\ Given(k) \in Nat /\ Given(k)' \in Nat /\ Given(k) <= Given(k)'
               /\ crashes = 0 => Given(k)' = Given(k)
    <3>1. index[k] \in Nat /\ Pending(k) \in Nat /\ Given(k) \in Nat
      BY GivenNumber, ToComeNumber
    <3>2. crashes = 0 => Given(k)' = Given(k)
      BY <2>4 DEF Counting, Started
    <3>3. QED
      BY <2>4, <3>1, <3>2
  <2>6. CountedOnce'
    BY <1>1, <1>3, <2>5 DEF Counting, CountedOnce
  <2>7. QED
    BY <1>2, <2>3, <2>6 DEF Counting
<1>9. QED
  BY <1>6, <1>7, <1>8

\* A message more is given, and a count more is in the map.
LEMMA ConsumeCounts == ASSUME TypeOK, Counting, Consume PROVE Counting'
<1> USE DEF storeVars, consumerVars, streamingVars, batchVars, raceVars, historyVars
<1>1. /\ UNCHANGED <<topic, committed, bulks, flight, index, batch, posted, runs, start, again,
                     failed, torn, crashes>>
      /\ position' = position + 1 /\ position # NoOffset
  BY DEF Consume
<1>2. /\ Len(topic) \in Nat /\ Resume \in Nat /\ Resume' = Resume
      /\ position \in Nat /\ Handled = position /\ Handled' = position + 1
  BY <1>1, OffsetsInTopic, ConsumeSteps DEF Resume
<1>3. start # NoOffset /\ start \in Nat /\ start <= position
  BY <1>1, <1>2 DEF Counting, Started, TypeOK
<1>4. Numbered'
  BY <1>1 DEF Counting, Numbered
<1>5. Started'
  BY <1>1, <1>2, <1>3, NoOffsetAssumption DEF Counting, Started
<1>6. ASSUME NEW k \in Keys
      PROVE  /\ index[k] \in Nat /\ Pending(k) \in Nat /\ Given(k) \in Nat
             /\ \E n \in Nat : Pending(k)' = Pending(k) + n /\ Given(k)' = Given(k) + n
  <2>1. index[k] \in Nat /\ Pending(k) \in Nat /\ Given(k) \in Nat /\ again[k] \in Nat
    BY GivenNumber, ToComeNumber
  <2>2. Pending(k)' = Pending(k) + Messages(k, position, position + 1)
    BY ConsumeMoves
  <2>3. /\ Messages(k, start, position) + Messages(k, position, position + 1)
              = Messages(k, start, position + 1)
        /\ Messages(k, start, position) \in Nat /\ Messages(k, position, position + 1) \in Nat
    <3>1. start \in Nat /\ position \in Nat /\ position + 1 \in Nat
          /\ start <= position /\ position <= position + 1
      BY <1>2, <1>3
    <3>2. Messages(k, start, position) \in Nat /\ Messages(k, position, position + 1) \in Nat
      BY <3>1, MessagesNumber
    <3>3. Messages(k, start, position) + Messages(k, position, position + 1)
             = Messages(k, start, position + 1)
      BY <3>1, MessagesAdd
    <3>4. QED
      BY <3>2, <3>3
  <2>4. Given(k) = Messages(k, start, position) + again[k]
    BY <1>2, <1>3 DEF Given
  <2>5. Given(k)' = Messages(k, start, position + 1) + again[k]
    BY <1>1, <1>2, <1>3 DEF Given, Messages
  <2>6. QED
    BY <2>1, <2>2, <2>3, <2>4, <2>5
<1>7. CountedOnce'
  BY <1>1, <1>6 DEF Counting, CountedOnce
<1>8. QED
  BY <1>4, <1>5, <1>7 DEF Counting

\* What the map counts of a key becomes one increment, new in its bulk.
LEMMA FlushCounts == ASSUME TypeOK, Counting, Flush PROVE Counting'
<1> USE DEF storeVars, consumerVars, streamingVars, batchVars, historyVars
<1>1. /\ UNCHANGED <<topic, committed, position, index, batch, runs, start, again, failed,
                     crashes>>
      /\ bulks' = bulks + 1 /\ bulks \in Nat /\ torn' = (torn \/ Tears)
  BY DEF Flush, TypeOK
<1>2. Numbered'
  <2>1. PICK copies \in Arrivals(Dirty) : flight' = flight \cup Bulk(copies)
    BY DEF Flush
  <2>2. \A i \in Bulk(copies) : i.bulk = bulks + 1
    BY DEF Bulk
  <2>3. \A i \in flight : i.bulk \in Nat /\ i.bulk <= bulks
    BY DEF Counting, Numbered, TypeOK, Increment
  <2>4. QED
    BY <1>1, <2>1, <2>2, <2>3 DEF Numbered
<1>3. posted = {} => posted' = {}
  BY DEF Flush, raceVars, Mishap, Forget
<1>4. Started'
  BY <1>1, <1>3 DEF Counting, Started, Handled, Resume
<1>5. \A k \in Keys : Given(k)' = Given(k)
  BY <1>1 DEF Given, Messages, Handled, Resume
<1>6. ~torn' => ~torn /\ \A k \in Keys : Pending(k)' = Pending(k)
  BY <1>1, FlushMoves DEF Counting
<1>7. CountedOnce'
  BY <1>1, <1>5, <1>6 DEF Counting, CountedOnce
<1>8. QED
  BY <1>2, <1>4, <1>7 DEF Counting

\* Messages after the offset are given again, and what the map had counted is
\* lost; offsets committed ahead of it lose messages, too.
LEMMA RestartCounts == ASSUME TypeOK, Counting, Restart PROVE Counting'
<1> USE DEF storeVars, consumerVars, streamingVars, batchVars, historyVars
<1>1. /\ UNCHANGED <<topic, committed, bulks, flight, index, batch, runs, start, failed, torn>>
      /\ position' = NoOffset /\ map' = [k \in Keys |-> 0]
      /\ again' = [k \in Keys |-> again[k] + Messages(k, Resume, Handled)]
      /\ crashes' = crashes + 1 /\ crashes \in Nat
  BY DEF Restart, TypeOK
<1>2. /\ Resume \in Nat /\ Handled \in Nat /\ Resume' = Resume /\ Handled' = Resume
  BY <1>1, OffsetsInTopic DEF Handled, Resume
<1>3. posted = {} => posted' = {}
  BY DEF Restart, Mishap, Forget
<1>4. Numbered'
  BY <1>1 DEF Counting, Numbered
<1>5. Started'
  BY <1>1, <1>2, <1>3 DEF Counting, Started
<1>6. ASSUME NEW k \in Keys
      PROVE  /\ index[k] \in Nat /\ Pending(k) \in Nat /\ Given(k) \in Nat
             /\ Pending(k)' \in Nat /\ Pending(k)' <= Pending(k)
             /\ Given(k)' \in Nat /\ Given(k) <= Given(k)'
  <2>1. /\ index[k] \in Nat /\ Pending(k) \in Nat /\ Given(k) \in Nat /\ again[k] \in Nat
        /\ map[k] \in Nat
    BY GivenNumber, ToComeNumber
  <2>2. Pending(k)' \in Nat /\ Pending(k)' <= Pending(k)
    <3>1. Units(k)' = Units(k) /\ map'[k] = 0
      BY <1>1 DEF Units
    <3>2. QED
      BY <2>1, <3>1, UnitsNumber DEF Pending
  <2>3. CASE start = NoOffset
    BY <1>1, <2>1, <2>2, <2>3 DEF Given
  <2>4. CASE start # NoOffset
    <3>1. start \in Nat /\ start <= Resume /\ start <= Handled
      BY <2>4, GivenNumber DEF Counting, Started
    <3>2. /\ Given(k) = Messages(k, start, Handled) + again[k]
          /\ Given(k)' = Messages(k, start, Resume) + (again[k] + Messages(k, Resume, Handled))
      BY <1>1, <1>2, <2>4 DEF Given, Messages
    <3>3. /\ Messages(k, start, Handled) \in Nat /\ Messages(k, start, Resume) \in Nat
          /\ Messages(k, Resume, Handled) \in Nat
      BY <1>2, <3>1, MessagesNumber
    <3>4. Messages(k, start, Handled) <= Messages(k, start, Resume) + Messages(k, Resume, Handled)
      <4>1. CASE Resume <= Handled
        <5>1. Messages(k, start, Resume) + Messages(k, Resume, Handled) = Messages(k, start, Handled)
          BY <1>2, <3>1, <4>1, MessagesAdd
        <5>2. QED
          BY <3>3, <5>1
      <4>2. CASE Handled <= Resume
        <5>1. Messages(k, start, Handled) + Messages(k, Handled, Resume) = Messages(k, start, Resume)
          BY <1>2, <3>1, <4>2, MessagesAdd
        <5>2. Messages(k, Handled, Resume) \in Nat
          BY <1>2, MessagesNumber
        <5>3. QED
          BY <3>3, <5>1, <5>2
      <4>3. QED
        BY <1>2, <4>1, <4>2
    <3>5. QED
      BY <2>1, <2>2, <3>2, <3>3, <3>4
  <2>5. QED
    BY <2>3, <2>4
<1>7. CountedOnce'
  BY <1>1, <1>6 DEF Counting, CountedOnce
<1>8. QED
  BY <1>4, <1>5, <1>7 DEF Counting

\* An increment leaves the flight, into the index or for good.
LEMMA ElasticCounts ==
    ASSUME TypeOK, Counting, NEW i \in flight, Apply(i) \/ Fail(i)
    PROVE  Counting'
<1> USE DEF storeVars, consumerVars, streamingVars, batchVars, historyVars
<1>1. /\ UNCHANGED <<topic, committed, position, bulks, batch, runs, start, again, torn, crashes>>
      /\ flight' = flight \ {i}
  BY DEF Apply, Fail
<1>2. Numbered'
  BY <1>1 DEF Counting, Numbered
<1>3. posted = {} => posted' = {}
  BY DEF Apply, Missing, Fail, Mishap, Forget
<1>4. Started'
  BY <1>1, <1>3 DEF Counting, Started, Handled, Resume
<1>5. \A k \in Keys : Given(k)' = Given(k)
  BY <1>1 DEF Given, Messages, Handled, Resume
<1>6. ASSUME NEW k \in Keys
      PROVE  /\ index[k] \in Nat /\ index'[k] \in Nat /\ Given(k) \in Nat
             /\ Pending(k) \in Nat /\ Pending(k)' \in Nat
             /\ index'[k] + Pending(k)' <= index[k] + Pending(k)
             /\ ~failed' => ~failed /\ index'[k] + Pending(k)' = index[k] + Pending(k)
  <2>1. index[k] \in Nat /\ Pending(k) \in Nat /\ Given(k) \in Nat
    BY GivenNumber, ToComeNumber
  <2>2. /\ i.count \in Nat /\ Pending(k)' \in Nat
        /\ Pending(k) = Pending(k)' + (IF i.key = k THEN i.count ELSE 0)
    BY ElasticMoves
  <2>3. CASE Apply(i)
    <3>1. index'[k] = index[k] + (IF i.key = k THEN i.count ELSE 0) /\ failed' = failed
      BY <2>1, <2>2, <2>3 DEF Apply, TypeOK
    <3>2. QED
      BY <2>1, <2>2, <3>1
  <2>4. CASE Fail(i)
    <3>1. index' = index /\ failed'
      BY <2>4 DEF Fail
    <3>2. QED
      BY <2>1, <2>2, <3>1
  <2>5. QED
    BY <2>3, <2>4
<1>7. CountedOnce'
  BY <1>1, <1>5, <1>6 DEF Counting, CountedOnce
<1>8. QED
  BY <1>2, <1>4, <1>7 DEF Counting

\* A run of the batch has begun before it writes.
LEMMA BatchCounts == ASSUME TypeOK, Counting, Batch PROVE Counting'
<1> USE DEF batchVars
<1>1. UNCHANGED <<topic, committed, position, bulks, flight, start, again, crashes>>
  BY BatchLeaves DEF storeVars, consumerVars, streamingVars, historyVars
<1>2. runs' # 0
  BY DEF Batch, BatchRead, BatchPost, BatchWrite, BatchEnd, BatchFail, Counting, Started, TypeOK
<1>3. QED
  BY <1>1, <1>2 DEF Counting, Numbered, Started, CountedOnce, Handled, Resume

LEMMA NextCounts == TypeOK /\ Counting /\ [Next]_vars => Counting'
<1> SUFFICES ASSUME TypeOK, Counting, [Next]_vars PROVE Counting'
  OBVIOUS
<1>1. CASE UNCHANGED vars
  BY <1>1 DEF vars, storeVars, consumerVars, streamingVars, batchVars, raceVars, historyVars,
     Counting, Numbered, Started, CountedOnce, Handled, Resume, Given, Messages, Pending, Units
<1>2. QED
  BY <1>1, OthersCount, ConsumeCounts, FlushCounts, RestartCounts, ElasticCounts, BatchCounts
     DEF Next, Streaming, Elastic

------------------------------------------------------------------------------
(* Streaming and a batch race for a document.                              *)

\* The balance of RaceIsBounded, for what is written and for what may be.
Balance ==
    /\ outbox \subseteq table
    /\ \A u \in upserts \cup posted :
          u.race # NoRace =>
              u.count + ToCome(u.key) + u.race.missed = Rows(u.key) + u.race.over
    /\ RaceIsBounded

LEMMA Numbers == TypeOK => \A k \in Keys : Rows(k) \in Nat /\ ToCome(k) \in Nat
  BY RowsNumber, ToComeNumber

LEMMA NumbersNext == TypeOK' => (\A k \in Keys : Rows(k) \in Nat /\ ToCome(k) \in Nat)'
  BY Numbers, PTL

LEMMA InitBalance == Init => Balance
  BY DEF Init, Balance, RaceIsBounded

\* After a mishap nothing is said.
LEMMA MishapBalances == ASSUME TypeOK, Mishap, outbox' \subseteq table' PROVE Balance'
<1>1. \A u \in upserts' \cup posted' : u.race = NoRace
  <2> SUFFICES ASSUME NEW S \in SUBSET Upsert, NEW u \in Forget(S) PROVE u.race = NoRace
    BY DEF Mishap, TypeOK
  <2>1. PICK v \in S : u = [v EXCEPT !.race = NoRace]
    BY DEF Forget
  <2>2. QED
    BY <2>1 DEF Upsert
<1>2. \A k \in Keys : race'[k] = NoRace
  BY DEF Mishap
<1>3. QED
  BY <1>1, <1>2 DEF Balance, RaceIsBounded

\* What is added to the rows is added to what is to come, and nothing else happens.
LEMMA EvenBalances ==
    ASSUME TypeOK, TypeOK', Balance, UNCHANGED <<raceVars, index>>, outbox' \subseteq table',
           \A k \in Keys : ToCome(k)' + Rows(k) = ToCome(k) + Rows(k)'
    PROVE  Balance'
<1>1. \A k \in Keys : /\ Rows(k) \in Nat /\ ToCome(k) \in Nat
                      /\ Rows(k)' \in Nat /\ ToCome(k)' \in Nat
  BY Numbers, NumbersNext
<1>2. \A u \in upserts \cup posted :
         u.key \in Keys /\ u.count \in Nat /\ u.race \in Race \cup {NoRace}
  BY DEF TypeOK, Upsert
<1>3. \A k \in Keys : index[k] \in Nat /\ race[k] \in Race \cup {NoRace}
  BY DEF TypeOK
<1>4. ASSUME NEW u \in upserts \cup posted, u.race # NoRace
      PROVE  u.count + ToCome(u.key)' + u.race.missed = Rows(u.key)' + u.race.over
  <2>1. u.race.missed \in Nat /\ u.race.over \in Nat
    BY <1>2, <1>4 DEF Race
  <2>2. u.count + ToCome(u.key) + u.race.missed = Rows(u.key) + u.race.over
    BY <1>4 DEF Balance
  <2>3. ToCome(u.key)' + Rows(u.key) = ToCome(u.key) + Rows(u.key)'
    BY <1>2
  <2>4. QED
    BY <1>1, <1>2, <2>1, <2>2, <2>3
<1>5. ASSUME NEW k \in Keys, race[k] # NoRace
      PROVE  index[k] + ToCome(k)' + race[k].missed = Rows(k)' + race[k].over
  <2>1. race[k].missed \in Nat /\ race[k].over \in Nat
    BY <1>3, <1>5 DEF Race
  <2>2. index[k] + ToCome(k) + race[k].missed = Rows(k) + race[k].over
    BY <1>5 DEF Balance, RaceIsBounded
  <2>3. QED
    BY <1>1, <1>3, <2>1, <2>2
<1>6. QED
  BY <1>4, <1>5 DEF Balance, RaceIsBounded, raceVars

\* A row comes with a message.
LEMMA StoreBalances ==
    ASSUME TypeOK, TypeOK', Balance, NEW e \in Events, Store(e) PROVE Balance'
<1> USE DEF storeVars, consumerVars, streamingVars, batchVars, historyVars
<1>1. /\ UNCHANGED <<topic, committed, position, map, flight, raceVars, index>>
      /\ table' = table \cup {e} /\ outbox' = outbox \cup {e} /\ e \notin table /\ e \notin outbox
  BY DEF Store, Balance
<1>2. ASSUME NEW k \in Keys PROVE ToCome(k)' + Rows(k) = ToCome(k) + Rows(k)'
  <2> DEFINE one == IF KeyOf[e] = k THEN 1 ELSE 0
             rows == {x \in table : KeyOf[x] = k}
             out == {x \in outbox : KeyOf[x] = k}
  <2>1. IsFiniteSet(rows) /\ IsFiniteSet(out)
    BY SetsAssumption, FS_Subset DEF TypeOK
  <2>2. /\ {x \in table' : KeyOf[x] = k} = IF KeyOf[e] = k THEN rows \cup {e} ELSE rows
        /\ {x \in outbox' : KeyOf[x] = k} = IF KeyOf[e] = k THEN out \cup {e} ELSE out
        /\ e \notin rows /\ e \notin out
    BY <1>1
  <2>3. /\ Rows(k) = Cardinality(rows)
        /\ Rows(k)' = Cardinality({x \in table' : KeyOf[x] = k})
        /\ ToCome(k) = Cardinality(out) + Messages(k, Handled, Len(topic)) + Pending(k)
        /\ ToCome(k)' = Cardinality({x \in outbox' : KeyOf[x] = k})
                           + Messages(k, Handled, Len(topic)) + Pending(k)
    BY <1>1 DEF Rows, ToCome, Messages, Handled, Resume, Pending, Units
  <2> HIDE DEF rows, out
  <2>4. /\ Cardinality(rows) \in Nat /\ Cardinality(out) \in Nat
        /\ Cardinality(rows \cup {e}) = Cardinality(rows) + 1
        /\ Cardinality(out \cup {e}) = Cardinality(out) + 1
    BY <2>1, <2>2, FS_AddElement, FS_CardinalityType
  <2>5. /\ Rows(k)' = Cardinality(rows) + one
        /\ ToCome(k)' = Cardinality(out) + one + Messages(k, Handled, Len(topic)) + Pending(k)
    <3>1. CASE KeyOf[e] = k
      <4>1. /\ Rows(k)' = Cardinality(rows \cup {e})
            /\ ToCome(k)' = Cardinality(out \cup {e}) + Messages(k, Handled, Len(topic))
                               + Pending(k)
        BY <2>2, <2>3, <3>1
      <4>2. QED
        BY <2>4, <3>1, <4>1
    <3>2. CASE KeyOf[e] # k
      <4>1. /\ Rows(k)' = Cardinality(rows)
            /\ ToCome(k)' = Cardinality(out) + Messages(k, Handled, Len(topic)) + Pending(k)
        BY <2>2, <2>3, <3>2
      <4>2. QED
        BY <2>4, <3>2, <4>1
    <3>3. QED
      BY <3>1, <3>2
  <2>6. Messages(k, Handled, Len(topic)) \in Nat /\ Pending(k) \in Nat
    BY ToComeNumber
  <2>7. QED
    BY <2>3, <2>4, <2>5, <2>6
<1>3. outbox' \subseteq table'
  BY <1>1 DEF Balance
<1>4. QED
  BY <1>1, <1>2, <1>3, EvenBalances

\* The message reaches a topic that is read, for the last time.
LEMMA DeliverBalances ==
    ASSUME TypeOK, TypeOK', Balance, NEW e \in Events, Deliver(e), UNCHANGED raceVars,
           position # NoOffset, outbox' = outbox \ {e}
    PROVE  Balance'
<1> USE DEF storeVars, consumerVars, streamingVars, batchVars, historyVars
<1>1. /\ UNCHANGED <<table, committed, position, map, flight, index>>
      /\ topic' = Append(topic, e) /\ e \in outbox
  BY DEF Deliver
<1>2. /\ Len(topic) \in Nat /\ Len(topic') = Len(topic) + 1 /\ topic'[Len(topic) + 1] = e
      /\ \A o \in 1..Len(topic) : topic'[o] = topic[o]
  BY <1>1, LenProperties, AppendProperties DEF TypeOK
<1>3. Handled \in 0..Len(topic) /\ Handled' = Handled
  BY <1>1, OffsetsInTopic DEF Handled
<1>4. ASSUME NEW k \in Keys PROVE ToCome(k)' = ToCome(k) /\ Rows(k)' = Rows(k)
  <2> DEFINE one == IF KeyOf[e] = k THEN 1 ELSE 0
             out == {x \in outbox : KeyOf[x] = k}
             old == {o \in (Handled + 1)..Len(topic) : KeyOf[topic[o]] = k}
             new == {o \in (Handled + 1)..(Len(topic) + 1) : KeyOf[topic'[o]] = k}
  <2>1. IsFiniteSet(out)
    BY SetsAssumption, FS_Subset DEF TypeOK
  <2>2. IsFiniteSet(old)
    <3>0. Handled + 1 \in Int /\ Len(topic) \in Int
      BY <1>2, <1>3
    <3>1. IsFiniteSet((Handled + 1)..Len(topic))
      BY <3>0, FS_Interval
    <3>2. QED
      BY <3>1, FS_Subset
  <2>3. /\ {x \in outbox' : KeyOf[x] = k} = IF KeyOf[e] = k THEN out \ {e} ELSE out
        /\ KeyOf[e] = k => e \in out
    BY <1>1
  <2>4. new = (IF KeyOf[e] = k THEN old \cup {Len(topic) + 1} ELSE old)
    <3>1. (Handled + 1)..(Len(topic) + 1) = ((Handled + 1)..Len(topic)) \cup {Len(topic) + 1}
      BY <1>2, <1>3
    <3>2. \A o \in (Handled + 1)..Len(topic) : topic'[o] = topic[o]
      BY <1>2, <1>3
    <3>3. QED
      BY <1>2, <3>1, <3>2
  <2>5. Len(topic) + 1 \notin old
    BY <1>2
  <2>6. /\ ToCome(k) = Cardinality(out) + Cardinality(old) + Pending(k)
        /\ ToCome(k)' = Cardinality({x \in outbox' : KeyOf[x] = k}) + Cardinality(new)
                           + Pending(k)
    BY <1>1, <1>2, <1>3 DEF ToCome, Messages, Pending, Units
  <2> HIDE DEF out, old, new
  <2>7. /\ Cardinality(out) \in Nat /\ Cardinality(old) \in Nat
        /\ Cardinality(old \cup {Len(topic) + 1}) = Cardinality(old) + 1
        /\ e \in out => Cardinality(out \ {e}) = Cardinality(out) - 1
    BY <2>1, <2>2, <2>5, FS_AddElement, FS_RemoveElement, FS_CardinalityType
  <2>8. Pending(k) \in Nat
    BY ToComeNumber
  <2>9. ToCome(k)' = ToCome(k)
    <3>1. CASE KeyOf[e] = k
      <4>1. /\ ToCome(k)' = Cardinality(out \ {e}) + Cardinality(old \cup {Len(topic) + 1})
                               + Pending(k)
            /\ e \in out
        BY <2>3, <2>4, <2>6, <3>1
      <4>2. QED
        BY <2>6, <2>7, <2>8, <4>1
    <3>2. CASE KeyOf[e] # k
      BY <2>3, <2>4, <2>6, <3>2
    <3>3. QED
      BY <3>1, <3>2
  <2>10. QED
    BY <1>1, <2>9 DEF Rows
<1>5. outbox' \subseteq table'
  BY <1>1 DEF Balance
<1>6. \A k \in Keys : ToCome(k)' + Rows(k) = ToCome(k) + Rows(k)'
  BY <1>4
<1>7. QED
  BY <1>1, <1>5, <1>6, EvenBalances

\* The streaming process moves counts towards the index.
LEMMA StreamingBalances ==
    ASSUME TypeOK, TypeOK', Numbered, Balance, Streaming, ~Mishap PROVE Balance'
<1> USE DEF storeVars, consumerVars, streamingVars, batchVars, historyVars
<1>1. /\ UNCHANGED <<table, outbox, topic, index, raceVars>>
      /\ outbox' \subseteq table'
  BY DEF Streaming, Assign, Consume, Commit, Flush, Restart, Balance
<1>2. \A k \in Keys : Rows(k)' = Rows(k)
  BY <1>1 DEF Rows
<1>3. Len(topic) \in Nat /\ Resume \in 0..Len(topic) /\ Handled \in 0..Len(topic)
  BY OffsetsInTopic
<1>4. ASSUME NEW k \in Keys PROVE ToCome(k)' = ToCome(k)
  <2>1. CASE Assign \/ Commit
    <3>1. Handled' = Handled
      BY <1>3, <2>1, NoOffsetAssumption DEF Assign, Commit, Handled
    <3>2. map' = map /\ flight' = flight
      BY <2>1 DEF Assign, Commit
    <3>3. QED
      BY <1>1, <3>1, <3>2 DEF ToCome, Messages, Pending, Units
  <2>2. CASE Consume
    <3>1. /\ position \in Nat /\ position + 1 \in 1..Len(topic)
          /\ Handled = position /\ Handled' = position + 1
      BY <2>2, ConsumeSteps
    <3>2. Pending(k)' = Pending(k) + Messages(k, position, position + 1) /\ Pending(k) \in Nat
      BY <2>2, ConsumeMoves, ToComeNumber
    <3>3. /\ Messages(k, position, position + 1) \in Nat
          /\ Messages(k, position + 1, Len(topic)) \in Nat
      BY <1>3, <3>1, MessagesNumber
    <3>4. Messages(k, position, position + 1) + Messages(k, position + 1, Len(topic))
             = Messages(k, position, Len(topic))
      BY <1>3, <3>1, MessagesAdd
    <3>5. Messages(k, Handled, Len(topic))' = Messages(k, position + 1, Len(topic))
      BY <1>1, <3>1 DEF Messages
    <3>6. Cardinality({e \in outbox : KeyOf[e] = k}) \in Nat
      BY OutboxNumber
    <3>7. ToCome(k)' = Cardinality({e \in outbox : KeyOf[e] = k})
                         + Messages(k, position + 1, Len(topic))
                         + (Pending(k) + Messages(k, position, position + 1))
      BY <1>1, <3>2, <3>5 DEF ToCome
    <3>8. ToCome(k) = Cardinality({e \in outbox : KeyOf[e] = k})
                         + Messages(k, position, Len(topic)) + Pending(k)
      BY <3>1 DEF ToCome
    <3>9. QED
      BY <3>2, <3>3, <3>4, <3>6, <3>7, <3>8
  <2>3. CASE Flush
    <3>1. Pending(k)' = Pending(k)
      BY <2>3, FlushMoves DEF Flush
    <3>2. Handled' = Handled
      BY <2>3 DEF Flush, Handled, Resume
    <3>3. QED
      BY <1>1, <3>1, <3>2 DEF ToCome, Messages
  <2>4. QED
    BY <2>1, <2>2, <2>3 DEF Streaming, Restart
<1>5. \A k \in Keys : ToCome(k)' + Rows(k) = ToCome(k) + Rows(k)'
  BY <1>2, <1>4
<1>6. QED
  BY <1>1, <1>5, EvenBalances

\* An increment reaches the document, and is missed by what a batch has read before.
LEMMA ApplyBalances ==
    ASSUME TypeOK, TypeOK', Balance, NEW i \in flight, Apply(i) PROVE Balance'
<1> USE DEF storeVars, consumerVars, streamingVars, batchVars, historyVars
<1>1. /\ UNCHANGED <<table, outbox, topic, committed, position, race>>
      /\ index' = [index EXCEPT ![i.key] = @ + i.count]
      /\ upserts' = Missing(upserts, i) /\ posted' = Missing(posted, i)
  BY DEF Apply
<1>2. \A k \in Keys : Rows(k)' = Rows(k) /\ Rows(k) \in Nat
  BY <1>1, Numbers DEF Rows
<1>3. ASSUME NEW k \in Keys
      PROVE  /\ ToCome(k) \in Nat /\ ToCome(k)' \in Nat /\ i.count \in Nat
             /\ ToCome(k) = ToCome(k)' + (IF i.key = k THEN i.count ELSE 0)
  <2>1. /\ i.count \in Nat /\ Pending(k)' \in Nat
        /\ Pending(k) = Pending(k)' + (IF i.key = k THEN i.count ELSE 0)
    BY ElasticMoves
  <2>2. /\ Cardinality({e \in outbox : KeyOf[e] = k}) \in Nat
        /\ Messages(k, Handled, Len(topic)) \in Nat
    BY OutboxNumber, ToComeNumber
  <2>3. /\ ToCome(k) = Cardinality({e \in outbox : KeyOf[e] = k})
                          + Messages(k, Handled, Len(topic)) + Pending(k)
        /\ ToCome(k)' = Cardinality({e \in outbox : KeyOf[e] = k})
                          + Messages(k, Handled, Len(topic)) + Pending(k)'
    BY <1>1 DEF ToCome, Messages, Handled, Resume
  <2>4. QED
    BY <2>1, <2>2, <2>3
<1>4. ASSUME NEW u \in upserts' \cup posted', u.race # NoRace
      PROVE  u.count + ToCome(u.key)' + u.race.missed = Rows(u.key)' + u.race.over
  <2>1. PICK v \in upserts \cup posted :
           u = IF v.key = i.key /\ v.race # NoRace
               THEN [v EXCEPT !.race.missed = @ + i.count] ELSE v
    BY <1>1 DEF Missing
  <2>2. v \in Upsert /\ v.key \in Keys /\ v.count \in Nat
    BY DEF TypeOK, Upsert
  <2>3. v.race # NoRace
    BY <1>4, <2>1
  <2>4. v.race \in Race /\ v.race.missed \in Nat /\ v.race.over \in Nat
    BY <2>2, <2>3 DEF Upsert, Race
  <2>5. v.count + ToCome(v.key) + v.race.missed = Rows(v.key) + v.race.over
    BY <2>3 DEF Balance
  <2>6. CASE v.key = i.key
    <3>1. u = [v EXCEPT !.race = [v.race EXCEPT !.missed = v.race.missed + i.count]]
      BY <2>1, <2>2, <2>3, <2>4, <2>6 DEF Upsert, Race
    <3>2. /\ u.key = v.key /\ u.count = v.count
          /\ u.race = [v.race EXCEPT !.missed = v.race.missed + i.count]
      BY <2>2, <3>1 DEF Upsert
    <3>3. u.race.missed = v.race.missed + i.count /\ u.race.over = v.race.over
      BY <2>4, <3>2 DEF Race
    <3>4. ToCome(v.key) = ToCome(v.key)' + i.count
      BY <1>3, <2>2, <2>6
    <3>5. QED
      BY <1>2, <1>3, <2>2, <2>4, <2>5, <3>2, <3>3, <3>4
  <2>7. CASE v.key # i.key
    <3>1. u = v
      BY <2>1, <2>7
    <3>2. ToCome(v.key) = ToCome(v.key)'
      BY <1>3, <2>2, <2>7
    <3>3. QED
      BY <1>2, <2>2, <2>5, <3>1, <3>2
  <2>8. QED
    BY <2>6, <2>7
<1>5. ASSUME NEW k \in Keys, race[k] # NoRace
      PROVE  index'[k] + ToCome(k)' + race[k].missed = Rows(k)' + race[k].over
  <2>1. race[k] \in Race /\ race[k].missed \in Nat /\ race[k].over \in Nat
    BY <1>5 DEF TypeOK, Race
  <2>2. index[k] + ToCome(k) + race[k].missed = Rows(k) + race[k].over
    BY <1>5 DEF Balance, RaceIsBounded
  <2>3. index[k] \in Nat /\ index'[k] = index[k] + (IF i.key = k THEN i.count ELSE 0)
    <3>1. i.key \in Keys /\ i.count \in Nat
      BY DEF TypeOK, Increment
    <3>2. index[k] \in Nat /\ index[i.key] \in Nat
      BY <3>1 DEF TypeOK
    <3>3. index'[k] = IF i.key = k THEN index[i.key] + i.count ELSE index[k]
      BY <1>1, <3>1 DEF TypeOK
    <3>4. QED
      BY <3>1, <3>2, <3>3
  <2>4. QED
    BY <1>2, <1>3, <2>1, <2>2, <2>3
<1>6. QED
  BY <1>1, <1>4, <1>5 DEF Balance, RaceIsBounded

\* The batch reads the rows, and writes what it has read.
LEMMA BatchBalances == ASSUME TypeOK, Balance, Batch PROVE Balance'
<1>1. \A k \in Keys : ToCome(k)' = ToCome(k) /\ Rows(k)' = Rows(k)
  BY BatchLeaves DEF ToCome, Rows, Messages, Pending, Units, Handled, Resume, storeVars,
     consumerVars, streamingVars
<1>2. outbox' \subseteq table'
  BY BatchLeaves DEF Balance, storeVars
<1>3. /\ \A u \in upserts \cup posted : u.key \in Keys
      /\ \A u \in upserts \cup posted :
            u.race # NoRace =>
                u.count + ToCome(u.key) + u.race.missed = Rows(u.key) + u.race.over
  BY DEF TypeOK, Upsert, Balance
<1>4. ASSUME UNCHANGED <<index, race>>,
             \A u \in upserts' \cup posted' :
                \/ \E v \in upserts \cup posted :
                      u.key = v.key /\ u.count = v.count /\ u.race = v.race
                \/ /\ u.key \in Keys
                   /\ u.count + ToCome(u.key) + u.race.missed = Rows(u.key) + u.race.over
      PROVE  Balance'
  <2>1. \A u \in upserts' \cup posted' :
           u.race # NoRace =>
               u.count + ToCome(u.key)' + u.race.missed = Rows(u.key)' + u.race.over
    BY <1>1, <1>3, <1>4
  <2>2. RaceIsBounded'
    BY <1>1, <1>4 DEF Balance, RaceIsBounded
  <2>3. QED
    BY <1>2, <2>1, <2>2 DEF Balance
<1>5. CASE BatchRead
  <2>1. ASSUME NEW u \in upserts'
        PROVE  /\ u.key \in Keys
               /\ u.count + ToCome(u.key) + u.race.missed = Rows(u.key) + u.race.over
    <3>1. u.key \in Keys
      BY <1>5, ReadItems DEF Upsert
    <3>2. u.count = Rows(u.key) /\ u.race = [over |-> ToCome(u.key), missed |-> 0]
      BY <1>5, ReadItems
    <3>3. u.race.over = ToCome(u.key) /\ u.race.missed = 0
      BY <3>2
    <3>4. Rows(u.key) \in Nat /\ ToCome(u.key) \in Nat
      BY <3>1, Numbers
    <3>5. QED
      BY <3>1, <3>2, <3>3, <3>4
  <2>2. posted' = posted /\ index' = index /\ race' = race
    BY <1>5 DEF BatchRead
  <2>3. QED
    BY <1>4, <2>1, <2>2
<1>6. CASE BatchPost
  <2>1. \A u \in posted' : u \notin posted =>
           \E v \in upserts : u.key = v.key /\ u.count = v.count /\ u.race = v.race
    BY <1>6, PostedItems
  <2>2. upserts' = {} /\ index' = index /\ race' = race
    BY <1>6 DEF BatchPost
  <2>3. QED
    BY <1>4, <2>1, <2>2
<1>7. CASE BatchEnd
  BY <1>4, <1>7 DEF BatchEnd
<1>8. ASSUME NEW u \in posted, BatchFail(u) PROVE Balance'
  BY <1>4, <1>8 DEF BatchFail
<1>9. ASSUME NEW u \in posted, BatchWrite(u) PROVE Balance'
  <2>1. /\ posted' \subseteq posted /\ upserts' = upserts
        /\ index' = [index EXCEPT ![u.key] = u.count]
        /\ race' = [race EXCEPT ![u.key] = u.race]
    BY <1>9 DEF BatchWrite, Written
  <2>2. \A v \in upserts' \cup posted' :
           v.race # NoRace =>
               v.count + ToCome(v.key)' + v.race.missed = Rows(v.key)' + v.race.over
    BY <1>1, <1>3, <2>1
  <2>3. ASSUME NEW k \in Keys, race'[k] # NoRace
        PROVE  index'[k] + ToCome(k)' + race'[k].missed = Rows(k)' + race'[k].over
    <3>1. CASE k = u.key
      <4>1. index'[k] = u.count /\ race'[k] = u.race
        BY <2>1, <3>1 DEF TypeOK
      <4>2. QED
        BY <1>1, <1>3, <2>3, <3>1, <4>1
    <3>2. CASE k # u.key
      <4>1. index'[k] = index[k] /\ race'[k] = race[k]
        BY <2>1, <3>2 DEF TypeOK
      <4>2. QED
        BY <1>1, <2>3, <4>1 DEF Balance, RaceIsBounded
    <3>3. QED
      BY <3>1, <3>2
  <2>4. QED
    BY <1>2, <2>2, <2>3 DEF Balance, RaceIsBounded
<1>10. QED
  BY <1>5, <1>6, <1>7, <1>8, <1>9 DEF Batch

LEMMA NextBalances == TypeOK /\ TypeOK' /\ Numbered /\ Balance /\ [Next]_vars => Balance'
<1> SUFFICES ASSUME TypeOK, TypeOK', Numbered, Balance, [Next]_vars PROVE Balance'
  OBVIOUS
<1>1. CASE Mishap
  <2>1. outbox' \subseteq table'
    <3>1. Source \/ UNCHANGED storeVars \/ Clock
      BY BatchLeaves DEF Next, Streaming, Assign, Consume, Commit, Flush, Restart,
         Elastic, Apply, Fail, vars
    <3>2. QED
      BY <3>1 DEF Source, Store, Deliver, GiveUp, Clock, Tick, storeVars, Balance
  <2>2. QED
    BY <1>1, <2>1, MishapBalances
<1>2. ASSUME NEW e \in Events, ~Mishap, Store(e) \/ Deliver(e) \/ GiveUp(e) PROVE Balance'
  <2>1. CASE Store(e)
    BY <2>1, StoreBalances
  <2>2. CASE Deliver(e)
    <3>1. UNCHANGED raceVars /\ position # NoOffset /\ outbox' = outbox \ {e}
      BY <1>2, <2>2 DEF Deliver
    <3>2. QED
      BY <2>2, <3>1, DeliverBalances
  <2>3. QED
    BY <1>2, <2>1, <2>2 DEF GiveUp
<1>3. ASSUME UNCHANGED <<storeVars, topic, consumerVars, streamingVars, index, raceVars>>
               \/ Clock
      PROVE  Balance'
  <2>1. UNCHANGED <<table, outbox, topic, consumerVars, streamingVars, index, raceVars>>
    BY <1>3 DEF Clock, Tick, storeVars
  <2>2. \A k \in Keys : ToCome(k)' = ToCome(k) /\ Rows(k)' = Rows(k)
    BY <2>1 DEF ToCome, Rows, Messages, Pending, Units, Handled, Resume, consumerVars,
       streamingVars
  <2>3. \A k \in Keys : ToCome(k)' + Rows(k) = ToCome(k) + Rows(k)'
    BY <2>2
  <2>4. outbox' \subseteq table' /\ UNCHANGED <<raceVars, index>>
    BY <2>1 DEF Balance
  <2>5. QED
    BY <2>3, <2>4, EvenBalances
<1>4. CASE UNCHANGED vars
  BY <1>3, <1>4 DEF vars
<1>5. ASSUME ~Mishap, Elastic PROVE Balance'
  BY <1>5, ApplyBalances DEF Elastic, Fail
<1>6. QED
  BY <1>1, <1>2, <1>3, <1>4, <1>5, StreamingBalances, BatchBalances DEF Next, Source

------------------------------------------------------------------------------

\* The inductive invariant.
THEOREM Invariance == Spec => []IInv
<1>1. Init => IInv
  BY InitType, InitHealing DEF IInv
<1>2. IInv /\ [Next]_vars => IInv'
  BY NextType, NextHeals DEF IInv
<1>3. QED
  BY <1>1, <1>2, PTL DEF Spec

\* Every reachable state has the right types.
THEOREM TypeCorrect == Spec => []TypeOK
  BY Invariance, PTL DEF IInv

\* A document a batch wrote for a key about which nothing was under way holds the
\* number of rows from then on: neither streaming's increments (streaming.rs:96-145),
\* nor later runs, nor the upserts of runs that have failed or ended, which may be
\* applied at any time after them (batch.rs:102-107), disturb it, whatever crashed,
\* failed or was torn before.
THEOREM HealingLasts == Spec => []HealedStays
  BY Invariance, PTL DEF IInv

\* Streaming's counts and those that do not touch it.
THEOREM CountingInvariance == Spec => [](TypeOK /\ Counting /\ Balance)
<1>1. Init => TypeOK /\ Counting /\ Balance
  BY InitType, InitCounting, InitBalance
<1>2. TypeOK /\ Counting /\ Balance /\ [Next]_vars => TypeOK' /\ Counting' /\ Balance'
  BY NextType, NextCounts, NextBalances DEF Counting
<1>3. QED
  BY <1>1, <1>2, PTL DEF Spec

\* As long as no batch has run and every bulk fitted the buffer, no message is
\* counted by two flushes or falls between them (streaming.rs: the map is sent
\* and cleared under one lock of it), whatever is delivered twice or late.
THEOREM NothingCountedTwice == Spec => []CountedOnce
<1>1. TypeOK /\ Counting /\ Balance => CountedOnce
  BY DEF Counting
<1>2. QED
  BY <1>1, CountingInvariance, PTL

\* Whatever order increments and upserts of the same document are applied in, and
\* however many runs of the batch overlap with streaming, the document is off its
\* rows by no more than what raced (streaming.rs:96-145, batch.rs:73-110).
THEOREM RaceCostsWhatRaced == Spec => []RaceIsBounded
<1>1. TypeOK /\ Counting /\ Balance => RaceIsBounded
  BY DEF Balance
<1>2. QED
  BY <1>1, CountingInvariance, PTL

=============================================================================
