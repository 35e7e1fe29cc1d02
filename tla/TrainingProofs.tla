--------------------------- MODULE TrainingProofs ---------------------------
(***************************************************************************)
(* Proofs about Training, for any story of events, any function from       *)
(* groups to ids, any number of failures and batch runs.                   *)
(*                                                                         *)
(* That a document is off by what raced with a batch rests on where a      *)
(* message can be (Whereabouts): it is coming, or at one place of the      *)
(* share, and a micro-batch consists of messages that were taken.  So the  *)
(* events of a micro-batch, those still to be taken and those still coming *)
(* are disjoint, and what a write adds to a document is what it takes from *)
(* the events under way (WriteTakes), whatever other groups have its id.   *)
(* A batch write sets the count to that of another set of events than      *)
(* streaming's, and how far they are apart is what is extra and lost.      *)
(*                                                                         *)
(* That the newest property wins is carried from the events of a document  *)
(* to those and a micro-batch of later ones (LaterWins).  A document that  *)
(* is not in the index has no events: here the counts are needed.          *)
(***************************************************************************)
EXTENDS Training, FiniteSetTheorems, SequenceTheorems, TLAPS

\* Where messages are.
Whereabouts ==
    /\ stored \in 0..Len(Tracked)
    /\ coming \subseteq 1..stored
    /\ share \in Seq(1..stored)
    /\ \A i, j \in 1..Len(share) : share[i] = share[j] => i = j
    /\ \A i \in 1..Len(share) : share[i] \notin coming
    /\ position \in 0..Len(share)
    /\ committed = None \/ committed \in 0..Len(share)
    /\ batch \subseteq {share[i] : i \in 1..position}
    /\ batch \subseteq Read(batch)
    /\ todo \subseteq Groups(batch)

\* What documents, ids and the batch job look like.
Forms ==
    /\ table \in 0..stored
    /\ ordered \subseteq sure /\ sure \subseteq Ids(Events)
    /\ extra \in [Ids(Events) -> SUBSET (1..stored)]
    /\ lost \in [Ids(Events) -> SUBSET (1..stored)]
    /\ \A k \in ordered : extra[k] = {} /\ lost[k] = {}
    /\ rest \subseteq Groups(1..table)
    /\ \A k \in DOMAIN index : index[k].count \in Nat

\* What NewestWins says of a document.
WinsAt(u) ==
    /\ Newest(Done(u), "email") # Empty => index[u].email = Newest(Done(u), "email")
    /\ index[u].date = Max(Done(u))

\* What CountsAgree says of a document.
AgreesAt(k) ==
    Counted(k) + Cardinality(UnderWay(k)) + Cardinality(lost[k])
        = Cardinality(Rows(k)) + Cardinality(extra[k])

IInv == Whereabouts /\ Forms /\ CountsAgree /\ NewestWins

------------------------------------------------------------------------------
(* Sets of events.                                                         *)

\* Two disjoint sets of numbers up to n are counted apart.
LEMMA CountedApart ==
    ASSUME NEW n \in Nat, NEW S, NEW T, S \subseteq 1..n, T \subseteq 1..n, S \cap T = {}
    PROVE  /\ Cardinality(S) \in Nat
           /\ Cardinality(T) \in Nat
           /\ Cardinality(S \cup T) = Cardinality(S) + Cardinality(T)
<1>1. IsFiniteSet(1..n)
  BY FS_Interval
<1>2. IsFiniteSet(S) /\ IsFiniteSet(T)
  BY <1>1, FS_Subset
<1>3. /\ Cardinality(S) \in Nat
      /\ Cardinality(T) \in Nat
  BY <1>2, FS_CardinalityType
<1>4. Cardinality(S \cap T) = 0
  BY FS_EmptySet
<1>5. Cardinality(S \cup T) = Cardinality(S) + Cardinality(T) - Cardinality(S \cap T)
  BY <1>2, FS_Union
<1>6. QED
  BY <1>3, <1>4, <1>5

\* A finite set of numbers has a greatest one.
LEMMA MaxExists ==
    ASSUME NEW S, S \subseteq Nat, IsFiniteSet(S), S # {}
    PROVE  Max(S) \in S /\ \A y \in S : y <= Max(S)
<1> DEFINE above == {{y \in S : y > x} : x \in S}
           R == StrictSubsetOrdering(S)
<1>1. IsWellFoundedOn(R, SUBSET S)
  BY FS_FiniteSubsetsOfFinite, FS_StrictSubsetOrderingWellFounded
<1>2. above \subseteq SUBSET S /\ above # {}
  OBVIOUS
<1>3. PICK a \in above : \A b \in above : ~(<<b, a>> \in R)
  <2> HIDE DEF above, R
  <2>1. QED
    BY <1>1, <1>2, WFMin
<1>4. PICK x \in S : a = {y \in S : y > x}
  BY <1>3
<1>5. ASSUME NEW y \in S, y > x PROVE FALSE
  <2>1. {z \in S : z > y} \in above
    OBVIOUS
  <2>2. y \in a /\ y \notin {z \in S : z > y}
    BY <1>4, <1>5
  <2>3. ASSUME NEW z \in S, z > y PROVE z > x
    BY <1>5, <2>3
  <2>4. {z \in S : z > y} \subseteq a
    BY <1>4, <2>3
  <2>5. <<{z \in S : z > y}, a>> \in R
    BY <2>2, <2>4, <1>2 DEF StrictSubsetOrdering
  <2>6. QED
    BY <1>3, <2>1, <2>5
<1>6. \A y \in S : x >= y
  BY <1>5
<1>7. QED
  BY <1>4, <1>6 DEF Max

\* There is one greatest number.
LEMMA MaxUnique ==
    ASSUME NEW S, S \subseteq Nat, NEW x \in S, \A y \in S : y <= x
    PROVE  Max(S) = x
<1>1. Max(S) \in S /\ \A y \in S : Max(S) >= y
  BY DEF Max
<1>2. Max(S) \in Nat /\ x \in Nat /\ Max(S) <= x /\ x <= Max(S)
  BY <1>1
<1>3. QED
  BY <1>2

\* All of A come before all of B.
Before(A, B) == \A a \in A, b \in B : a < b

\* The greatest of earlier and later numbers is that of the later ones.
LEMMA MaxOfLater ==
    ASSUME NEW A, NEW B, A \subseteq Nat, B \subseteq Nat, IsFiniteSet(B), B # {},
           Before(A, B)
    PROVE  Max(A \cup B) = Max(B)
<1> DEFINE last == Max(B)
<1>1. last \in B /\ \A y \in B : y <= last
  BY MaxExists
<1> HIDE DEF last
<1>2. last \in Nat
  BY <1>1
<1>3. \A y \in A : y <= last
  BY <1>1, <1>2 DEF Before
<1>4. /\ A \cup B \subseteq Nat
      /\ last \in A \cup B
      /\ \A y \in A \cup B : y <= last
  BY <1>1, <1>2, <1>3
<1>5. Max(A \cup B) = last
  BY <1>4, MaxUnique
<1>6. QED
  BY <1>5 DEF last

\* A property is taken from the later events, or else from the earlier ones.
LEMMA LaterWins ==
    ASSUME NEW A, NEW B, A \subseteq Nat, B \subseteq Nat, IsFiniteSet(B),
           Before(A, B), NEW p
    PROVE  Newest(A \cup B, p) = OrElse(Newest(B, p), Newest(A, p))
<1> DEFINE early == {e \in A : Tracked[e][p] # None}
           late == {e \in B : Tracked[e][p] # None}
           all == {e \in A \cup B : Tracked[e][p] # None}
<1>1. all = early \cup late
  OBVIOUS
<1>2. /\ Newest(A, p) = IF early = {} THEN None ELSE Tracked[Max(early)][p]
      /\ Newest(B, p) = IF late = {} THEN None ELSE Tracked[Max(late)][p]
      /\ Newest(A \cup B, p) = IF all = {} THEN None ELSE Tracked[Max(all)][p]
  BY DEF Newest
<1>3. /\ early \subseteq Nat /\ late \subseteq Nat /\ late \subseteq B
      /\ Before(early, late)
      /\ \A e \in late : Tracked[e][p] # None
  BY DEF Before
<1> HIDE DEF early, late, all
<1>4. IsFiniteSet(late)
  BY <1>3, FS_Subset
<1>5. CASE late = {}
  BY <1>1, <1>2, <1>5 DEF OrElse
<1>6. CASE late # {}
  <2>1. Max(early \cup late) = Max(late)
    BY <1>3, <1>6, <1>4, MaxOfLater
  <2>2. Max(late) \in late
    BY <1>3, <1>6, <1>4, MaxExists
  <2>3. QED
    BY <1>1, <1>2, <1>3, <1>6, <2>1, <2>2 DEF OrElse
<1>7. QED
  BY <1>5, <1>6

\* A document counts the events it is trained from.
LEMMA TrainedCount ==
    ASSUME NEW k, NEW events PROVE Train(k, events).count = Cardinality(Of(k, events))
BY DEF Train, Profile

\* A profile is dated and addressed by the newest of them.
LEMMA TrainedNewest ==
    ASSUME job = "user", NEW k, NEW events
    PROVE  /\ Train(k, events).email = Newest(Of(k, events), "email")
           /\ Train(k, events).date = Max(Of(k, events))
BY DEF Train, Profile

\* There are as many events as were tracked.
LEMMA StoredTracked ==
    ASSUME stored \in 0..Len(Tracked) PROVE stored \in Nat /\ 1..stored \subseteq Events
<1>1. Len(Tracked) \in Nat
  BY TrackedAssumption, LenProperties
<1>2. QED
  BY <1>1 DEF Events

\* What is under way is in the table.
LEMMA UnderWayStored ==
    ASSUME Whereabouts, NEW k PROVE UnderWay(k) \subseteq Rows(k) /\ Rows(k) \subseteq 1..stored
<1>1. \A i \in 1..Len(share) : share[i] \in 1..stored
  BY ElementOfSeq DEF Whereabouts
<1>2. position \in Nat /\ Len(share) \in Nat /\ position <= Len(share)
  BY LenProperties DEF Whereabouts
<1>3. /\ coming \subseteq 1..stored
      /\ {share[i] : i \in (position + 1)..Len(share)} \subseteq 1..stored
      /\ batch \subseteq 1..stored
  BY <1>1, <1>2 DEF Whereabouts
<1>4. QED
  BY <1>3 DEF UnderWay, Rows, About, Read

\* All of them are counted by numbers.
LEMMA Numbers ==
    ASSUME Whereabouts, NEW k
    PROVE  Cardinality(UnderWay(k)) \in Nat /\ Cardinality(Rows(k)) \in Nat
<1>1. stored \in Nat
  BY StoredTracked DEF Whereabouts
<1>2. UnderWay(k) \subseteq 1..stored /\ Rows(k) \subseteq 1..stored
  BY UnderWayStored
<1>3. IsFiniteSet(1..stored)
  BY <1>1, FS_Interval
<1>4. IsFiniteSet(UnderWay(k)) /\ IsFiniteSet(Rows(k))
  BY <1>2, <1>3, FS_Subset
<1>5. QED
  BY <1>4, FS_CardinalityType

LEMMA RacedNumbers ==
    ASSUME Whereabouts, Forms, NEW k \in sure
    PROVE  Cardinality(lost[k]) \in Nat /\ Cardinality(extra[k]) \in Nat
<1>1. IsFiniteSet(1..stored)
  BY StoredTracked, FS_Interval DEF Whereabouts
<1>2. lost[k] \subseteq 1..stored /\ extra[k] \subseteq 1..stored
  BY DEF Forms
<1>3. IsFiniteSet(lost[k]) /\ IsFiniteSet(extra[k])
  BY <1>1, <1>2, FS_Subset
<1>4. QED
  BY <1>3, FS_CardinalityType

\* A document counts with a number.
LEMMA CountedNumber == ASSUME Forms, NEW k PROVE Counted(k) \in Nat
BY DEF Forms, Counted

\* The groups of events are those of the job followed.
LEMMA SameGroups ==
    ASSUME job' = job
    PROVE  /\ \A e : Group(e)' = Group(e)
           /\ \A g : Id(g)' = Id(g)
           /\ \A k : Rows(k)' = About(k, 1..stored')
           /\ \A k : UnderWay(k)' =
                       About(k, coming' \cup {share'[i] : i \in (position' + 1)..Len(share')}
                                       \cup {e \in batch' : Group(e) \in todo'})
           /\ Groups(batch)' = Groups(batch')
           /\ Read(batch)' = Read(batch')
           /\ Groups(1..table)' = Groups(1..table')
           /\ Ids(Events)' = Ids(Events)
<1>1. \A e : Group(e)' = Group(e)
  BY DEF Group
<1>2. \A g : Id(g)' = Id(g)
  BY DEF Id
<1>3. \A k : Rows(k)' = About(k, 1..stored')
  BY <1>1, <1>2 DEF Rows, About, Read
<1>4. \A k : UnderWay(k)' =
               About(k, coming' \cup {share'[i] : i \in (position' + 1)..Len(share')}
                               \cup {e \in batch' : Group(e) \in todo'})
  <2>1. ASSUME NEW k
        PROVE  UnderWay(k)' =
                 {e \in coming' \cup {share'[i] : i \in (position' + 1)..Len(share')}
                               \cup {e \in batch' : Group(e) \in todo'} :
                    /\ job = "count" => Tracked[e].price # Malformed
                    /\ Group(e) # None /\ Id(Group(e)) = k}
    BY <1>1, <1>2 DEF UnderWay, About, Read
  <2>2. QED
    BY <2>1 DEF About, Read
<1>5. Groups(batch)' = Groups(batch') /\ Groups(1..table)' = Groups(1..table')
  BY <1>1 DEF Groups
<1>6. Read(batch)' = Read(batch')
  BY DEF Read
<1>7. Ids(Events)' = Ids(Events)
  BY <1>1, <1>2 DEF Ids, Groups, Events
<1>8. QED
  BY <1>1, <1>2, <1>3, <1>4, <1>5, <1>6, <1>7

\* A document whose events have been dealt with stays right if it stays.
LEMMA WinsKept ==
    ASSUME NEW u, WinsAt(u), index'[u] = index[u], Done(u)' = Done(u)
    PROVE  WinsAt(u)'
BY DEF WinsAt, Newest, Max

\* A step that changes neither documents nor what is under way, and spoils ids
\* at most, keeps both properties.
LEMMA Kept ==
    ASSUME IInv, job' = job, sure' \subseteq sure, ordered' \subseteq ordered,
           ordered' \subseteq sure', extra' = extra, lost' = lost,
           \A k \in sure' : /\ k \in DOMAIN index' <=> k \in DOMAIN index
                            /\ k \in DOMAIN index => index'[k] = index[k]
                            /\ UnderWay(k)' = UnderWay(k)
                            /\ Rows(k)' = Rows(k)
    PROVE  CountsAgree' /\ NewestWins'
<1>1. \A k \in sure' : Counted(k)' = Counted(k)
  BY DEF Counted
<1>2. CountsAgree'
  BY <1>1 DEF IInv, CountsAgree
<1>3. ASSUME job' = "user", NEW u \in ordered' \cap DOMAIN index' PROVE WinsAt(u)'
  <2>1. u \in ordered \cap DOMAIN index /\ index'[u] = index[u]
    BY <1>3
  <2>2. WinsAt(u)
    BY <1>3, <2>1 DEF IInv, NewestWins, WinsAt
  <2>3. Done(u)' = Done(u)
    BY <1>3 DEF Done
  <2>4. QED
    BY <2>1, <2>2, <2>3, WinsKept
<1>4. NewestWins'
  BY <1>3 DEF NewestWins, WinsAt
<1>5. QED
  BY <1>2, <1>4

\* The form of what raced lasts as long as it does not change.
LEMMA FormsKept ==
    ASSUME Forms, job' = job, stored \in Nat, stored' \in Nat, stored <= stored',
           extra' = extra, lost' = lost, ordered' \subseteq ordered, sure' \subseteq sure
    PROVE  /\ sure' \subseteq Ids(Events)'
           /\ extra' \in [Ids(Events)' -> SUBSET (1..stored')]
           /\ lost' \in [Ids(Events)' -> SUBSET (1..stored')]
           /\ \A k \in ordered' : extra'[k] = {} /\ lost'[k] = {}
<1>1. 1..stored \subseteq 1..stored'
  OBVIOUS
<1>2. Ids(Events)' = Ids(Events)
  BY SameGroups
<1>3. QED
  BY <1>1, <1>2 DEF Forms

------------------------------------------------------------------------------
(* Initially.                                                              *)

LEMMA InitInv == Init => IInv
<1> SUFFICES ASSUME Init PROVE IInv
  OBVIOUS
<1>1. Whereabouts
  <2>1. share = <<>> /\ Len(share) = 0 /\ share \in Seq(1..stored)
    BY EmptySeq DEF Init
  <2>2. Len(Tracked) \in Nat
    BY TrackedAssumption, LenProperties
  <2>3. QED
    BY <2>1, <2>2 DEF Init, Whereabouts
<1>2. Forms
  BY DEF Init, Forms
<1>3. CountsAgree
  <2>1. \A k : Rows(k) = {} /\ UnderWay(k) = {}
    BY <1>1, UnderWayStored DEF Init, Rows, About, Read
  <2>2. \A k : Counted(k) = 0
    BY DEF Init, Counted
  <2>3. \A k \in sure : extra[k] = {} /\ lost[k] = {}
    BY DEF Init
  <2>4. QED
    BY <2>1, <2>2, <2>3, FS_EmptySet DEF CountsAgree
<1>4. NewestWins
  BY DEF Init, NewestWins
<1>5. QED
  BY <1>1, <1>2, <1>3, <1>4 DEF IInv

------------------------------------------------------------------------------
(* Storing and arriving.                                                   *)

\* An event that is stored is a row more, and one more under way.
LEMMA StoreKeeps == IInv /\ Store => IInv'
<1> SUFFICES ASSUME IInv, Store PROVE IInv'
  OBVIOUS
<1>0. /\ stored < Len(Tracked) /\ stored' = stored + 1
      /\ stored \in 0..Len(Tracked) /\ stored \in Nat
      /\ coming' = coming \cup {stored + 1}
      /\ UNCHANGED <<job, share, position, committed, batch, todo, index, table, rest,
                     sure, ordered, extra, lost>>
  BY StoredTracked DEF IInv, Whereabouts, Store, streamVars, batchVars, histories
<1>1. \A i \in 1..Len(share) : share[i] \in 1..stored
  BY ElementOfSeq DEF IInv, Whereabouts
<1>2. Whereabouts'
  <2>1. share' \in Seq(1..stored')
    <3>1. 1..stored \subseteq 1..stored'
      BY <1>0
    <3>2. QED
      BY <1>0, <3>1 DEF IInv, Whereabouts
  <2>2. todo' \subseteq Groups(batch)' /\ batch' \subseteq Read(batch)'
    BY <1>0, SameGroups DEF IInv, Whereabouts
  <2>3. coming' \subseteq 1..stored' /\ stored' \in 0..Len(Tracked)
    BY <1>0 DEF IInv, Whereabouts
  <2>4. \A i \in 1..Len(share') : share'[i] \notin coming'
    BY <1>0, <1>1 DEF IInv, Whereabouts
  <2>5. /\ \A i, j \in 1..Len(share') : share'[i] = share'[j] => i = j
        /\ position' \in 0..Len(share')
        /\ committed' = None \/ committed' \in 0..Len(share')
        /\ batch' \subseteq {share'[i] : i \in 1..position'}
    BY <1>0 DEF IInv, Whereabouts
  <2>6. QED
    BY <1>0, <2>1, <2>2, <2>3, <2>4, <2>5 DEF Whereabouts
<1>3. Forms'
  <2>1. /\ sure' \subseteq Ids(Events)'
        /\ extra' \in [Ids(Events)' -> SUBSET (1..stored')]
        /\ lost' \in [Ids(Events)' -> SUBSET (1..stored')]
        /\ \A k \in ordered' : extra'[k] = {} /\ lost'[k] = {}
    BY <1>0, FormsKept DEF IInv
  <2>2. QED
    BY <1>0, <2>1, SameGroups DEF IInv, Forms
<1>4. CountsAgree'
  <2> SUFFICES ASSUME NEW k \in sure PROVE AgreesAt(k)'
    BY <1>0 DEF CountsAgree, AgreesAt
  <2> DEFINE new == About(k, {stored + 1})
  <2>1. Counted(k)' = Counted(k) /\ extra'[k] = extra[k] /\ lost'[k] = lost[k]
    BY <1>0 DEF Counted
  <2>2. Rows(k)' = Rows(k) \cup new
    <3>1. 1..stored' = (1..stored) \cup {stored + 1}
      BY <1>0
    <3>2. QED
      BY <1>0, <3>1, SameGroups DEF Rows, About, Read
  <2>3. UnderWay(k)' = UnderWay(k) \cup new
    BY <1>0, SameGroups DEF UnderWay, About, Read
  <2>4. /\ UnderWay(k) \subseteq 1..stored
        /\ Rows(k) \subseteq 1..stored
        /\ new \subseteq {stored + 1}
    BY UnderWayStored DEF IInv, About, Read
  <2> HIDE DEF new
  <2>5. /\ Cardinality(UnderWay(k) \cup new) = Cardinality(UnderWay(k)) + Cardinality(new)
        /\ Cardinality(Rows(k) \cup new) = Cardinality(Rows(k)) + Cardinality(new)
        /\ Cardinality(new) \in Nat
    <3>1. /\ UnderWay(k) \subseteq 1..(stored + 1) /\ Rows(k) \subseteq 1..(stored + 1)
          /\ new \subseteq 1..(stored + 1)
          /\ UnderWay(k) \cap new = {} /\ Rows(k) \cap new = {}
          /\ stored + 1 \in Nat
      BY <1>0, <2>4
    <3>2. QED
      BY <3>1, CountedApart
  <2>6. AgreesAt(k)
    BY DEF IInv, CountsAgree, AgreesAt
  <2>7. /\ Counted(k) \in Nat
        /\ Cardinality(UnderWay(k)) \in Nat
        /\ Cardinality(Rows(k)) \in Nat
    BY CountedNumber, Numbers DEF IInv
  <2>8. Cardinality(lost[k]) \in Nat /\ Cardinality(extra[k]) \in Nat
    BY RacedNumbers DEF IInv
  <2>9. QED
    BY <2>1, <2>2, <2>3, <2>5, <2>6, <2>7, <2>8 DEF AgreesAt
<1>5. NewestWins'
  <2>1. ASSUME job' = "user", NEW u \in ordered' \cap DOMAIN index' PROVE WinsAt(u)'
    <3> DEFINE new == About(u, {stored + 1})
    <3>1. 1..stored' = (1..stored) \cup {stored + 1}
      BY <1>0
    <3>2. Rows(u)' = Rows(u) \cup new
      BY <1>0, <3>1, SameGroups DEF Rows, About, Read
    <3>3. UnderWay(u)' = UnderWay(u) \cup new
      BY <1>0, SameGroups DEF UnderWay, About, Read
    <3>4. Rows(u) \subseteq 1..stored /\ new \subseteq {stored + 1}
      BY UnderWayStored DEF IInv, About, Read
    <3> HIDE DEF new
    <3>5. Rows(u) \cap new = {}
      BY <1>0, <3>4
    <3>6. Done(u)' = Done(u)
      BY <3>2, <3>3, <3>5 DEF Done
    <3>7. WinsAt(u)
      BY <1>0, <2>1 DEF IInv, NewestWins, WinsAt
    <3>8. QED
      BY <1>0, <3>6, <3>7, WinsKept
  <2>2. QED
    BY <2>1 DEF NewestWins, WinsAt
<1>6. QED
  BY <1>2, <1>3, <1>4, <1>5 DEF IInv

\* An event that the job will not see spoils its document; the others do not change.
LEMMA StoreUnseenKeeps == IInv /\ StoreUnseen => IInv'
<1> SUFFICES ASSUME IInv, StoreUnseen PROVE IInv'
  OBVIOUS
<1> DEFINE spoilt == Ids(Read({stored + 1}))
<1>0. /\ stored < Len(Tracked) /\ stored' = stored + 1
      /\ stored \in 0..Len(Tracked) /\ stored \in Nat
      /\ sure' = sure \ spoilt /\ ordered' = ordered \ spoilt
      /\ UNCHANGED <<job, coming, share, position, committed, batch, todo, index, table,
                     rest, extra, lost>>
  BY StoredTracked DEF IInv, Whereabouts, StoreUnseen, Spoil, topicVars, streamVars, batchVars
<1>1. \A k \in sure' : k \notin spoilt
  BY <1>0
<1> HIDE DEF spoilt
<1>2. Whereabouts'
  <2>1. share' \in Seq(1..stored') /\ coming' \subseteq 1..stored' /\ stored' \in 0..Len(Tracked)
    <3>1. 1..stored \subseteq 1..stored'
      BY <1>0
    <3>2. QED
      BY <1>0, <3>1 DEF IInv, Whereabouts
  <2>2. todo' \subseteq Groups(batch)' /\ batch' \subseteq Read(batch)'
    BY <1>0, SameGroups DEF IInv, Whereabouts
  <2>3. QED
    BY <1>0, <2>1, <2>2 DEF IInv, Whereabouts
<1>3. Forms'
  <2>1. /\ sure' \subseteq Ids(Events)'
        /\ extra' \in [Ids(Events)' -> SUBSET (1..stored')]
        /\ lost' \in [Ids(Events)' -> SUBSET (1..stored')]
        /\ \A k \in ordered' : extra'[k] = {} /\ lost'[k] = {}
    BY <1>0, FormsKept DEF IInv
  <2>2. QED
    BY <1>0, <2>1, SameGroups DEF IInv, Forms
<1>4. CountsAgree' /\ NewestWins'
  <2>1. ASSUME NEW k \in sure' PROVE Rows(k)' = Rows(k)
    <3>1. 1..stored' = (1..stored) \cup {stored + 1}
      BY <1>0
    <3>2. About(k, {stored + 1}) = {}
      <4>1. ASSUME NEW e \in About(k, {stored + 1}) PROVE FALSE
        <5>1. e \in Read({stored + 1}) /\ Group(e) # None /\ k = Id(Group(e))
          BY DEF About
        <5>2. k \in spoilt
          BY <5>1 DEF Ids, Groups, spoilt
        <5>3. QED
          BY <1>1, <2>1, <5>2
      <4>2. QED
        BY <4>1
    <3>3. Rows(k)' = Rows(k) \cup About(k, {stored + 1})
      BY <1>0, <3>1, SameGroups DEF Rows, About, Read
    <3>4. QED
      BY <3>2, <3>3
  <2>2. \A k : UnderWay(k)' = UnderWay(k)
    BY <1>0, SameGroups DEF UnderWay
  <2>3. QED
    BY <1>0, <2>1, <2>2, Kept DEF IInv, Forms
<1>5. QED
  BY <1>2, <1>3, <1>4 DEF IInv

\* A message that arrives is under way as before.
LEMMA ArriveKeeps == ASSUME IInv, NEW e \in coming, Arrive(e) PROVE IInv'
<1>0. /\ e \in 1..stored
      /\ coming' = coming \ {e} /\ share' = Append(share, e)
      /\ UNCHANGED <<job, stored, position, committed, batch, todo, index, table, rest,
                     sure, ordered, extra,
                     lost>>
  BY DEF IInv, Whereabouts, Arrive, streamVars, batchVars, histories
<1>1. /\ share \in Seq(1..stored) /\ Len(share) \in Nat
      /\ position \in 0..Len(share)
      /\ share' \in Seq(1..stored)
      /\ Len(share') = Len(share) + 1
      /\ \A i \in 1..Len(share) : share'[i] = share[i]
      /\ share'[Len(share) + 1] = e
  BY <1>0, AppendProperties, LenProperties DEF IInv, Whereabouts
<1>2. Whereabouts'
  <2>1. \A i, j \in 1..Len(share') : share'[i] = share'[j] => i = j
    <3>1. \A i \in 1..Len(share) : share[i] # e
      BY DEF IInv, Whereabouts
    <3>2. \A i, j \in 1..Len(share) : share[i] = share[j] => i = j
      BY DEF IInv, Whereabouts
    <3>3. \A i \in 1..Len(share') : i \in 1..Len(share) \/ i = Len(share) + 1
      BY <1>1
    <3>4. QED
      BY <1>1, <3>1, <3>2, <3>3
  <2>2. \A i \in 1..Len(share') : share'[i] \notin coming'
    BY <1>0, <1>1 DEF IInv, Whereabouts
  <2>3. {share'[i] : i \in 1..position'} = {share[i] : i \in 1..position}
    BY <1>0, <1>1
  <2>4. todo' \subseteq Groups(batch)' /\ batch' \subseteq Read(batch)'
    BY <1>0, SameGroups DEF IInv, Whereabouts
  <2>5. committed' = None \/ committed' \in 0..Len(share')
    BY <1>0, <1>1 DEF IInv, Whereabouts
  <2>6. coming' \subseteq 1..stored /\ stored' \in 0..Len(Tracked) /\ position' \in 0..Len(share')
    BY <1>0, <1>1 DEF IInv, Whereabouts
  <2>7. batch' \subseteq {share'[i] : i \in 1..position'}
    BY <1>0, <2>3 DEF IInv, Whereabouts
  <2>8. QED
    BY <1>0, <1>1, <2>1, <2>2, <2>4, <2>5, <2>6, <2>7 DEF Whereabouts
<1>3. Forms'
  BY <1>0, SameGroups DEF IInv, Forms
<1>4. CountsAgree' /\ NewestWins'
  <2>1. {share'[i] : i \in (position' + 1)..Len(share')}
          = {share[i] : i \in (position + 1)..Len(share)} \cup {e}
    BY <1>0, <1>1
  <2>2. coming' \cup {share'[i] : i \in (position' + 1)..Len(share')}
          = coming \cup {share[i] : i \in (position + 1)..Len(share)}
    BY <1>0, <2>1
  <2>3. \A k : UnderWay(k)' = UnderWay(k)
    BY <1>0, <2>2, SameGroups DEF UnderWay
  <2>4. \A k : Rows(k)' = Rows(k)
    BY <1>0, SameGroups DEF Rows
  <2>5. QED
    BY <1>0, <2>3, <2>4, Kept DEF IInv, Forms
<1>5. QED
  BY <1>2, <1>3, <1>4 DEF IInv

------------------------------------------------------------------------------
(* Streaming.                                                              *)

\* A micro-batch that is taken is under way as the messages it is made of.
LEMMA TakeKeeps == IInv /\ Take => IInv'
<1> SUFFICES ASSUME IInv, Take PROVE IInv'
  OBVIOUS
<1> DEFINE tail == {share[i] : i \in (position + 1)..Len(share)}
<1>0. /\ batch = {} /\ batch' = Read(tail)
      /\ todo' = Groups(batch') /\ position' = Len(share)
      /\ UNCHANGED <<job, stored, coming, share, committed, index, table, rest, sure, ordered,
                     extra, lost>>
  BY DEF Take, topicVars, batchVars, histories
<1>1. Len(share) \in Nat /\ position \in Nat
  BY LenProperties DEF IInv, Whereabouts
<1>2. Whereabouts'
  <2>1. tail \subseteq {share[i] : i \in 1..Len(share)}
    BY <1>1
  <2>2. todo' = Groups(batch)' /\ batch' \subseteq Read(batch)'
    BY <1>0, SameGroups DEF Read
  <2> HIDE DEF tail
  <2>3. batch' \subseteq {share'[i] : i \in 1..position'}
    BY <1>0, <2>1 DEF Read
  <2>4. position' \in 0..Len(share') /\ (committed' = None \/ committed' \in 0..Len(share'))
    BY <1>0, <1>1 DEF IInv, Whereabouts
  <2>5. QED
    BY <1>0, <2>2, <2>3, <2>4 DEF IInv, Whereabouts
<1>3. Forms'
  BY <1>0, SameGroups DEF IInv, Forms
<1>4. CountsAgree' /\ NewestWins'
  <2>1. {share'[i] : i \in (position' + 1)..Len(share')} = {}
    BY <1>0, <1>1
  <2>2. ASSUME NEW k \in sure' PROVE UnderWay(k)' = UnderWay(k)
    <3>1. UnderWay(k) = About(k, coming \cup tail)
      BY <1>0 DEF UnderWay
    <3> HIDE DEF tail
    <3>2. UnderWay(k)' = About(k, coming \cup {e \in Read(tail) : Group(e) \in Groups(Read(tail))})
      BY <1>0, <2>1, SameGroups
    <3>3. QED
      BY <3>1, <3>2 DEF About, Read, Groups
  <2>3. \A k : Rows(k)' = Rows(k)
    BY <1>0, SameGroups DEF Rows
  <2>4. QED
    BY <1>0, <2>2, <2>3, Kept DEF IInv, Forms
<1>5. QED
  BY <1>2, <1>3, <1>4 DEF IInv

\* What changes in the index when a document is put into it.
LEMMA PutDocument ==
    ASSUME NEW k, NEW doc, Put(k, doc)
    PROVE  /\ DOMAIN index' = DOMAIN index \cup {k}
           /\ index'[k] = doc
           /\ \A l \in DOMAIN index : l # k => index'[l] = index[l]
BY DEF Put

\* The script adds what the new document counts, if it does not fail.
LEMMA ScriptAdds ==
    ASSUME NEW k, NEW doc
    PROVE  /\ k \notin DOMAIN index => Scripted(k, doc).count = doc.count
           /\ k \in DOMAIN index /\ ScriptFails(k, doc) =>
                  Scripted(k, doc).count = index[k].count
           /\ k \in DOMAIN index /\ ~ScriptFails(k, doc) =>
                  Scripted(k, doc).count = index[k].count + doc.count
BY DEF Scripted, UserScript, CountScript

\* The script of profiles takes the date and, if it has one that is not empty, the
\* email.
LEMMA ScriptWins ==
    ASSUME job = "user", NEW k, NEW doc
    PROVE  /\ k \notin DOMAIN index => Scripted(k, doc) = doc
           /\ k \in DOMAIN index =>
                  /\ Scripted(k, doc).email = IfTrue(doc.email, index[k].email)
                  /\ Scripted(k, doc).date = doc.date
BY DEF Scripted, ScriptFails, UserScript

\* Events of a micro-batch are neither coming nor still to be taken.
LEMMA BatchApart ==
    ASSUME Whereabouts
    PROVE  /\ batch \cap coming = {}
           /\ batch \cap {share[i] : i \in (position + 1)..Len(share)} = {}
           /\ batch \subseteq 1..stored
<1>1. Len(share) \in Nat /\ position \in Nat /\ position <= Len(share)
  BY LenProperties DEF Whereabouts
<1>2. \A i \in 1..Len(share) : share[i] \in 1..stored
  BY ElementOfSeq DEF Whereabouts
<1>3. ASSUME NEW e \in batch
      PROVE  e \notin coming /\ e \notin {share[i] : i \in (position + 1)..Len(share)}
             /\ e \in 1..stored
  <2>1. PICK i \in 1..position : e = share[i]
    BY DEF Whereabouts
  <2>2. i \in 1..Len(share)
    BY <1>1
  <2>3. e \notin coming /\ e \in 1..stored
    BY <1>2, <2>1, <2>2 DEF Whereabouts
  <2>4. ASSUME NEW j \in (position + 1)..Len(share), e = share[j] PROVE FALSE
    <3>1. j \in 1..Len(share) /\ i # j
      BY <1>1
    <3>2. QED
      BY <2>1, <2>2, <2>4, <3>1 DEF Whereabouts
  <2>5. QED
    BY <2>3, <2>4
<1>4. QED
  BY <1>3

\* The count of a document that is trained from the micro-batch is a number.
LEMMA BatchNumber ==
    ASSUME Whereabouts, NEW g PROVE Train(g, batch).count \in Nat
<1>1. Of(g, batch) \subseteq 1..stored /\ stored \in Nat
  BY BatchApart, StoredTracked DEF Of, Whereabouts
<1>2. IsFiniteSet(Of(g, batch))
  <2>1. IsFiniteSet(1..stored)
    BY <1>1, FS_Interval
  <2>2. QED
    BY <1>1, <2>1, FS_Subset
<1>3. QED
  BY <1>2, TrainedCount, FS_CardinalityType

\* A document that is scripted keeps the form of the index.
LEMMA ScriptedForms ==
    ASSUME IInv, NEW k, NEW g, Put(k, Scripted(k, Train(g, batch)))
    PROVE  \A l \in DOMAIN index' : index'[l].count \in Nat
<1>1. Train(g, batch).count \in Nat
  BY BatchNumber DEF IInv
<1>2. Scripted(k, Train(g, batch)).count \in Nat
  BY <1>1, ScriptAdds DEF IInv, Forms
<1>3. \A l \in DOMAIN index : index[l].count \in Nat
  BY DEF IInv, Forms
<1>4. QED
  BY <1>2, <1>3, PutDocument

\* A write takes the events of its group from what is under way.
LEMMA WriteTakes ==
    ASSUME IInv, NEW g \in todo, NEW k, k = Id(g), todo' = todo \ {g},
           UNCHANGED <<job, stored, coming, share, position, batch>>
    PROVE  /\ \A l : Rows(l)' = Rows(l)
           /\ \A l : l # k => UnderWay(l)' = UnderWay(l)
           /\ UnderWay(k) = UnderWay(k)' \cup Of(g, batch)
           /\ UnderWay(k)' \cap Of(g, batch) = {}
           /\ Of(g, batch) # {}
<1> DEFINE others == coming \cup {share[i] : i \in (position + 1)..Len(share)}
<1>1. /\ \A e \in batch : e \notin others
      /\ batch \subseteq Read(batch) /\ todo \subseteq Groups(batch)
  BY BatchApart DEF IInv, Whereabouts
<1>2. \A l : /\ Rows(l)' = Rows(l)
             /\ UnderWay(l) = About(l, others \cup {e \in batch : Group(e) \in todo})
             /\ UnderWay(l)' = About(l, others \cup {e \in batch : Group(e) \in todo \ {g}})
  BY SameGroups DEF Rows, UnderWay
<1> HIDE DEF others
<1>3. ASSUME NEW l, l # k PROVE UnderWay(l)' = UnderWay(l)
  BY <1>2, <1>3 DEF About, Read
<1>4. g # None /\ \E e \in batch : g = Group(e)
  BY <1>1 DEF Groups
<1>5. Of(g, batch) = About(k, Of(g, batch))
  BY <1>1, <1>4 DEF About, Read, Of
<1>6. {e \in batch : Group(e) \in todo} = {e \in batch : Group(e) \in todo \ {g}} \cup Of(g, batch)
  BY DEF Of
<1>7. UnderWay(k) = UnderWay(k)' \cup About(k, Of(g, batch))
  BY <1>2, <1>6 DEF About, Read
<1>8. UnderWay(k)' \cap Of(g, batch) = {}
  BY <1>1, <1>2 DEF About, Read, Of
<1>9. QED
  BY <1>2, <1>3, <1>4, <1>5, <1>7, <1>8 DEF Of

\* A write adds to the document what it takes from the events under way.
LEMMA WriteKeeps == ASSUME IInv, NEW g \in todo, Write(g) PROVE IInv'
<1> PICK k : k = Id(g)
  OBVIOUS
<1> DEFINE mine == Of(g, batch)
           doc == Train(g, batch)
<1>0. /\ Put(k, Scripted(k, doc))
      /\ todo' = todo \ {g}
      /\ sure' = IF ScriptFails(k, doc) THEN sure \ {k} ELSE sure
      /\ ordered' = IF ScriptFails(k, doc) \/ \E e \in mine, d \in Done(k) : e < d
                    THEN ordered \ {k} ELSE ordered
      /\ UNCHANGED <<job, stored, coming, share, position, committed, batch, table, rest,
                     extra, lost>>
  BY DEF Write, Spoil, topicVars, batchVars
<1>1. /\ \A l : Rows(l)' = Rows(l)
      /\ \A l : l # k => UnderWay(l)' = UnderWay(l)
      /\ UnderWay(k) = UnderWay(k)' \cup mine
      /\ UnderWay(k)' \cap mine = {}
      /\ mine # {}
  BY <1>0, WriteTakes
<1>2. Whereabouts'
  BY <1>0, SameGroups DEF IInv, Whereabouts
<1>3. Forms'
  BY <1>0, ScriptedForms, SameGroups DEF IInv, Forms
<1> HIDE DEF mine, doc
<1>4. CountsAgree'
  <2>1. ASSUME NEW l \in sure', l # k PROVE AgreesAt(l)'
    <3>1. Counted(l)' = Counted(l)
      BY <1>0, <2>1, PutDocument DEF Counted
    <3>2. QED
      BY <1>0, <1>1, <2>1, <3>1 DEF IInv, CountsAgree, AgreesAt
  <2>2. ASSUME k \in sure' PROVE AgreesAt(k)'
    <3>1. ~ScriptFails(k, doc) /\ k \in sure
      BY <1>0, <2>2
    <3>2. doc.count = Cardinality(mine)
      BY TrainedCount DEF doc, mine
    <3>3. UnderWay(k) \subseteq 1..stored /\ stored \in Nat
      BY UnderWayStored, StoredTracked DEF IInv, Whereabouts
    <3>4. /\ Cardinality(UnderWay(k)') \in Nat /\ Cardinality(mine) \in Nat
          /\ Cardinality(UnderWay(k)) = Cardinality(UnderWay(k)') + Cardinality(mine)
      <4>1. UnderWay(k)' \subseteq 1..stored /\ mine \subseteq 1..stored
        BY <1>1, <3>3
      <4>2. QED
        BY <1>1, <3>3, <4>1, CountedApart
    <3>5. Counted(k)' = Counted(k) + Cardinality(mine)
      <4>1. Counted(k)' = Scripted(k, doc).count
        BY <1>0, PutDocument DEF Counted
      <4>2. CASE k \in DOMAIN index
        BY <3>1, <3>2, <4>1, <4>2, ScriptAdds DEF Counted
      <4>3. CASE k \notin DOMAIN index
        BY <3>2, <3>4, <4>1, <4>3, ScriptAdds DEF Counted
      <4>4. QED
        BY <4>2, <4>3
    <3>6. AgreesAt(k)
      BY <3>1 DEF IInv, CountsAgree, AgreesAt
    <3>7. /\ Counted(k) \in Nat
          /\ Cardinality(lost[k]) \in Nat /\ Cardinality(extra[k]) \in Nat
          /\ Cardinality(Rows(k)) \in Nat
      BY <3>1, CountedNumber, RacedNumbers, Numbers DEF IInv
    <3>8. Counted(k)' + Cardinality(UnderWay(k)') + Cardinality(lost[k])
            = Cardinality(Rows(k)) + Cardinality(extra[k])
      BY <3>4, <3>5, <3>6, <3>7 DEF AgreesAt
    <3>9. QED
      BY <1>0, <1>1, <3>8 DEF AgreesAt
  <2>3. QED
    BY <2>1, <2>2 DEF CountsAgree, AgreesAt
<1>5. NewestWins'
  <2>1. ASSUME job' = "user", NEW u \in ordered' \cap DOMAIN index', u # k PROVE WinsAt(u)'
    <3>1. u \in ordered \cap DOMAIN index /\ index'[u] = index[u]
      <4>1. u \in ordered
        BY <1>0, <2>1
      <4>2. /\ DOMAIN index' = DOMAIN index \cup {k}
            /\ \A l \in DOMAIN index : l # k => index'[l] = index[l]
        BY <1>0, PutDocument
      <4>3. QED
        BY <2>1, <4>1, <4>2
    <3>2. WinsAt(u)
      BY <1>0, <2>1, <3>1 DEF IInv, NewestWins, WinsAt
    <3>3. QED
      BY <1>1, <2>1, <3>1, <3>2, WinsKept DEF Done
  <2>2. ASSUME job' = "user", NEW u \in ordered', u = k PROVE WinsAt(u)'
    <3>1. /\ job = "user" /\ u \in ordered /\ u \in sure
          /\ ~ \E e \in mine, d \in Done(u) : e < d
      BY <1>0, <2>2 DEF IInv, Forms
    <3>2. Done(u)' = Done(u) \cup mine /\ Done(u) \cap mine = {}
      <4>1. /\ UnderWay(u)' \cup mine = UnderWay(u) /\ UnderWay(u)' \cap mine = {}
            /\ Rows(u)' = Rows(u)
        BY <1>1, <2>2
      <4>2. mine \subseteq Rows(u)
        BY <4>1, UnderWayStored DEF IInv
      <4>3. QED
        BY <4>1, <4>2 DEF Done
    <3>3. /\ Done(u) \subseteq Nat /\ mine \subseteq Nat
          /\ IsFiniteSet(1..stored) /\ IsFiniteSet(mine)
      <4>1. stored \in Nat /\ Done(u) \subseteq 1..stored /\ mine \subseteq 1..stored
        BY UnderWayStored, BatchApart, StoredTracked DEF IInv, Whereabouts, Done, Of, mine
      <4>2. IsFiniteSet(1..stored)
        BY <4>1, FS_Interval
      <4>3. IsFiniteSet(mine)
        BY <4>1, <4>2, FS_Subset
      <4>4. QED
        BY <4>1, <4>2, <4>3
    <3>4. doc.email = Newest(mine, "email") /\ doc.date = Max(mine)
      BY <3>1, TrainedNewest DEF doc, mine
    <3>5. index'[u] = Scripted(u, doc)
      BY <1>0, <2>2, PutDocument
    <3>6. Before(Done(u), mine)
      BY <3>1, <3>2, <3>3 DEF Before
    <3>7. CASE u \in DOMAIN index
      <4>1. WinsAt(u)
        BY <3>1, <3>7 DEF IInv, NewestWins, WinsAt
      <4>2. Newest(Done(u) \cup mine, "email")
              = OrElse(Newest(mine, "email"), Newest(Done(u), "email"))
        BY <3>3, <3>6, LaterWins
      <4>3. Max(Done(u) \cup mine) = Max(mine)
        BY <1>1, <3>3, <3>6, MaxOfLater
      <4>4. index'[u].email = IfTrue(doc.email, index[u].email) /\ index'[u].date = doc.date
        BY <3>1, <3>5, <3>7, ScriptWins
      <4>5. Newest(Done(u) \cup mine, "email") # Empty
              => index'[u].email = Newest(Done(u) \cup mine, "email")
        BY <3>4, <4>1, <4>2, <4>4 DEF WinsAt, OrElse, IfTrue
      <4>6. index'[u].date = Max(Done(u) \cup mine)
        BY <3>4, <4>3, <4>4
      <4>7. QED
        BY <3>2, <4>5, <4>6 DEF WinsAt, Newest, Max
    <3>8. CASE u \notin DOMAIN index
      <4>1. Cardinality(UnderWay(u)) = Cardinality(Rows(u))
        <5>1. Counted(u) = 0 /\ AgreesAt(u)
          BY <3>1, <3>8 DEF IInv, CountsAgree, Counted, AgreesAt
        <5>2. Cardinality(lost[u]) = 0 /\ Cardinality(extra[u]) = 0
          BY <3>1, FS_EmptySet DEF IInv, Forms
        <5>3. QED
          BY <5>1, <5>2, Numbers DEF IInv, AgreesAt
      <4>2. UnderWay(u) = Rows(u)
        <5>1. UnderWay(u) \subseteq Rows(u) /\ Rows(u) \subseteq 1..stored
          BY UnderWayStored DEF IInv
        <5>2. IsFiniteSet(Rows(u))
          BY <3>3, <5>1, FS_Subset
        <5>3. QED
          BY <4>1, <5>1, <5>2, FS_Subset
      <4>3. Done(u)' = mine
        BY <3>2, <4>2 DEF Done
      <4>4. index'[u] = doc
        BY <3>1, <3>5, <3>8, ScriptWins
      <4>5. QED
        BY <3>4, <4>3, <4>4 DEF WinsAt, Newest, Max
    <3>9. QED
      BY <3>7, <3>8
  <2>3. QED
    BY <2>1, <2>2 DEF NewestWins, WinsAt
<1>6. QED
  BY <1>2, <1>3, <1>4, <1>5 DEF IInv

\* A rejected update spoils its document.
LEMMA RejectKeeps == ASSUME IInv, NEW g \in todo, Reject(g) PROVE IInv'
<1>0. /\ todo' = todo \ {g} /\ sure' = sure \ {Id(g)} /\ ordered' = ordered \ {Id(g)}
      /\ UNCHANGED <<job, stored, coming, share, position, committed, batch, index, table,
                     rest, extra, lost>>
  BY DEF Reject, Spoil, topicVars, batchVars
<1>1. Whereabouts'
  BY <1>0, SameGroups DEF IInv, Whereabouts
<1>2. Forms'
  BY <1>0, SameGroups DEF IInv, Forms
<1>3. \A l \in sure' : UnderWay(l)' = UnderWay(l) /\ Rows(l)' = Rows(l)
  BY <1>0, WriteTakes
<1>4. QED
  BY <1>0, <1>1, <1>2, <1>3, Kept DEF IInv, Forms

\* So does one that is repeated.
LEMMA WriteAgainKeeps == ASSUME IInv, NEW g \in todo, WriteAgain(g) PROVE IInv'
<1> DEFINE k == Id(g)
<1>0. /\ Put(k, Scripted(k, Train(g, batch))) /\ sure' = sure \ {k} /\ ordered' = ordered \ {k}
      /\ UNCHANGED <<job, stored, coming, share, position, committed, batch, todo, table,
                     rest, extra, lost>>
  BY DEF WriteAgain, Spoil, topicVars, streamVars, batchVars
<1>1. Whereabouts'
  BY <1>0, SameGroups DEF IInv, Whereabouts
<1>2. Forms'
  BY <1>0, ScriptedForms, SameGroups DEF IInv, Forms
<1>3. ASSUME NEW l \in sure'
      PROVE  /\ l \in DOMAIN index' <=> l \in DOMAIN index
             /\ l \in DOMAIN index => index'[l] = index[l]
             /\ UnderWay(l)' = UnderWay(l)
             /\ Rows(l)' = Rows(l)
  <2>1. l # k
    BY <1>0, <1>3
  <2>2. /\ l \in DOMAIN index' <=> l \in DOMAIN index
        /\ l \in DOMAIN index => index'[l] = index[l]
    BY <1>0, <2>1, PutDocument
  <2>3. UnderWay(l)' = UnderWay(l) /\ Rows(l)' = Rows(l)
    BY <1>0, SameGroups DEF UnderWay, Rows
  <2>4. QED
    BY <2>2, <2>3
<1>4. QED
  BY <1>0, <1>1, <1>2, <1>3, Kept DEF IInv, Forms

\* A micro-batch of which everything is written has nothing under way.
LEMMA AnnounceKeeps == IInv /\ Announce => IInv'
<1> SUFFICES ASSUME IInv, Announce PROVE IInv'
  OBVIOUS
<1>0. /\ todo = {} /\ batch' = {}
      /\ UNCHANGED <<job, stored, coming, share, position, committed, todo, index, table,
                     rest, sure, ordered, extra,
                     lost>>
  BY DEF Announce, topicVars, batchVars, histories
<1>1. Whereabouts'
  BY <1>0 DEF IInv, Whereabouts
<1>2. Forms'
  BY <1>0, SameGroups DEF IInv, Forms
<1>3. \A l : UnderWay(l)' = UnderWay(l) /\ Rows(l)' = Rows(l)
  BY <1>0, SameGroups DEF UnderWay, Rows
<1>4. QED
  BY <1>0, <1>1, <1>2, <1>3, Kept DEF IInv, Forms

\* A commit concerns only what comes after a crash.
LEMMA CommitKeeps == IInv /\ Commit => IInv'
<1> SUFFICES ASSUME IInv, Commit PROVE IInv'
  OBVIOUS
<1>0. /\ committed' = position
      /\ UNCHANGED <<job, stored, coming, share, position, batch, todo, index, table, rest,
                     sure, ordered, extra,
                     lost>>
  BY DEF Commit, topicVars, batchVars, histories
<1>1. Whereabouts'
  BY <1>0, SameGroups DEF IInv, Whereabouts
<1>2. Forms'
  BY <1>0, SameGroups DEF IInv, Forms
<1>3. \A l : UnderWay(l)' = UnderWay(l) /\ Rows(l)' = Rows(l)
  BY <1>0, SameGroups DEF UnderWay, Rows
<1>4. QED
  BY <1>0, <1>1, <1>2, <1>3, Kept DEF IInv, Forms

\* A crash spoils the documents that were not written, and those of the messages
\* that are taken again or skipped; nothing else is misplaced.
LEMMA CrashKeeps == IInv /\ Crash => IInv'
<1> SUFFICES ASSUME IInv, Crash PROVE IInv'
  OBVIOUS
<1> DEFINE spoilt == {Id(g) : g \in todo} \cup Ids(Read(Misplaced))
<1>0. /\ batch' = {} /\ todo' = {} /\ position' = Resume
      /\ sure' = sure \ spoilt
      /\ ordered' = ordered \ spoilt
      /\ UNCHANGED <<job, stored, coming, share, committed, index, table, rest, extra, lost>>
  BY DEF Crash, Spoil, topicVars, batchVars
<1>1. Len(share) \in Nat /\ position \in 0..Len(share) /\ Resume \in 0..Len(share)
  BY LenProperties DEF IInv, Whereabouts, Resume
<1>2. Whereabouts'
  BY <1>0, <1>1, SameGroups DEF IInv, Whereabouts
<1> HIDE DEF spoilt
<1>3. Forms'
  BY <1>0, SameGroups DEF IInv, Forms
<1>4. CountsAgree' /\ NewestWins'
  <2> DEFINE before == {share[i] : i \in (position + 1)..Len(share)}
             after == {share[i] : i \in (Resume + 1)..Len(share)}
  <2>1. \A e : (e \in before) # (e \in after) => e \in Misplaced
    BY <1>1 DEF Misplaced
  <2>2. ASSUME NEW k \in sure' PROVE UnderWay(k)' = UnderWay(k)
    <3>1. k \notin spoilt
      BY <1>0, <2>2
    <3>2. \A e \in batch : Group(e) \in todo => Id(Group(e)) # k
      BY <3>1 DEF spoilt
    <3>3. \A e \in Misplaced : e \notin About(k, {e})
      <4>1. ASSUME NEW e \in Misplaced, e \in About(k, {e}) PROVE FALSE
        <5>1. e \in Read(Misplaced) /\ Group(e) # None /\ k = Id(Group(e))
          BY <4>1 DEF About, Read
        <5>2. k \in spoilt
          BY <5>1 DEF Ids, Groups, spoilt
        <5>3. QED
          BY <3>1, <5>2
      <4>2. QED
        BY <4>1
    <3>4. UnderWay(k) = About(k, coming \cup before \cup {e \in batch : Group(e) \in todo})
      BY DEF UnderWay
    <3>5. UnderWay(k)' = About(k, coming \cup after)
      BY <1>0, SameGroups
    <3> HIDE DEF before, after
    <3>6. QED
      BY <2>1, <3>2, <3>3, <3>4, <3>5 DEF About, Read
  <2>3. \A k : Rows(k)' = Rows(k)
    BY <1>0, SameGroups DEF Rows
  <2>4. QED
    BY <1>0, <2>2, <2>3, Kept DEF IInv, Forms
<1>5. QED
  BY <1>2, <1>3, <1>4 DEF IInv

------------------------------------------------------------------------------
(* Batch.                                                                  *)

\* Reading the table changes no document.
LEMMA BatchReadKeeps == IInv /\ BatchRead => IInv'
<1> SUFFICES ASSUME IInv, BatchRead PROVE IInv'
  OBVIOUS
<1>0. /\ table' = stored /\ rest' = Groups(1..stored)
      /\ UNCHANGED <<job, stored, coming, share, position, committed, batch, todo, index,
                     sure, ordered, extra,
                     lost>>
  BY DEF BatchRead, topicVars, streamVars, histories
<1>1. Whereabouts'
  BY <1>0, SameGroups DEF IInv, Whereabouts
<1>2. Forms'
  <2>1. table' \in 0..stored'
    BY <1>0, StoredTracked DEF IInv, Whereabouts
  <2>2. rest' \subseteq Groups(1..table)'
    BY <1>0, SameGroups
  <2>3. QED
    BY <1>0, <2>1, <2>2, SameGroups DEF IInv, Forms
<1>3. \A l : UnderWay(l)' = UnderWay(l) /\ Rows(l)' = Rows(l)
  BY <1>0, SameGroups DEF UnderWay, Rows
<1>4. QED
  BY <1>0, <1>1, <1>2, <1>3, Kept DEF IInv, Forms

\* Nor does the early end of the job.
LEMMA BatchDiesKeeps == IInv /\ BatchDies => IInv'
<1> SUFFICES ASSUME IInv, BatchDies PROVE IInv'
  OBVIOUS
<1>0. /\ rest' = {}
      /\ UNCHANGED <<job, stored, coming, share, position, committed, batch, todo, index,
                     table, sure, ordered, extra,
                     lost>>
  BY DEF BatchDies, topicVars, streamVars, histories
<1>1. Whereabouts'
  BY <1>0, SameGroups DEF IInv, Whereabouts
<1>2. Forms'
  BY <1>0, SameGroups DEF IInv, Forms
<1>3. \A l : UnderWay(l)' = UnderWay(l) /\ Rows(l)' = Rows(l)
  BY <1>0, SameGroups DEF UnderWay, Rows
<1>4. QED
  BY <1>0, <1>1, <1>2, <1>3, Kept DEF IInv, Forms

\* What is written over a document counts what it was trained from.
LEMMA OverlaidCount ==
    ASSUME NEW k, NEW g, NEW events, Train(g, events).count \in Nat
    PROVE  Overlaid(k, Train(g, events)).count = Train(g, events).count
<1>1. "count" \in DOMAIN Train(g, events)
  BY DEF Train, Profile
<1>2. QED
  BY <1>1, NoneAssumption DEF Overlaid, OrElse

\* A profile keeps of the one in the index what it does not have.
LEMMA OverlaidProfile ==
    ASSUME job = "user", NEW k, NEW events
    PROVE  LET doc == Train(k, events)
           IN  /\ k \notin DOMAIN index => Overlaid(k, doc) = doc
               /\ k \in DOMAIN index =>
                     /\ Overlaid(k, doc).email = OrElse(doc.email, index[k].email)
                     /\ Overlaid(k, doc).date = OrElse(doc.date, index[k].date)
<1>1. "email" \in DOMAIN Train(k, events) /\ "date" \in DOMAIN Train(k, events)
  BY DEF Train, Profile
<1>2. QED
  BY <1>1 DEF Overlaid

\* Groups that the batch still has to write have events in the table.
LEMMA RestTracked ==
    ASSUME IInv, NEW g \in rest
    PROVE  /\ Of(g, 1..table) \subseteq 1..stored
           /\ Of(g, 1..table) # {}
           /\ Id(g) \in Ids(Events)
<1>1. stored \in Nat /\ 1..stored \subseteq Events /\ table \in 0..stored
  BY StoredTracked DEF IInv, Whereabouts, Forms
<1>2. 1..table \subseteq 1..stored
  BY <1>1
<1>3. PICK e \in 1..table : Group(e) = g
  BY DEF IInv, Forms, Groups
<1>4. g # None
  BY DEF IInv, Forms, Groups
<1>5. Id(g) \in Ids(Events)
  BY <1>1, <1>2, <1>3, <1>4 DEF Ids, Groups
<1>6. QED
  BY <1>2, <1>3, <1>5 DEF Of

\* A document that a batch writes is off by what raced with it.
LEMMA BatchWriteKeeps == ASSUME IInv, NEW g \in rest, BatchWrite(g) PROVE IInv'
<1> PICK k : k = Id(g)
  OBVIOUS
<1> DEFINE written == Of(g, 1..table)
           doc == Train(g, 1..table)
<1>0. /\ Put(k, Overlaid(k, doc))
      /\ rest' = rest \ {g}
      /\ sure' = sure \cup {k}
      /\ extra' = [extra EXCEPT ![k] = written \ Done(k)]
      /\ lost' = [lost EXCEPT ![k] = Done(k) \ written]
      /\ ordered' = IF written = Done(k) /\ Complete(k, written) THEN ordered \cup {k}
                    ELSE ordered \ {k}
      /\ UNCHANGED <<job, stored, coming, share, position, committed, batch, todo, table>>
  BY DEF BatchWrite, Judge, topicVars, streamVars
<1>1. stored \in Nat /\ k \in Ids(Events) /\ written \subseteq 1..stored /\ written # {}
  BY RestTracked, StoredTracked DEF IInv, Whereabouts
<1>2. IsFiniteSet(1..stored) /\ IsFiniteSet(written)
  BY <1>1, FS_Interval, FS_Subset
<1>3. Overlaid(k, doc).count = Cardinality(written) /\ Cardinality(written) \in Nat
  BY <1>2, FS_CardinalityType, TrainedCount, OverlaidCount
<1>4. Whereabouts'
  BY <1>0, SameGroups DEF IInv, Whereabouts
<1>5. Done(k) \subseteq 1..stored
  BY UnderWayStored DEF IInv, Done
<1>6. /\ \A l : UnderWay(l)' = UnderWay(l) /\ Rows(l)' = Rows(l)
      /\ \A l : Done(l)' = Done(l)
  BY <1>0, SameGroups DEF UnderWay, Rows, Done
<1>7. /\ DOMAIN extra = Ids(Events) /\ DOMAIN lost = Ids(Events)
      /\ extra'[k] = written \ Done(k) /\ lost'[k] = Done(k) \ written
      /\ \A l \in Ids(Events) : l # k => extra'[l] = extra[l] /\ lost'[l] = lost[l]
  BY <1>0, <1>1 DEF IInv, Forms
<1>8. Forms'
  <2>1. /\ extra' \in [Ids(Events) -> SUBSET (1..stored)]
        /\ lost' \in [Ids(Events) -> SUBSET (1..stored)]
    BY <1>0, <1>1, <1>5 DEF IInv, Forms
  <2>2. ASSUME NEW l \in ordered' PROVE extra'[l] = {} /\ lost'[l] = {}
    <3>1. CASE l = k
      <4>1. written = Done(k)
        BY <1>0, <2>2, <3>1
      <4>2. QED
        BY <1>7, <3>1, <4>1
    <3>2. CASE l # k
      <4>1. l \in ordered /\ l \in Ids(Events)
        BY <1>0, <2>2, <3>2 DEF IInv, Forms
      <4>2. QED
        BY <1>7, <3>2, <4>1 DEF IInv, Forms
    <3>3. QED
      BY <3>1, <3>2
  <2>3. ordered' \subseteq sure' /\ sure' \subseteq Ids(Events)
    BY <1>0, <1>1 DEF IInv, Forms
  <2>4. rest' \subseteq Groups(1..table)'
    BY <1>0, SameGroups DEF IInv, Forms
  <2>5. \A l \in DOMAIN index' : index'[l].count \in Nat
    <3>1. \A l \in DOMAIN index : index[l].count \in Nat
      BY DEF IInv, Forms
    <3>2. index'[k].count \in Nat
      BY <1>0, <1>3, PutDocument
    <3>3. QED
      BY <1>0, <3>1, <3>2, PutDocument
  <2>6. table' \in 0..stored'
    BY <1>0 DEF IInv, Forms
  <2>7. Ids(Events)' = Ids(Events)
    BY <1>0, SameGroups
  <2>8. QED
    BY <1>0, <2>1, <2>2, <2>3, <2>4, <2>5, <2>6, <2>7 DEF Forms
<1> HIDE DEF written, doc
<1>9. CountsAgree'
  <2>1. ASSUME NEW l \in sure', l # k PROVE AgreesAt(l)'
    <3>1. Counted(l)' = Counted(l)
      BY <1>0, <2>1, PutDocument DEF Counted
    <3>2. l \in sure /\ l \in Ids(Events)
      BY <1>0, <2>1 DEF IInv, Forms
    <3>3. QED
      BY <1>6, <1>7, <2>1, <3>1, <3>2 DEF IInv, CountsAgree, AgreesAt
  <2>2. ASSUME NEW l \in sure', l = k PROVE AgreesAt(l)'
    <3>1. Counted(l)' = Cardinality(written)
      BY <1>0, <1>3, <2>2, PutDocument DEF Counted
    <3>2. UnderWay(l) \subseteq Rows(l) /\ Rows(l) \subseteq 1..stored
      BY UnderWayStored DEF IInv
    <3>3. Cardinality(Rows(l)) = Cardinality(Done(l)) + Cardinality(UnderWay(l))
      <4>1. /\ Rows(l) = Done(l) \cup UnderWay(l) /\ Done(l) \cap UnderWay(l) = {}
            /\ Done(l) \subseteq 1..stored /\ UnderWay(l) \subseteq 1..stored
        BY <3>2 DEF Done
      <4>2. QED
        BY <1>1, <4>1, CountedApart
    <3> PICK more, less : more = written \ Done(l) /\ less = Done(l) \ written
      OBVIOUS
    <3>4. /\ Cardinality(written) + Cardinality(less) = Cardinality(Done(l)) + Cardinality(more)
          /\ Cardinality(more) \in Nat /\ Cardinality(less) \in Nat
          /\ Cardinality(Done(l)) \in Nat
      <4> PICK done : done = Done(l)
        OBVIOUS
      <4>1. /\ written \subseteq 1..stored /\ done \subseteq 1..stored
            /\ more \subseteq 1..stored /\ less \subseteq 1..stored
            /\ written \cap less = {} /\ done \cap more = {}
            /\ written \cup less = done \cup more
        BY <1>1, <1>5, <2>2
      <4>2. /\ Cardinality(written \cup less) = Cardinality(written) + Cardinality(less)
            /\ Cardinality(written) \in Nat /\ Cardinality(less) \in Nat
        BY ONLY <1>1, <4>1, CountedApart
      <4>3. /\ Cardinality(done \cup more) = Cardinality(done) + Cardinality(more)
            /\ Cardinality(done) \in Nat /\ Cardinality(more) \in Nat
        BY ONLY <1>1, <4>1, CountedApart
      <4>4. QED
        BY <4>1, <4>2, <4>3
    <3>5. Cardinality(UnderWay(l)) \in Nat
      BY Numbers DEF IInv
    <3>6. Cardinality(written) + Cardinality(UnderWay(l)) + Cardinality(less)
            = Cardinality(Rows(l)) + Cardinality(more)
      BY <1>3, <3>3, <3>4, <3>5
    <3>7. QED
      BY <1>6, <1>7, <2>2, <3>1, <3>6 DEF AgreesAt
  <2>3. QED
    BY <2>1, <2>2 DEF CountsAgree, AgreesAt
<1>10. NewestWins'
  <2>1. ASSUME job' = "user", NEW u \in ordered' \cap DOMAIN index', u # k PROVE WinsAt(u)'
    <3>1. u \in ordered
      BY <1>0, <2>1
    <3>2. u \in DOMAIN index /\ index'[u] = index[u]
      <4>1. /\ DOMAIN index' = DOMAIN index \cup {k}
            /\ \A l \in DOMAIN index : l # k => index'[l] = index[l]
        BY <1>0, PutDocument
      <4>2. QED
        BY <2>1, <4>1
    <3>3. WinsAt(u)
      BY <1>0, <2>1, <3>1, <3>2 DEF IInv, NewestWins, WinsAt
    <3>4. QED
      BY <1>6, <3>2, <3>3, WinsKept
  <2>2. ASSUME job' = "user", NEW u \in ordered', u = k PROVE WinsAt(u)'
    <3>1. job = "user" /\ written = Done(u) /\ Complete(u, written)
      BY <1>0, <2>2
    <3>2. written \subseteq Nat
      BY <1>1
    <3>3. doc.email = Newest(written, "email") /\ doc.date = Max(written)
      BY <3>1, TrainedNewest DEF doc, written
    <3>4. index'[u] = Overlaid(u, doc)
      BY <1>0, <2>2, PutDocument
    <3>5. g = u
      BY <2>2, <3>1 DEF Id
    <3>6. /\ u \notin DOMAIN index => Overlaid(u, doc) = doc
          /\ u \in DOMAIN index =>
                /\ Overlaid(u, doc).email = OrElse(doc.email, index[u].email)
                /\ Overlaid(u, doc).date = OrElse(doc.date, index[u].date)
      BY <3>1, <3>5, OverlaidProfile DEF doc
    <3>7. u \in ordered /\ u \in DOMAIN index => WinsAt(u)
      BY <3>1 DEF IInv, NewestWins, WinsAt
    <3>8. u \notin DOMAIN index \/ u \in ordered \/ Newest(written, "email") # None
      BY <3>1 DEF Complete
    <3>9. Max(written) # None
      <4>1. Max(written) \in written
        BY <1>1, <1>2, <3>2, MaxExists
      <4>2. QED
        BY <3>2, <4>1, NoneAssumption
    <3>10. Newest(written, "email") # Empty => index'[u].email = Newest(written, "email")
      BY <3>1, <3>3, <3>4, <3>6, <3>7, <3>8 DEF OrElse, WinsAt
    <3>11. index'[u].date = Max(written)
      BY <3>3, <3>4, <3>6, <3>9 DEF OrElse
    <3>12. QED
      BY <1>6, <3>1, <3>10, <3>11 DEF WinsAt, Newest, Max
  <2>3. QED
    BY <2>1, <2>2 DEF NewestWins, WinsAt
<1>11. QED
  BY <1>4, <1>8, <1>9, <1>10 DEF IInv

------------------------------------------------------------------------------
(* Types.                                                                  *)

\* The list of events of a profile.
Listed(s) == (\E X : s \in Seq(X)) /\ Len(s) \in 1..Keep

Lists == job = "user" => \A u \in DOMAIN index : Listed(index[u].events)

\* What TypeOK says that the inductive invariant does not.
Bounds ==
    /\ job \in {"count", "user"}
    /\ DOMAIN index \subseteq Ids(1..stored)
    /\ failures \in 0..MaxFailures
    /\ runs \in 0..MaxRuns

TInv == Bounds /\ Lists

LEMMA TypesFromParts == IInv /\ TInv => TypeOK
<1> SUFFICES ASSUME IInv, TInv PROVE TypeOK
  OBVIOUS
<1>1. batch \subseteq 1..stored
  BY BatchApart DEF IInv
<1>2. job = "user" => \A u \in DOMAIN index : Len(index[u].events) \in 1..Keep
  BY DEF TInv, Lists, Listed
<1>3. QED
  BY <1>1, <1>2 DEF IInv, Whereabouts, Forms, TInv, Bounds, TypeOK

\* The list that is trained from some events.
LEMMA SortedListed ==
    ASSUME NEW events, IsFiniteSet(events), events # {} PROVE Listed(Sorted(events))
<1> DEFINE kept == IF Cardinality(events) < Keep THEN Cardinality(events) ELSE Keep
           place(n) == CHOOSE e \in events : Cardinality({d \in events : d > e}) = n - 1
           X == {place(n) : n \in 1..kept}
<1>1. Cardinality(events) \in Nat \ {0} /\ Keep \in Nat \ {0}
  BY BoundsAssumption, FS_CardinalityType, FS_EmptySet
<1>2. kept \in 1..Keep
  BY <1>1
<1>3. Sorted(events) = [n \in 1..kept |-> place(n)]
  BY DEF Sorted
<1> HIDE DEF kept
<1>4. [n \in 1..kept |-> place(n)] \in [1..kept -> X]
  OBVIOUS
<1> HIDE DEF place, X
<1>5. kept \in Nat
  BY <1>1, <1>2
<1>6. [n \in 1..kept |-> place(n)] \in Seq(X)
  BY <1>4, <1>5, SeqDef
<1>7. Len(Sorted(events)) = kept
  BY <1>3, <1>5, <1>6, LenProperties
<1>8. QED
  BY <1>2, <1>3, <1>6, <1>7 DEF Listed

\* The list that the script makes of two.
LEMMA TakenListed ==
    ASSUME NEW s, NEW t, Listed(s), Listed(t) PROVE Listed(TakeRight(s \o t))
<1> DEFINE u == s \o t
           first == IF Len(u) < Keep THEN 1 ELSE Len(u) - Keep + 1
<1>1. PICK X, Y : s \in Seq(X) /\ t \in Seq(Y)
  BY DEF Listed
<1>2. s \in Seq(X \cup Y) /\ t \in Seq(X \cup Y)
  BY <1>1, SeqMonotonic
<1>3. u \in Seq(X \cup Y) /\ Len(u) = Len(s) + Len(t)
  BY <1>2, ConcatProperties
<1>4. Len(s) \in 1..Keep /\ Len(t) \in 1..Keep /\ Keep \in Nat
  BY BoundsAssumption DEF Listed
<1> HIDE DEF u
<1>5. Len(u) \in Nat \ {0}
  BY <1>3, <1>4
<1>6. first \in 1..Len(u) /\ Len(u) - first + 1 \in 1..Keep
  BY <1>4, <1>5
<1>7. \A i \in first..Len(u) : u[i] \in X \cup Y
  BY <1>3, <1>6, ElementOfSeq
<1>8. /\ SubSeq(u, first, Len(u)) \in Seq(X \cup Y)
      /\ Len(SubSeq(u, first, Len(u))) = Len(u) - first + 1
  <2>1. first \in Int /\ Len(u) \in Int /\ first <= Len(u)
    BY <1>5, <1>6
  <2> HIDE DEF first
  <2>2. QED
    BY <1>7, <2>1, SubSeqProperties
<1>9. TakeRight(u) = SubSeq(u, first, Len(u))
  BY DEF TakeRight
<1>10. QED
  BY <1>6, <1>8, <1>9 DEF Listed, u

\* Documents are trained for keys that have events.
LEMMA TrainedListed ==
    ASSUME job = "user", NEW n \in Nat, NEW events, events \subseteq 1..n,
           NEW k \in Groups(events)
    PROVE  Listed(Train(k, events).events)
<1>1. Of(k, events) \subseteq 1..n /\ Of(k, events) # {}
  BY DEF Of, Groups
<1>2. IsFiniteSet(1..n)
  BY FS_Interval
<1>3. IsFiniteSet(Of(k, events))
  BY <1>1, <1>2, FS_Subset
<1>4. Train(k, events).events = Sorted(Of(k, events))
  BY DEF Train, Profile
<1>5. QED
  BY <1>1, <1>3, <1>4, SortedListed

\* A document put into the index.
LEMMA PutLists ==
    ASSUME Lists, job' = job, NEW k, NEW doc, Put(k, doc), job = "user" => Listed(doc.events)
    PROVE  Lists'
BY PutDocument DEF Lists

LEMMA ScriptLists ==
    ASSUME IInv, Lists, NEW g \in todo, Put(Id(g), Scripted(Id(g), Train(g, batch))), job' = job
    PROVE  Lists'
<1> DEFINE doc == Train(g, batch)
<1>1. ASSUME job = "user" PROVE Listed(Scripted(g, doc).events)
  <2>1. Listed(doc.events)
    BY <1>1, BatchApart, StoredTracked, TrainedListed DEF IInv, Whereabouts
  <2>2. CASE g \in DOMAIN index
    <3>1. Listed(index[g].events)
      BY <1>1, <2>2 DEF Lists
    <3>2. Scripted(g, doc).events = TakeRight(index[g].events \o doc.events)
      BY <1>1, <2>2 DEF Scripted, ScriptFails, UserScript
    <3>3. QED
      BY <2>1, <3>1, <3>2, TakenListed
  <2>3. CASE g \notin DOMAIN index
    BY <2>1, <2>3 DEF Scripted
  <2>4. QED
    BY <2>2, <2>3
<1>2. QED
  BY <1>1, PutLists DEF Id

LEMMA OverlayLists ==
    ASSUME IInv, Lists, NEW g \in rest, Put(Id(g), Overlaid(Id(g), Train(g, 1..table))),
           job' = job
    PROVE  Lists'
<1> DEFINE doc == Train(g, 1..table)
<1>1. ASSUME job = "user" PROVE Listed(Overlaid(g, doc).events)
  <2>1. table \in Nat /\ g \in Groups(1..table)
    BY StoredTracked DEF IInv, Whereabouts, Forms
  <2>2. Listed(doc.events)
    BY <1>1, <2>1, TrainedListed
  <2>3. "events" \in DOMAIN doc
    BY <1>1 DEF Train, Profile
  <2>4. g \in DOMAIN index => Listed(index[g].events)
    BY <1>1 DEF Lists
  <2> HIDE DEF doc
  <2>5. QED
    BY <2>2, <2>3, <2>4 DEF Overlaid, OrElse
<1>2. QED
  BY <1>1, PutLists DEF Id

LEMMA NextLists == ASSUME IInv, Lists, [Next]_vars PROVE Lists'
<1>1. CASE \E k \in todo : Write(k) \/ WriteAgain(k)
  BY <1>1, ScriptLists DEF Write, WriteAgain
<1>2. CASE \E k \in rest : BatchWrite(k)
  BY <1>2, OverlayLists DEF BatchWrite
<1>3. CASE UNCHANGED <<job, index>>
  BY <1>3 DEF Lists
<1>4. ASSUME NEW e, Arrive(e) PROVE UNCHANGED <<job, index>>
  BY <1>4 DEF Arrive
<1>5. ASSUME NEW k, Reject(k) PROVE UNCHANGED <<job, index>>
  BY <1>5 DEF Reject
<1>6. Store \/ StoreUnseen \/ Take \/ Announce \/ Commit \/ Crash \/ BatchRead
      \/ BatchDies \/ UNCHANGED vars => UNCHANGED <<job, index>>
  BY DEF Store, StoreUnseen, Take, Announce, Commit, Crash, BatchRead, BatchDies, vars
<1>7. QED
  BY <1>1, <1>2, <1>3, <1>4, <1>5, <1>6 DEF Next

\* Every document of the index has rows in the table.
LEMMA NextIndexed == ASSUME IInv, Bounds, [Next]_vars PROVE DOMAIN index' \subseteq Ids(1..stored)'
<1>1. ASSUME job' = job, stored' = stored PROVE Ids(1..stored)' = Ids(1..stored)
  BY <1>1 DEF Ids, Groups, Group, Id
<1>2. \A g \in todo \cup rest : Id(g) \in Ids(1..stored)
  <2>1. batch \subseteq 1..stored /\ 1..table \subseteq 1..stored
    BY BatchApart, StoredTracked DEF IInv, Whereabouts, Forms
  <2>2. Groups(batch) \subseteq Groups(1..stored) /\ Groups(1..table) \subseteq Groups(1..stored)
    BY <2>1 DEF Groups
  <2>3. QED
    BY <2>2 DEF IInv, Whereabouts, Forms, Ids
<1>3. ASSUME NEW g \in todo \cup rest, DOMAIN index' = DOMAIN index \cup {Id(g)},
             job' = job, stored' = stored
      PROVE  DOMAIN index' \subseteq Ids(1..stored)'
  BY <1>1, <1>2, <1>3 DEF Bounds
<1>4. CASE \E k \in todo : Write(k) \/ WriteAgain(k)
  BY <1>3, <1>4, PutDocument DEF Write, WriteAgain
<1>5. CASE \E k \in rest : BatchWrite(k)
  BY <1>3, <1>5, PutDocument DEF BatchWrite
<1>6. CASE UNCHANGED <<job, index>> /\ stored' \in {stored, stored + 1}
  <2>1. stored \in Nat
    BY StoredTracked DEF IInv, Whereabouts
  <2>2. 1..stored \subseteq 1..stored'
    BY <1>6, <2>1
  <2>3. Ids(1..stored) \subseteq Ids(1..stored)'
    BY <1>6, <2>2 DEF Ids, Groups, Group, Id
  <2>4. QED
    BY <1>6, <2>3 DEF Bounds
<1>7. ASSUME NEW e, Arrive(e) PROVE UNCHANGED <<job, index, stored>>
  BY <1>7 DEF Arrive
<1>8. ASSUME NEW k, Reject(k) PROVE UNCHANGED <<job, index, stored>>
  BY <1>8 DEF Reject
<1>9. Store \/ StoreUnseen \/ Take \/ Announce \/ Commit \/ Crash \/ BatchRead
      \/ BatchDies \/ UNCHANGED vars
      => UNCHANGED <<job, index>> /\ stored' \in {stored, stored + 1}
  BY DEF Store, StoreUnseen, Take, Announce, Commit, Crash, BatchRead, BatchDies, vars
<1>10. QED
  BY <1>4, <1>5, <1>6, <1>7, <1>8, <1>9 DEF Next

LEMMA NextBounds == ASSUME IInv, Bounds, [Next]_vars PROVE Bounds'
<1> DEFINE Bounded == /\ job' = job
                      /\ failures' = failures \/ Failure
                      /\ runs' = runs \/ (runs < MaxRuns /\ runs' = runs + 1)
<1>0. Bounded
  <2>1. ASSUME NEW e, Arrive(e) PROVE Bounded
    BY <2>1 DEF Arrive, batchVars
  <2>2. ASSUME NEW k, Write(k) \/ Reject(k) \/ WriteAgain(k) PROVE Bounded
    BY <2>2 DEF Write, Reject, WriteAgain, batchVars
  <2>3. ASSUME NEW k, BatchWrite(k) PROVE Bounded
    BY <2>3 DEF BatchWrite
  <2>4. Store \/ StoreUnseen \/ Take \/ Announce \/ Commit \/ Crash \/ BatchRead
        \/ BatchDies \/ UNCHANGED vars => Bounded
    BY DEF Store, StoreUnseen, Take, Announce, Commit, Crash, BatchRead, BatchDies, vars,
           batchVars
  <2>5. QED
    BY <2>1, <2>2, <2>3, <2>4 DEF Next
<1>1. job' = job
  BY <1>0
<1>2. failures' \in 0..MaxFailures
  BY <1>0, BoundsAssumption DEF Bounds, Failure
<1>3. runs' \in 0..MaxRuns
  BY <1>0, BoundsAssumption DEF Bounds
<1>4. QED
  BY <1>1, <1>2, <1>3, NextIndexed DEF Bounds

------------------------------------------------------------------------------
(* Theorems.                                                               *)

LEMMA NextInv == IInv /\ [Next]_vars => IInv'
<1> SUFFICES ASSUME IInv, [Next]_vars PROVE IInv'
  OBVIOUS
<1>1. CASE Store
  BY <1>1, StoreKeeps
<1>2. CASE StoreUnseen
  BY <1>2, StoreUnseenKeeps
<1>3. CASE \E e \in coming : Arrive(e)
  BY <1>3, ArriveKeeps
<1>4. CASE Take
  BY <1>4, TakeKeeps
<1>5. CASE Announce
  BY <1>5, AnnounceKeeps
<1>6. CASE Commit
  BY <1>6, CommitKeeps
<1>7. CASE Crash
  BY <1>7, CrashKeeps
<1>8. CASE BatchRead
  BY <1>8, BatchReadKeeps
<1>9. CASE BatchDies
  BY <1>9, BatchDiesKeeps
<1>10. CASE \E k \in todo : Write(k) \/ Reject(k) \/ WriteAgain(k)
  BY <1>10, WriteKeeps, RejectKeeps, WriteAgainKeeps
<1>11. CASE \E k \in rest : BatchWrite(k)
  BY <1>11, BatchWriteKeeps
<1>12. CASE UNCHANGED vars
  <2>1. UNCHANGED <<job, stored, coming, share, position, committed, batch, todo, index,
                    table, rest, sure, ordered, extra, lost>>
    BY <1>12 DEF vars, topicVars, streamVars, batchVars, histories
  <2>2. Whereabouts'
    BY <2>1, SameGroups DEF IInv, Whereabouts
  <2>3. Forms'
    BY <2>1, SameGroups DEF IInv, Forms
  <2>4. \A l : UnderWay(l)' = UnderWay(l) /\ Rows(l)' = Rows(l)
    BY <2>1, SameGroups DEF UnderWay, Rows
  <2>5. QED
    BY <2>1, <2>2, <2>3, <2>4, Kept DEF IInv, Forms
<1>13. QED
  BY <1>1, <1>2, <1>3, <1>4, <1>5, <1>6, <1>7, <1>8, <1>9, <1>10, <1>11, <1>12 DEF Next

\* The inductive invariant holds in every reachable state.
THEOREM Invariance == Spec => []IInv
<1>1. Init => IInv
  BY InitInv
<1>2. IInv /\ [Next]_vars => IInv'
  BY NextInv
<1>3. QED
  BY <1>1, <1>2, PTL DEF Spec

\* Every state of the jobs has the types of their variables: a profile has between
\* one and Keep events, whatever streaming and batch runs made of it
\* (src/blah-user/algo/src/main/scala/StreamingJob.scala:22).
THEOREM TypeCorrect == Spec => []TypeOK
<1>1. Init => TInv
  <2> SUFFICES ASSUME Init PROVE TInv
    OBVIOUS
  <2>1. QED
    BY BoundsAssumption DEF Init, TInv, Bounds, Lists
<1>2. IInv /\ TInv /\ [Next]_vars => TInv'
  BY NextBounds, NextLists DEF TInv
<1>3. IInv /\ TInv => TypeOK
  BY TypesFromParts
<1>4. QED
  BY <1>1, <1>2, <1>3, Invariance, PTL DEF Spec

\* A document about which no message or write went wrong since a batch wrote it is
\* off its rows by what raced with that batch, had its hash or was malformed, and by
\* nothing that streaming has done since (src/blah-count/algo and src/blah-user/algo:
\* StreamingJob, BatchJob).
THEOREM OffByWhatRaced == Spec => []CountsAgree
<1>1. IInv => CountsAgree
  BY DEF IInv
<1>2. QED
  BY <1>1, Invariance, PTL

\* In a profile that nothing raced with and whose events came in order, the date is
\* that of the latest event and the email that of the latest event with one, unless
\* that is empty (src/blah-user/algo/src/main/scala/UserAlgo.scala: mergeEvents;
\* StreamingJob.scala:25).
THEOREM LatestWins == Spec => []NewestWins
<1>1. IInv => NewestWins
  BY DEF IInv
<1>2. QED
  BY <1>1, Invariance, PTL

=============================================================================
