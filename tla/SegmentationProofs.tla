-------------------------- MODULE SegmentationProofs --------------------------
(***************************************************************************)
(* Proofs about Segmentation, for any steps, dates and filters and any     *)
(* number of segments, rounds, actions, events and failures.               *)
(*                                                                         *)
(* A round keeps the model it began with.  What was set without a call     *)
(* under way is therefore in the model of every round there is, and comes  *)
(* back with each of them (InStep).  What a round will show is, but for a  *)
(* change in place, what it was at the last change, or the wish, which the *)
(* round begun last shows unless it is overtaken (Promised).  What a round *)
(* asked for are the step and the dates of its model, whatever happens to  *)
(* its filters (Sound).                                                    *)
(***************************************************************************)
EXTENDS Segmentation, SequenceTheorems, TLAPS

\* A round is asked for the step and the dates of its model, and what has come
\* back is what was asked.
Sound(round) ==
    /\ Waiting(round) # {}
    /\ DOMAIN round.back = DOMAIN round.model.segments
    /\ DOMAIN round.asked = DOMAIN round.model.segments
    /\ \A i \in DOMAIN round.asked :
          /\ round.asked[i].groupBy = round.model.groupBy
          /\ round.asked[i].from = round.model.from
          /\ round.asked[i].to = round.model.to
          /\ round.back[i] # None => round.back[i].data \in {None, round.asked[i]}

\* The model of a round has these settings, and so has what was asked and what
\* has come back.
InStep(round, settings) ==
    /\ Settings(round.model) = settings
    /\ \A i \in DOMAIN round.asked :
          /\ round.asked[i].filterBy = round.model.segments[i].filterBy
          /\ round.back[i] # None =>
                round.back[i].filterBy = round.model.segments[i].filterBy

AllSound(theRounds) == \A r \in DOMAIN theRounds : Sound(theRounds[r])
AllInStep(theRounds, settings) == \A r \in DOMAIN theRounds : InStep(theRounds[r], settings)

AllDue(theRounds, S) == \A r \in DOMAIN theRounds : Due(theRounds[r]) \in S

\* Rounds show what the user wished or what was stale at the last change, and the
\* last one the wish.
Promised ==
    /\ AllDue(rounds, {wish} \cup stale)
    /\ ~swayed /\ rounds # <<>> => Due(Last(rounds)) = wish

\* What the actions of the user, the events and the calls have in common.
Core ==
    /\ state \in Models
    /\ rounds \in Seq(Rounds)
    /\ AllSound(rounds)
    /\ stale = {} => AllInStep(rounds, wish)
    /\ Promised
    /\ KeepsWhatIsSet
    /\ ChartFitsItsLabels

IInv == TypeOK /\ Core

------------------------------------------------------------------------------
(* Rounds.                                                                 *)

\* A round that begins.
Begun(model) ==
    [model |-> model,
     asked |-> [i \in DOMAIN model.segments |-> MkQuery(model, model.segments[i])],
     back |-> [i \in DOMAIN model.segments |-> None]]

\* What a round will show, written out.
LEMMA DueSettings ==
    ASSUME NEW round \in Rounds, DOMAIN round.back = DOMAIN round.model.segments
    PROVE  Due(round)
             = [mode |-> round.model.mode, groupBy |-> round.model.groupBy,
                from |-> round.model.from, to |-> round.model.to,
                filters |-> [i \in DOMAIN round.model.segments |->
                               IF round.back[i] = None THEN round.model.segments[i].filterBy
                               ELSE round.back[i].filterBy]]
<1> DEFINE segments == [i \in DOMAIN round.model.segments |->
                          IF round.back[i] = None THEN round.model.segments[i]
                          ELSE round.back[i]]
           shown == [round.model EXCEPT !.segments = segments]
<1>1. round.model \in Models
  BY DEF Rounds
<1>2. Due(round) = Settings(shown)
  BY DEF Due
<1>3. /\ shown.segments = segments
      /\ shown.mode = round.model.mode /\ shown.groupBy = round.model.groupBy
      /\ shown.from = round.model.from /\ shown.to = round.model.to
  BY <1>1 DEF Models
<1>4. [i \in DOMAIN shown.segments |-> shown.segments[i].filterBy]
         = [i \in DOMAIN round.model.segments |->
              IF round.back[i] = None THEN round.model.segments[i].filterBy
              ELSE round.back[i].filterBy]
  BY <1>3
<1>5. QED
  BY <1>2, <1>3, <1>4 DEF Settings

\* It is sound, in step with its model, and will show it.
LEMMA BegunIsSound ==
    ASSUME NEW model \in Models, model.segments # <<>>
    PROVE  /\ Begun(model) \in Rounds
           /\ Sound(Begun(model))
           /\ InStep(Begun(model), Settings(model))
           /\ Due(Begun(model)) = Settings(model)
<1> DEFINE n == Len(model.segments)
<1>1. /\ model.segments \in Seq(Segments) /\ n \in Nat
      /\ DOMAIN model.segments = 1..n
  BY LenProperties DEF Models
<1>2. 1 \in 1..n
  BY <1>1, EmptySeq
<1>3. ASSUME NEW i \in 1..n
      PROVE  /\ model.segments[i] \in Segments
             /\ MkQuery(model, model.segments[i]) \in Asks
  <2>1. model.segments[i] \in Segments
    BY <1>1, <1>3, ElementOfSeq
  <2>2. QED
    BY <2>1 DEF Models, Segments, Asks, MkQuery
<1>4. /\ Begun(model).model = model
      /\ Begun(model).asked = [i \in 1..n |-> MkQuery(model, model.segments[i])]
      /\ Begun(model).back = [i \in 1..n |-> None]
  BY <1>1 DEF Begun
<1>5. /\ Begun(model).asked \in Seq(Asks)
      /\ Begun(model).back \in Seq(Segments \cup {None})
  <2>1. \A i \in 1..n : MkQuery(model, model.segments[i]) \in Asks
    BY <1>3
  <2>2. [i \in 1..n |-> MkQuery(model, model.segments[i])] \in [1..n -> Asks]
    BY <2>1
  <2>3. [i \in 1..n |-> None] \in [1..n -> Segments \cup {None}]
    OBVIOUS
  <2>4. QED
    BY <1>1, <1>4, <2>2, <2>3
<1>6. Begun(model) \in Rounds
  BY <1>1, <1>5 DEF Begun, Rounds
<1>7. 1 \in Waiting(Begun(model))
  BY <1>2, <1>4 DEF Waiting
<1>8. Sound(Begun(model))
  BY <1>1, <1>4, <1>7 DEF Sound, MkQuery
<1>9. InStep(Begun(model), Settings(model))
  BY <1>1, <1>4 DEF InStep, MkQuery
<1>10. Due(Begun(model)) = Settings(model)
  <2>1. \A i \in DOMAIN model.segments : Begun(model).back[i] = None
    BY <1>1, <1>4
  <2>2. Due(Begun(model))
           = [mode |-> model.mode, groupBy |-> model.groupBy, from |-> model.from,
              to |-> model.to,
              filters |-> [i \in DOMAIN model.segments |->
                             IF Begun(model).back[i] = None THEN model.segments[i].filterBy
                             ELSE Begun(model).back[i].filterBy]]
    BY <1>1, <1>4, <1>6, <1>8, DueSettings DEF Sound
  <2>3. QED
    BY <2>1, <2>2 DEF Settings
<1>11. QED
  BY <1>6, <1>8, <1>9, <1>10

\* A model joins the rounds, if it has segments.
LEMMA GroupedIsSound ==
    ASSUME NEW inRounds \in Seq(Rounds), AllSound(inRounds), NEW model \in Models
    PROVE  LET all == Grouped(inRounds, model)
           IN  /\ all \in Seq(Rounds)
               /\ AllSound(all)
               /\ all = <<>> => inRounds = <<>> /\ model.segments = <<>>
               /\ \A settings : /\ AllInStep(inRounds, settings)
                                /\ Settings(model) = settings
                                => AllInStep(all, settings)
               /\ \A S : AllDue(inRounds, S) /\ Settings(model) \in S => AllDue(all, S)
               /\ model.segments = <<>> => all = inRounds
               /\ model.segments # <<>> => /\ all # <<>>
                                          /\ Due(Last(all)) = Settings(model)
<1>1. CASE model.segments = <<>>
  BY <1>1 DEF Grouped
<1>2. CASE model.segments # <<>>
  <2> DEFINE all == Append(inRounds, Begun(model))
  <2>1. Grouped(inRounds, model) = all
    BY <1>2 DEF Grouped, Begun
  <2>2. /\ Begun(model) \in Rounds /\ Sound(Begun(model))
        /\ InStep(Begun(model), Settings(model)) /\ Due(Begun(model)) = Settings(model)
    BY <1>2, BegunIsSound
  <2>3. /\ all \in Seq(Rounds) /\ Len(all) = Len(inRounds) + 1 /\ Len(inRounds) \in Nat
        /\ \A i \in 1..Len(inRounds) : all[i] = inRounds[i]
        /\ all[Len(inRounds) + 1] = Begun(model)
        /\ DOMAIN all = 1..(Len(inRounds) + 1) /\ DOMAIN inRounds = 1..Len(inRounds)
    BY <2>2, AppendProperties, LenProperties
  <2>4. all # <<>>
    BY <2>3, EmptySeq
  <2>5. AllSound(all)
    BY <2>2, <2>3 DEF AllSound
  <2>6. ASSUME NEW settings, AllInStep(inRounds, settings), Settings(model) = settings
        PROVE  AllInStep(all, settings)
    BY <2>2, <2>3, <2>6 DEF AllInStep
  <2>7. ASSUME NEW S, AllDue(inRounds, S), Settings(model) \in S
        PROVE  AllDue(all, S)
    BY <2>2, <2>3, <2>7 DEF AllDue
  <2>8. Due(Last(all)) = Settings(model)
    BY <2>2, <2>3 DEF Last
  <2>9. QED
    BY <1>2, <2>1, <2>3, <2>4, <2>5, <2>6, <2>7, <2>8
<1>3. QED
  BY <1>1, <1>2

\* update() keeps all that Core says.
LEMMA UpdateKeeps ==
    ASSUME NEW inRounds \in Seq(Rounds), AllSound(inRounds), NEW model \in Models,
           NEW inLent, NEW ofTags, Update(inRounds, inLent, model, ofTags)
    PROVE  Core'
<1>1. /\ state' = model /\ rounds' = Grouped(inRounds, model)
      /\ wish' = Settings(model)
      /\ stale' = {Due(inRounds[r]) : r \in DOMAIN inRounds}
      /\ swayed' = (model.segments = <<>> /\ inRounds # <<>>)
  BY DEF Update, Intended
<1>2. /\ rounds' \in Seq(Rounds) /\ AllSound(rounds)'
      /\ rounds' = <<>> => model.segments = <<>>
      /\ AllInStep(inRounds, Settings(model)) => AllInStep(rounds', Settings(model))
  BY <1>1, GroupedIsSound DEF AllSound
<1>3. stale' = {} => AllInStep(rounds, wish)'
  <2> SUFFICES ASSUME stale' = {} PROVE AllInStep(rounds', wish')
    BY DEF AllInStep
  <2>1. DOMAIN inRounds = {}
    BY <1>1
  <2>2. QED
    BY <1>1, <1>2, <2>1 DEF AllInStep
<1>4. AllDue(rounds', {wish'} \cup stale')
  <2> DEFINE S == {wish'} \cup stale'
  <2>1. AllDue(inRounds, S) /\ Settings(model) \in S
    BY <1>1 DEF AllDue
  <2> HIDE DEF S
  <2>2. AllDue(rounds', S)
    BY <1>1, <2>1, GroupedIsSound
  <2>3. QED
    BY <2>2 DEF S
<1>5. ~swayed' /\ rounds' # <<>> => Due(Last(rounds')) = wish'
  BY <1>1, GroupedIsSound
<1>6. Promised'
  BY <1>4, <1>5 DEF Promised, AllDue, Due, Settings
<1>7. KeepsWhatIsSet'
  BY <1>1 DEF KeepsWhatIsSet, Settings
<1>8. ChartFitsItsLabels'
  BY <1>1, <1>2 DEF ChartFitsItsLabels
<1>9. QED
  BY <1>1, <1>2, <1>3, <1>6, <1>7, <1>8 DEF Core

------------------------------------------------------------------------------
(* Sequences and segments.                                                 *)

\* What is left of a sequence is a sequence of the same, not longer.
LEMMA RemoveAtType ==
    ASSUME NEW S, NEW s \in Seq(S), NEW i \in DOMAIN s
    PROVE  RemoveAt(s, i) \in Seq(S) /\ Len(RemoveAt(s, i)) <= Len(s)
<1> DEFINE front == SubSeq(s, 1, i - 1)
           back == SubSeq(s, i + 1, Len(s))
<1>1. Len(s) \in Nat /\ DOMAIN s = 1..Len(s) /\ i \in 1..Len(s)
  BY LenProperties
<1>2. \A j \in 1..Len(s) : s[j] \in S
  BY ElementOfSeq
<1>3. front \in Seq(S) /\ Len(front) = i - 1
  <2>1. \A j \in 1..(i - 1) : s[j] \in S
    BY <1>1, <1>2
  <2>2. 1 \in Int /\ i - 1 \in Int
    BY <1>1
  <2>3. QED
    BY <1>1, <2>1, <2>2, SubSeqProperties
<1>4. back \in Seq(S) /\ Len(back) = Len(s) - i
  <2>1. \A j \in (i + 1)..Len(s) : s[j] \in S
    BY <1>1, <1>2
  <2>2. i + 1 \in Int /\ Len(s) \in Int
    BY <1>1
  <2>3. QED
    BY <1>1, <2>1, <2>2, SubSeqProperties
<1> HIDE DEF front, back
<1>5. front \o back \in Seq(S) /\ Len(front \o back) = Len(front) + Len(back)
  BY <1>3, <1>4, ConcatProperties
<1>6. Len(front \o back) <= Len(s)
  BY <1>1, <1>3, <1>4, <1>5
<1>7. RemoveAt(s, i) = front \o back
  BY DEF RemoveAt, front, back
<1>8. QED
  BY <1>5, <1>6, <1>7

\* What is left of a sequence was in it.
LEMMA RemoveAtFacts ==
    ASSUME NEW S, NEW s \in Seq(S), NEW i \in DOMAIN s
    PROVE  \A j \in DOMAIN RemoveAt(s, i) :
              \E k \in DOMAIN s : RemoveAt(s, i)[j] = s[k]
<1> DEFINE T == {s[k] : k \in DOMAIN s}
           left == RemoveAt(s, i)
<1>1. Len(s) \in Nat /\ DOMAIN s = 1..Len(s) /\ s \in [1..Len(s) -> S]
  BY LenProperties
<1>2. s \in [1..Len(s) -> T]
  BY <1>1
<1>3. s \in Seq(T)
  BY <1>1, <1>2
<1>4. left \in Seq(T)
  BY <1>3, RemoveAtType
<1>5. \A j \in DOMAIN left : left[j] \in T
  <2> HIDE DEF T, left
  <2>1. QED
    BY <1>4, ElementOfSeq, LenProperties
<1>6. QED
  BY <1>5

\* The last of a sequence stays the last, unless it goes.
LEMMA RemoveAtLast ==
    ASSUME NEW S, NEW s \in Seq(S), NEW i \in DOMAIN s
    PROVE  /\ i # Len(s) => RemoveAt(s, i) # <<>> /\ Last(RemoveAt(s, i)) = Last(s)
           /\ i = Len(s) /\ i = 1 => RemoveAt(s, i) = <<>>
<1> DEFINE front == SubSeq(s, 1, i - 1)
           back == SubSeq(s, i + 1, Len(s))
<1>1. Len(s) \in Nat /\ DOMAIN s = 1..Len(s) /\ i \in 1..Len(s)
  BY LenProperties
<1>2. \A j \in 1..Len(s) : s[j] \in S
  BY ElementOfSeq
<1>3. front \in Seq(S) /\ Len(front) = i - 1
  <2>1. \A j \in 1..(i - 1) : s[j] \in S
    BY <1>1, <1>2
  <2>2. 1 \in Int /\ i - 1 \in Int
    BY <1>1
  <2>3. QED
    BY <1>1, <2>1, <2>2, SubSeqProperties
<1>4. /\ back \in Seq(S) /\ Len(back) = Len(s) - i
      /\ i # Len(s) => back[Len(s) - i] = s[Len(s)]
  <2>1. \A j \in (i + 1)..Len(s) : s[j] \in S
    BY <1>1, <1>2
  <2>2. i + 1 \in Int /\ Len(s) \in Int
    BY <1>1
  <2>3. /\ back \in Seq(S) /\ Len(back) = Len(s) - i
        /\ \A k \in 1..(Len(s) - i) : back[k] = s[i + k]
    BY <1>1, <2>1, <2>2, SubSeqProperties
  <2>4. QED
    BY <1>1, <2>3
<1> HIDE DEF front, back
<1>5. RemoveAt(s, i) = front \o back
  BY DEF RemoveAt, front, back
<1>6. /\ front \o back \in Seq(S) /\ Len(front \o back) = Len(s) - 1
      /\ \A k \in 1..(Len(s) - 1) : (front \o back)[k]
              = IF k <= i - 1 THEN front[k] ELSE back[k - (i - 1)]
  <2>1. /\ front \o back \in Seq(S) /\ Len(front \o back) = Len(front) + Len(back)
        /\ \A k \in 1..(Len(front) + Len(back)) : (front \o back)[k]
              = IF k <= Len(front) THEN front[k] ELSE back[k - Len(front)]
    BY <1>3, <1>4, ConcatProperties
  <2>2. Len(front) + Len(back) = Len(s) - 1
    BY <1>1, <1>3, <1>4
  <2>3. QED
    BY <1>3, <2>1, <2>2
<1>7. ASSUME i # Len(s)
      PROVE  front \o back # <<>> /\ Last(front \o back) = Last(s)
  <2>1. (front \o back)[Len(s) - 1] = back[Len(s) - i]
    <3>1. Len(s) - 1 \in 1..(Len(s) - 1) /\ ~(Len(s) - 1 <= i - 1)
      BY <1>1, <1>7
    <3>2. (Len(s) - 1) - (i - 1) = Len(s) - i
      BY <1>1
    <3>3. QED
      BY <1>6, <3>1, <3>2
  <2>2. Len(front \o back) # 0
    BY <1>1, <1>6, <1>7
  <2>3. QED
    BY <1>4, <1>6, <1>7, <2>1, <2>2, EmptySeq DEF Last
<1>8. i = Len(s) /\ i = 1 => front \o back = <<>>
  BY <1>6, EmptySeq
<1>9. QED
  BY <1>5, <1>7, <1>8

\* Other filters make other segments, as many as before.
LEMMA WithFacts ==
    ASSUME NEW segments \in Seq(Segments), NEW theirTags, NEW tag, NEW filters \in Filters
    PROVE  /\ With(segments, theirTags, tag, filters) \in Seq(Segments)
           /\ DOMAIN With(segments, theirTags, tag, filters) = DOMAIN segments
<1> DEFINE new == With(segments, theirTags, tag, filters)
<1>1. Len(segments) \in Nat /\ DOMAIN segments = 1..Len(segments)
  BY LenProperties
<1>2. ASSUME NEW i \in 1..Len(segments)
      PROVE  (IF theirTags[i] = tag THEN [segments[i] EXCEPT !.filterBy = filters]
              ELSE segments[i]) \in Segments
  <2>1. segments[i] \in Segments
    BY <1>1, <1>2, ElementOfSeq
  <2>2. [segments[i] EXCEPT !.filterBy = filters] \in Segments
    BY <2>1 DEF Segments
  <2>3. QED
    BY <2>1, <2>2
<1>3. new = [i \in 1..Len(segments) |->
               IF theirTags[i] = tag THEN [segments[i] EXCEPT !.filterBy = filters]
               ELSE segments[i]]
  BY <1>1 DEF With
<1>4. new \in [1..Len(segments) -> Segments] /\ DOMAIN new = 1..Len(segments)
  BY <1>2, <1>3
<1>5. new \in Seq(Segments)
  BY <1>1, <1>4
<1>6. DOMAIN new = DOMAIN segments
  BY <1>1, <1>4
<1>7. QED
  BY <1>5, <1>6

------------------------------------------------------------------------------
(* The user.                                                               *)

\* A change of the model.
LEMMA ChangeKeeps ==
    ASSUME Core, NEW model \in Models, Change(model)
    PROVE  Core'
  BY UpdateKeeps DEF Core, Change

\* A round sees other filters in its model, and is as sound as before.
LEMMA SeenIsSound ==
    ASSUME NEW round \in Rounds, Sound(round), NEW t, NEW tag, NEW filters \in Filters
    PROVE  LET seen == [round EXCEPT !.model.segments = With(@, t, tag, filters)]
           IN  seen \in Rounds /\ Sound(seen)
<1> DEFINE segments == With(round.model.segments, t, tag, filters)
           seen == [round EXCEPT !.model.segments = With(@, t, tag, filters)]
<1>1. round.model \in Models /\ round.model.segments \in Seq(Segments)
  BY DEF Rounds, Models
<1>2. segments \in Seq(Segments) /\ DOMAIN segments = DOMAIN round.model.segments
  BY <1>1, WithFacts
<1>3. /\ seen = [round EXCEPT !.model = [round.model EXCEPT !.segments = segments]]
      /\ [round.model EXCEPT !.segments = segments] \in Models
  BY <1>1, <1>2 DEF Rounds, Models
<1>4. /\ seen \in Rounds /\ seen.asked = round.asked /\ seen.back = round.back
      /\ seen.model = [round.model EXCEPT !.segments = segments]
  BY <1>3 DEF Rounds
<1>5. /\ seen.model.segments = segments /\ seen.model.groupBy = round.model.groupBy
      /\ seen.model.from = round.model.from /\ seen.model.to = round.model.to
  BY <1>1, <1>4 DEF Models
<1>6. Waiting(seen) = Waiting(round)
  BY <1>4 DEF Waiting
<1>7. Sound(seen)
  BY <1>2, <1>4, <1>5, <1>6 DEF Sound
<1>8. QED
  BY <1>4, <1>7

\* A change of filters in place.
LEMMA InPlaceKeeps ==
    ASSUME Core, NEW tag, NEW filters \in Filters, InPlace(tag, filters)
    PROVE  Core'
<1> DEFINE seen == [r \in DOMAIN rounds |->
                      [rounds[r] EXCEPT !.model.segments = With(@, lent[r], tag, filters)]]
           model == [state EXCEPT !.segments = With(@, tags, tag, filters)]
<1>1. rounds \in Seq(Rounds) /\ AllSound(rounds) /\ state \in Models
  BY DEF Core
<1>2. Len(rounds) \in Nat /\ DOMAIN rounds = 1..Len(rounds)
  BY <1>1, LenProperties
<1>3. ASSUME NEW r \in DOMAIN rounds PROVE seen[r] \in Rounds /\ Sound(seen[r])
  <2>1. rounds[r] \in Rounds /\ Sound(rounds[r])
    BY <1>1, <1>2, <1>3, ElementOfSeq DEF AllSound
  <2>2. seen[r] = [rounds[r] EXCEPT !.model.segments = With(@, lent[r], tag, filters)]
    BY <1>3
  <2>3. QED
    BY <2>1, <2>2, SeenIsSound
<1>4. seen \in [1..Len(rounds) -> Rounds]
  BY <1>2, <1>3
<1>5. seen \in Seq(Rounds) /\ AllSound(seen)
  BY <1>2, <1>3, <1>4 DEF AllSound
<1>6. model \in Models
  <2>1. state.segments \in Seq(Segments)
    BY <1>1 DEF Models
  <2>2. With(state.segments, tags, tag, filters) \in Seq(Segments)
    BY <2>1, WithFacts
  <2>3. QED
    BY <1>1, <2>2 DEF Models
<1>7. PICK ofTags : Update(seen, lent, model, ofTags)
  BY DEF InPlace
<1>8. QED
  BY <1>5, <1>6, <1>7, UpdateKeeps
\* SetMode, SetFrom, SetTo and SetGroupBy.
LEMMA SettingKeeps ==
    ASSUME IInv, NEW mode \in Modes, NEW date \in Dates, NEW g \in GroupBys,
           SetMode(mode) \/ SetFrom(date) \/ SetTo(date) \/ SetGroupBy(g)
    PROVE  Core'
<1>1. state \in Models /\ Core
  BY DEF IInv, Core
<1>2. /\ [state EXCEPT !.mode = mode] \in Models /\ [state EXCEPT !.from = date] \in Models
      /\ [state EXCEPT !.to = date] \in Models /\ [state EXCEPT !.groupBy = g] \in Models
  BY <1>1 DEF Models
<1>3. CASE SetMode(mode)
  BY <1>1, <1>2, <1>3, ChangeKeeps DEF SetMode
<1>4. CASE SetFrom(date)
  BY <1>1, <1>2, <1>4, ChangeKeeps DEF SetFrom
<1>5. CASE SetTo(date)
  BY <1>1, <1>2, <1>5, ChangeKeeps DEF SetTo
<1>6. CASE SetGroupBy(g)
  BY <1>1, <1>2, <1>6, ChangeKeeps DEF SetGroupBy
<1>7. QED
  BY <1>3, <1>4, <1>5, <1>6

LEMMA SetQuickKeeps ==
    ASSUME IInv, NEW q \in Quick, SetQuick(q)
    PROVE  Core'
<1> DEFINE first == [state EXCEPT !.groupBy = q.groupBy]
           second == [first EXCEPT !.from = q.from]
           third == [second EXCEPT !.to = q.to]
           one == Grouped(rounds, first)
           two == Grouped(one, second)
<1>1. state \in Models /\ rounds \in Seq(Rounds) /\ AllSound(rounds)
  BY DEF IInv, Core
<1>2. q.groupBy \in GroupBys /\ q.from \in Dates /\ q.to \in Dates
  BY BoundsAssumption
<1>3. first \in Models /\ second \in Models /\ third \in Models
  BY <1>1, <1>2 DEF Models
<1>4. PICK inLent, ofTags : Update(two, inLent, third, ofTags)
  BY DEF SetQuick
<1> HIDE DEF first, second, third
<1>5. one \in Seq(Rounds) /\ AllSound(one)
  BY <1>1, <1>3, GroupedIsSound
<1> HIDE DEF one
<1>6. two \in Seq(Rounds) /\ AllSound(two)
  BY <1>3, <1>5, GroupedIsSound
<1> HIDE DEF two
<1>7. QED
  BY <1>3, <1>4, <1>6, UpdateKeeps

LEMMA AddSegmentKeeps ==
    ASSUME IInv, AddSegment
    PROVE  Core'
<1>1. state \in Models /\ Core /\ state.segments \in Seq(Segments)
  BY DEF IInv, Core, Models
<1>2. [filterBy |-> <<Empty>>, data |-> None] \in Segments
  BY DEF Segments, Filters
<1>3. Append(state.segments, [filterBy |-> <<Empty>>, data |-> None]) \in Seq(Segments)
  BY <1>1, <1>2, AppendProperties
<1>4. [state EXCEPT !.segments = Append(@, [filterBy |-> <<Empty>>, data |-> None])] \in Models
  BY <1>1, <1>3 DEF Models
<1>5. QED
  BY <1>1, <1>4, ChangeKeeps DEF AddSegment

LEMMA RemoveSegmentKeeps ==
    ASSUME IInv, RemoveSegment
    PROVE  Core'
<1>1. state \in Models /\ Core /\ state.segments \in Seq(Segments)
  BY DEF IInv, Core, Models
<1>2. Len(state.segments) \in Nat /\ \A i \in 1..Len(state.segments) : state.segments[i] \in Segments
  BY <1>1, LenProperties, ElementOfSeq
<1>3. Front(state.segments) \in Seq(Segments)
  <2>1. \A i \in 1..(Len(state.segments) - 1) : state.segments[i] \in Segments
    BY <1>2
  <2>2. 1 \in Int /\ Len(state.segments) - 1 \in Int
    BY <1>2
  <2>3. QED
    BY <2>1, <2>2, SubSeqProperties DEF Front
<1>4. [state EXCEPT !.segments = Front(@)] \in Models
  BY <1>1, <1>3 DEF Models
<1>5. QED
  BY <1>1, <1>4, ChangeKeeps DEF RemoveSegment

LEMMA RemoveFilterKeeps ==
    ASSUME IInv, NEW i \in DOMAIN state.segments, NEW j \in DOMAIN state.segments[i].filterBy,
           RemoveFilter(i, j)
    PROVE  Core'
<1> DEFINE segment == state.segments[i]
           less == [segment EXCEPT !.filterBy = RemoveAt(@, j)]
           segments == [state.segments EXCEPT ![i] = less]
<1>1. state \in Models /\ Core /\ state.segments \in Seq(Segments)
  BY DEF IInv, Core, Models
<1>2. i \in 1..Len(state.segments) /\ segment \in Segments
  BY <1>1, LenProperties, ElementOfSeq
<1>3. segment.filterBy \in Seq(Texts \cup {Empty})
  BY <1>2 DEF Segments, Filters
<1>4. RemoveAt(segment.filterBy, j) \in Seq(Texts \cup {Empty})
  BY <1>3, RemoveAtType
<1>5. less \in Segments
  BY <1>2, <1>4 DEF Segments, Filters
<1>6. segments \in Seq(Segments)
  BY <1>1, <1>2, <1>5, ExceptSeq
<1>7. [state EXCEPT !.segments = segments] \in Models
  BY <1>1, <1>6 DEF Models
<1>8. [state EXCEPT !.segments[i].filterBy = RemoveAt(@, j)]
         = [state EXCEPT !.segments = segments]
  OBVIOUS
<1>9. QED
  BY <1>1, <1>7, <1>8, ChangeKeeps DEF RemoveFilter

\* AddFilter and SetFilter.
LEMMA FilterKeeps ==
    ASSUME IInv, NEW i \in DOMAIN state.segments, NEW j \in DOMAIN state.segments[i].filterBy,
           NEW text \in Texts, SetFilter(i, j, text)
    PROVE  Core'
<1>1. state \in Models /\ Core /\ state.segments \in Seq(Segments)
  BY DEF IInv, Core, Models
<1>2. state.segments[i] \in Segments
  BY <1>1, LenProperties, ElementOfSeq
<1>3. state.segments[i].filterBy \in Seq(Texts \cup {Empty})
  BY <1>2 DEF Segments, Filters
<1>4. j \in 1..Len(state.segments[i].filterBy)
  BY <1>3, LenProperties
<1>5. [state.segments[i].filterBy EXCEPT ![j] = text] \in Filters
  BY <1>3, <1>4, ExceptSeq DEF Filters
<1>6. QED
  BY <1>1, <1>5, InPlaceKeeps DEF SetFilter

LEMMA AddFilterKeeps ==
    ASSUME IInv, NEW i \in DOMAIN state.segments, AddFilter(i)
    PROVE  Core'
<1>1. state \in Models /\ Core /\ state.segments \in Seq(Segments)
  BY DEF IInv, Core, Models
<1>2. state.segments[i] \in Segments
  BY <1>1, LenProperties, ElementOfSeq
<1>3. state.segments[i].filterBy \in Seq(Texts \cup {Empty})
  BY <1>2 DEF Segments, Filters
<1>4. Append(state.segments[i].filterBy, Empty) \in Filters
  BY <1>3, AppendProperties DEF Filters
<1>5. QED
  BY <1>1, <1>4, InPlaceKeeps DEF AddFilter

\* Every filter a tag stands for is one.
LEMMA FiltersOfType ==
    ASSUME IInv, NEW tag, NEW filters \in FiltersOf(tag)
    PROVE  filters \in Filters
<1>1. state \in Models /\ state.segments \in Seq(Segments) /\ rounds \in Seq(Rounds)
  BY DEF IInv, Core, Models
<1>2. ASSUME NEW i \in DOMAIN state.segments PROVE state.segments[i].filterBy \in Filters
  <2>1. state.segments[i] \in Segments
    BY <1>1, <1>2, LenProperties, ElementOfSeq
  <2>2. QED
    BY <2>1 DEF Segments
<1>3. ASSUME NEW r \in DOMAIN rounds, NEW i \in DOMAIN rounds[r].model.segments
      PROVE  rounds[r].model.segments[i].filterBy \in Filters
  <2>1. rounds[r] \in Rounds
    BY <1>1, <1>3, LenProperties, ElementOfSeq
  <2>2. rounds[r].model.segments \in Seq(Segments)
    BY <2>1 DEF Rounds, Models
  <2>3. rounds[r].model.segments[i] \in Segments
    BY <1>3, <2>2, LenProperties, ElementOfSeq
  <2>4. QED
    BY <2>3 DEF Segments
<1>4. QED
  BY <1>2, <1>3 DEF FiltersOf

LEMMA TakeOverKeeps ==
    ASSUME IInv, TakeOver
    PROVE  Core'
<1>1. state \in Models /\ Core /\ typed.text \in Texts
  BY DEF IInv, TypeOK, Core, TakeOver
<1>2. CASE Change(state)
  BY <1>1, <1>2, ChangeKeeps
<1>3. ASSUME NEW filters \in FiltersOf(typed.tag),
             InPlace(typed.tag, [filters EXCEPT ![typed.index] = typed.text])
      PROVE  Core'
  <2> DEFINE new == [filters EXCEPT ![typed.index] = typed.text]
  <2>1. filters \in Seq(Texts \cup {Empty})
    BY FiltersOfType DEF Filters
  <2>2. Len(filters) \in Nat /\ filters \in [1..Len(filters) -> Texts \cup {Empty}]
    BY <2>1, LenProperties
  <2>3. new \in [1..Len(filters) -> Texts \cup {Empty}]
    BY <1>1, <2>2
  <2>4. new \in Filters
    BY <2>2, <2>3 DEF Filters
  <2> HIDE DEF new
  <2>5. InPlace(typed.tag, new)
    BY <1>3 DEF new
  <2>6. QED
    BY <1>1, <2>4, <2>5, InPlaceKeeps
<1>4. QED
  BY <1>2, <1>3 DEF TakeOver

\* Nothing changes that Core looks at.
LEMMA TypeKeeps ==
    ASSUME IInv, NEW i, NEW j, NEW text, Type(i, j, text)
    PROVE  Core'
<1>1. UNCHANGED <<state, rounds, wish, stale, swayed>> /\ Core
  BY DEF IInv, Type, histories
<1>2. QED
  BY <1>1 DEF Core, Promised, AllDue, AllSound, AllInStep, KeepsWhatIsSet, ChartFitsItsLabels, Settings

------------------------------------------------------------------------------
(* Events and calls.                                                       *)

\* A new round for the model shown is in step with it, hence with the wish.
LEMMA OnCountKeeps ==
    ASSUME IInv, OnCount
    PROVE  Core'
<1>1. /\ UNCHANGED <<state, wish, stale>> /\ rounds' = Grouped(rounds, state)
      /\ swayed' = (swayed \/ Settings(state) # wish)
      /\ state \in Models /\ rounds \in Seq(Rounds) /\ AllSound(rounds)
      /\ stale = {} => AllInStep(rounds, wish)
      /\ Settings(state) \in {wish} \cup stale
      /\ AllDue(rounds, {wish} \cup stale)
      /\ ~swayed /\ rounds # <<>> => Due(Last(rounds)) = wish
      /\ KeepsWhatIsSet /\ ChartFitsItsLabels
  BY DEF IInv, Core, Promised, OnCount, KeepsWhatIsSet
<1>2. /\ rounds' \in Seq(Rounds) /\ AllSound(rounds')
      /\ rounds' = <<>> => rounds = <<>>
      /\ stale = {} => AllInStep(rounds', wish)
  BY <1>1, GroupedIsSound
<1>3. state' \in Models /\ AllSound(rounds)' /\ (stale' = {} => AllInStep(rounds, wish)')
  BY <1>1, <1>2 DEF AllSound, AllInStep
<1>4. AllDue(rounds', {wish} \cup stale)
  <2> DEFINE S == {wish} \cup stale
  <2> HIDE DEF S
  <2>1. AllDue(rounds, S) /\ Settings(state) \in S
    BY <1>1 DEF S
  <2>2. AllDue(rounds', S)
    BY <1>1, <2>1, GroupedIsSound
  <2>3. QED
    BY <2>2 DEF S
<1>5. ~swayed' /\ rounds' # <<>> => Due(Last(rounds')) = wish
  BY <1>1, GroupedIsSound
<1>6. Promised'
  BY <1>1, <1>4, <1>5 DEF Promised, AllDue, Due, Settings
<1>7. KeepsWhatIsSet'
  BY <1>1, <1>2 DEF KeepsWhatIsSet, Settings
<1>8. ChartFitsItsLabels'
  BY <1>1, <1>2 DEF ChartFitsItsLabels
<1>9. QED
  BY <1>2, <1>3, <1>6, <1>7, <1>8 DEF Core

\* A segment that comes back is the one of the model, with what was asked for it.
LEMMA BackFacts ==
    ASSUME NEW round \in Rounds, Sound(round), NEW i \in Waiting(round),
           NEW data \in {None, round.asked[i]}
    PROVE  LET new == Back(round, i, data)
           IN  /\ new \in Rounds
               /\ Waiting(new) # {} => Sound(new)
               /\ DOMAIN new.back = DOMAIN round.model.segments
               /\ new.model = round.model /\ new.asked = round.asked
               /\ \A k \in DOMAIN new.asked :
                     new.back[k] # None => new.back[k].data \in {None, new.asked[k]}
               /\ \A settings : InStep(round, settings) => InStep(new, settings)
               /\ Due(new) = Due(round)
<1> DEFINE segments == round.model.segments
           segment == [segments[i] EXCEPT !.data = data]
           new == Back(round, i, data)
<1>1. /\ segments \in Seq(Segments) /\ round.back \in Seq(Segments \cup {None})
      /\ round.asked \in Seq(Asks)
      /\ i \in DOMAIN round.back /\ DOMAIN round.back = DOMAIN segments
      /\ DOMAIN round.asked = DOMAIN segments
  BY DEF Rounds, Models, Waiting, Sound
<1>2. i \in 1..Len(round.back) /\ i \in 1..Len(segments) /\ i \in 1..Len(round.asked)
  BY <1>1, LenProperties
<1>3. segments[i] \in Segments /\ round.asked[i] \in Asks
  BY <1>1, <1>2, ElementOfSeq
<1>4. /\ segment \in Segments /\ segment.data = data
      /\ segment.filterBy = segments[i].filterBy
  BY <1>3 DEF Segments
<1>5. [round.back EXCEPT ![i] = segment] \in Seq(Segments \cup {None})
  BY <1>1, <1>2, <1>4, ExceptSeq
<1>6. new = [round EXCEPT !.back = [round.back EXCEPT ![i] = segment]]
  BY DEF Back
<1> HIDE DEF segment, new
<1>7. /\ new \in Rounds /\ new.model = round.model /\ new.asked = round.asked
      /\ new.back = [round.back EXCEPT ![i] = segment]
  BY <1>5, <1>6 DEF Rounds
<1>8. /\ DOMAIN new.back = DOMAIN segments
      /\ new.back[i] = segment
      /\ \A k \in DOMAIN segments \ {i} : new.back[k] = round.back[k]
  BY <1>1, <1>7
<1>9. \A k \in DOMAIN new.asked :
         new.back[k] # None => new.back[k].data \in {None, new.asked[k]}
  BY <1>1, <1>4, <1>7, <1>8 DEF Sound
<1>10. Waiting(new) # {} => Sound(new)
  BY <1>1, <1>7, <1>8, <1>9 DEF Sound
<1>11. ASSUME NEW settings, InStep(round, settings) PROVE InStep(new, settings)
  BY <1>1, <1>4, <1>7, <1>8, <1>11 DEF InStep
<1>12. Due(new) = Due(round)
  <2> DEFINE Filter(theRound, k) ==
               IF theRound.back[k] = None THEN theRound.model.segments[k].filterBy
               ELSE theRound.back[k].filterBy
  <2>1. ASSUME NEW k \in DOMAIN segments
        PROVE  Filter(new, k) = Filter(round, k)
    BY <1>4, <1>7, <1>8, <2>1 DEF Waiting
  <2>2. [k \in DOMAIN new.model.segments |-> Filter(new, k)]
           = [k \in DOMAIN round.model.segments |-> Filter(round, k)]
    BY <1>7, <2>1
  <2>3. QED
    BY <1>1, <1>7, <1>8, <2>2, DueSettings
<1>13. QED
  BY <1>7, <1>8, <1>9, <1>10, <1>11, <1>12 DEF new

\* The call is not the last of its round: the model shown stays.
LEMMA BackKeeps ==
    ASSUME IInv, NEW r \in DOMAIN rounds, NEW i \in Waiting(rounds[r]),
           NEW data \in {None, rounds[r].asked[i]},
           Waiting(Back(rounds[r], i, data)) # {}, Answer(r, i, data)
    PROVE  Core'
<1> DEFINE new == Back(rounds[r], i, data)
<1>1. /\ UNCHANGED <<state, wish, stale, swayed>> /\ rounds' = [rounds EXCEPT ![r] = new]
      /\ state \in Models /\ rounds \in Seq(Rounds) /\ AllSound(rounds)
      /\ stale = {} => AllInStep(rounds, wish)
      /\ Promised /\ KeepsWhatIsSet
  BY DEF IInv, Core, Answer
<1>2. /\ r \in 1..Len(rounds) /\ DOMAIN rounds = 1..Len(rounds)
      /\ rounds[r] \in Rounds /\ Sound(rounds[r])
  BY <1>1, LenProperties, ElementOfSeq DEF AllSound
<1>3. /\ new \in Rounds /\ Sound(new)
      /\ \A settings : InStep(rounds[r], settings) => InStep(new, settings)
      /\ Due(new) = Due(rounds[r])
  BY <1>2, BackFacts
<1> HIDE DEF new
<1>4. rounds' \in Seq(Rounds) /\ DOMAIN rounds' = DOMAIN rounds
  BY <1>1, <1>2, <1>3, ExceptSeq
<1>5. \A k \in DOMAIN rounds' : rounds'[k] = IF k = r THEN new ELSE rounds[k]
  BY <1>1
<1>6. AllSound(rounds)'
  BY <1>1, <1>3, <1>4, <1>5 DEF AllSound
<1>7. stale' = {} => AllInStep(rounds, wish)'
  BY <1>1, <1>2, <1>3, <1>4, <1>5 DEF AllInStep
<1>8. rounds' # <<>> /\ Len(rounds') = Len(rounds) /\ Len(rounds) \in Nat
  <2>1. /\ Len(rounds') \in Nat /\ DOMAIN rounds' = 1..Len(rounds') /\ r \in DOMAIN rounds'
        /\ Len(rounds) \in Nat
    BY <1>1, <1>2, <1>4, LenProperties
  <2>2. QED
    BY <1>2, <1>4, <2>1, EmptySeq
<1>9. \A k \in DOMAIN rounds : Due(rounds'[k]) = Due(rounds[k])
  BY <1>3, <1>4, <1>5
<1>10. AllDue(rounds', {wish} \cup stale)
  BY <1>1, <1>4, <1>9 DEF Promised, AllDue
<1>11. ~swayed' => Due(Last(rounds')) = wish
  <2>1. Len(rounds) \in DOMAIN rounds /\ rounds # <<>>
    BY <1>2, <1>8, EmptySeq
  <2>2. QED
    BY <1>1, <1>8, <1>9, <2>1 DEF Promised, Last
<1>12. Promised'
  BY <1>1, <1>10, <1>11 DEF Promised, AllDue, Due, Settings
<1>13. KeepsWhatIsSet'
  BY <1>1, <1>8 DEF KeepsWhatIsSet, Settings
<1>14. QED
  BY <1>1, <1>4, <1>6, <1>7, <1>8, <1>12, <1>13 DEF Core, ChartFitsItsLabels

\* It is the last one: the model of the round is shown, as it has come back.
LEMMA LastKeeps ==
    ASSUME IInv, NEW r \in DOMAIN rounds, NEW i \in Waiting(rounds[r]),
           NEW data \in {None, rounds[r].asked[i]},
           Waiting(Back(rounds[r], i, data)) = {}, Answer(r, i, data)
    PROVE  Core'
<1> DEFINE new == Back(rounds[r], i, data)
           segments == new.model.segments
<1>1. /\ UNCHANGED <<wish, stale>>
      /\ swayed' = (swayed \/ (1 < Len(rounds) /\ r = Len(rounds)))
      /\ state' = Result(new) /\ rounds' = RemoveAt(rounds, r)
      /\ rounds \in Seq(Rounds) /\ AllSound(rounds)
      /\ stale = {} => AllInStep(rounds, wish)
      /\ Promised
  BY DEF IInv, Core, Answer, Completed
<1>2. rounds[r] \in Rounds /\ Sound(rounds[r])
  BY <1>1, LenProperties, ElementOfSeq DEF AllSound
<1>3. /\ new \in Rounds /\ DOMAIN new.back = DOMAIN segments
      /\ DOMAIN new.asked = DOMAIN segments
      /\ new.model = rounds[r].model /\ new.asked = rounds[r].asked
      /\ \A k \in DOMAIN new.asked :
            new.back[k] # None => new.back[k].data \in {None, new.asked[k]}
      /\ \A settings : InStep(rounds[r], settings) => InStep(new, settings)
      /\ Due(new) = Due(rounds[r])
  <2> HIDE DEF new
  <2>1. /\ new \in Rounds /\ DOMAIN new.back = DOMAIN rounds[r].model.segments
        /\ new.model = rounds[r].model /\ new.asked = rounds[r].asked
        /\ \A k \in DOMAIN new.asked :
              new.back[k] # None => new.back[k].data \in {None, new.asked[k]}
        /\ \A settings : InStep(rounds[r], settings) => InStep(new, settings)
        /\ Due(new) = Due(rounds[r])
    BY <1>2, BackFacts DEF new
  <2>2. DOMAIN rounds[r].asked = DOMAIN rounds[r].model.segments
    BY <1>2 DEF Sound
  <2>3. QED
    BY <2>1, <2>2
<1>4. \A k \in DOMAIN new.back : new.back[k] # None
  BY DEF Waiting
<1>5. \A k \in DOMAIN segments : /\ new.asked[k].groupBy = new.model.groupBy
                                 /\ new.asked[k].from = new.model.from
                                 /\ new.asked[k].to = new.model.to
  BY <1>2, <1>3 DEF Sound
<1> HIDE DEF new
<1>6. new.model \in Models /\ new.back \in Seq(Segments)
  <2>1. new.model \in Models /\ new.back \in Seq(Segments \cup {None})
    BY <1>3 DEF Rounds
  <2>2. Len(new.back) \in Nat /\ DOMAIN new.back = 1..Len(new.back)
        /\ new.back \in [1..Len(new.back) -> Segments \cup {None}]
    BY <2>1, LenProperties
  <2>3. new.back \in [1..Len(new.back) -> Segments]
    BY <1>4, <2>2
  <2>4. QED
    BY <2>1, <2>2, <2>3
<1>7. /\ state' \in Models /\ state'.segments = new.back
      /\ state'.mode = new.model.mode /\ state'.groupBy = new.model.groupBy
      /\ state'.from = new.model.from /\ state'.to = new.model.to
  BY <1>1, <1>6 DEF Result, Models
<1>8. /\ rounds' \in Seq(Rounds)
      /\ \A k \in DOMAIN rounds' : \E l \in DOMAIN rounds : rounds'[k] = rounds[l]
  BY <1>1, RemoveAtType, RemoveAtFacts
<1>9. AllSound(rounds)' /\ (stale' = {} => AllInStep(rounds, wish)')
  BY <1>1, <1>8 DEF AllSound, AllInStep
<1>10. stale = {} => InStep(new, wish)
  BY <1>1, <1>3 DEF AllInStep
<1>11. Settings(state') = Due(rounds[r])
  <2>1. Due(new)
           = [mode |-> new.model.mode, groupBy |-> new.model.groupBy,
              from |-> new.model.from, to |-> new.model.to,
              filters |-> [k \in DOMAIN segments |->
                             IF new.back[k] = None THEN segments[k].filterBy
                             ELSE new.back[k].filterBy]]
    BY <1>3, DueSettings
  <2>2. [k \in DOMAIN segments |-> IF new.back[k] = None THEN segments[k].filterBy
                                   ELSE new.back[k].filterBy]
           = [k \in DOMAIN new.back |-> new.back[k].filterBy]
    BY <1>3, <1>4
  <2>3. Settings(state') = Due(new)
    BY <1>7, <2>1, <2>2 DEF Settings
  <2>4. QED
    BY <1>3, <2>3
<1>12. Len(rounds) \in Nat /\ r \in 1..Len(rounds) /\ DOMAIN rounds = 1..Len(rounds)
  BY <1>1, LenProperties
<1>13. AllDue(rounds', {wish} \cup stale)
  BY <1>1, <1>8 DEF Promised, AllDue
<1>14. /\ r # Len(rounds) => rounds' # <<>> /\ Last(rounds') = Last(rounds)
       /\ r = Len(rounds) /\ r = 1 => rounds' = <<>>
  BY <1>1, <1>12, RemoveAtLast
<1>15. ~swayed' => IF rounds' = <<>> THEN Due(rounds[r]) = wish
                   ELSE Due(Last(rounds')) = wish
  <2> SUFFICES ASSUME ~swayed' PROVE IF rounds' = <<>> THEN Due(rounds[r]) = wish
                                     ELSE Due(Last(rounds')) = wish
    OBVIOUS
  <2>1. rounds # <<>>
    BY <1>12, EmptySeq
  <2>2. Due(Last(rounds)) = wish
    BY <1>1, <2>1 DEF Promised
  <2>3. CASE r = Len(rounds)
    <3>1. r = 1
      <4>1. ~(1 < Len(rounds))
        BY <1>1, <2>3, Zenon
      <4>2. QED
        BY <1>12, <2>3, <4>1
    <3>2. rounds' = <<>>
      BY <1>14, <2>3, <3>1
    <3>3. Due(rounds[r]) = wish
      BY <2>2, <2>3 DEF Last
    <3>4. QED
      BY <3>2, <3>3
  <2>4. CASE r # Len(rounds)
    BY <1>14, <2>2, <2>4
  <2>5. QED
    BY <2>3, <2>4
<1>16. Promised'
  BY <1>1, <1>13, <1>15 DEF Promised, AllDue, Due, Settings
<1>17. KeepsWhatIsSet'
  <2>1. Settings(state') \in {wish} \cup stale
    BY <1>1, <1>11, <1>12 DEF Promised, AllDue
  <2>2. rounds' = <<>> /\ ~swayed' => Settings(state') = wish
    BY <1>11, <1>15
  <2>3. QED
    BY <1>1, <2>1, <2>2 DEF KeepsWhatIsSet, Settings
<1>18. ChartFitsItsLabels'
  <2> SUFFICES ASSUME NEW k \in DOMAIN new.back, new.back[k].data # None
               PROVE  /\ new.back[k].data.groupBy = new.model.groupBy
                      /\ new.back[k].data.from = new.model.from
                      /\ new.back[k].data.to = new.model.to
                      /\ stale = {} => new.back[k].data.filterBy = new.back[k].filterBy
    BY <1>1, <1>7 DEF ChartFitsItsLabels
  <2>1. new.back[k].data = new.asked[k] /\ k \in DOMAIN segments
    BY <1>3, <1>4
  <2>2. stale = {} => new.asked[k].filterBy = new.back[k].filterBy
    BY <1>3, <1>4, <1>10 DEF InStep
  <2>3. QED
    BY <1>5, <2>1, <2>2
<1>19. QED
  BY <1>7, <1>8, <1>9, <1>16, <1>17, <1>18 DEF Core

LEMMA AnswerKeeps ==
    ASSUME IInv, NEW r \in DOMAIN rounds, NEW i \in Waiting(rounds[r]),
           Counts(r, i) \/ Fails(r, i)
    PROVE  Core'
<1>1. PICK data \in {None, rounds[r].asked[i]} : Answer(r, i, data)
  BY DEF Counts, Fails
<1>2. QED
  BY <1>1, BackKeeps, LastKeeps

------------------------------------------------------------------------------
(* Bounds, and the theorems.                                               *)

Bounds ==
    /\ Len(rounds) <= MaxRounds
    /\ typed = None \/ typed.text \in Texts
    /\ acts \in 0..MaxActs
    /\ events \in 0..MaxEvents
    /\ failures \in 0..MaxFailures

LEMMA CoreAndBounds ==
    ASSUME Core, Bounds
    PROVE  IInv
  BY DEF IInv, TypeOK, Core, Bounds, AllSound, Sound

LEMMA UserBounds ==
    ASSUME IInv, NEW model, NEW inRounds, NEW inLent, NEW ofTags,
           Update(inRounds, inLent, model, ofTags), Act, UNCHANGED <<typed, events, failures>>
    PROVE  Bounds'
  BY BoundsAssumption DEF IInv, TypeOK, Update, Act, Bounds

LEMMA NextBounds ==
    ASSUME IInv, Next
    PROVE  Bounds'
<1>1. /\ Len(rounds) <= MaxRounds
      /\ typed = None \/ typed.text \in Texts
      /\ acts \in 0..MaxActs /\ events \in 0..MaxEvents /\ failures \in 0..MaxFailures
      /\ MaxEvents \in Nat /\ MaxFailures \in Nat /\ MaxActs \in Nat
  BY BoundsAssumption DEF IInv, TypeOK
<1>2. ASSUME NEW mode \in Modes, SetMode(mode) PROVE Bounds'
  BY <1>2, UserBounds DEF SetMode, Change
<1>3. ASSUME NEW g \in GroupBys, SetGroupBy(g) PROVE Bounds'
  BY <1>3, UserBounds DEF SetGroupBy, Change
<1>4. ASSUME NEW date \in Dates, SetFrom(date) \/ SetTo(date) PROVE Bounds'
  BY <1>4, UserBounds DEF SetFrom, SetTo, Change
<1>5. ASSUME NEW q \in Quick, SetQuick(q) PROVE Bounds'
  BY <1>5, UserBounds DEF SetQuick
<1>6. CASE AddSegment
  BY <1>6, UserBounds DEF AddSegment, Change
<1>7. CASE RemoveSegment
  BY <1>7, UserBounds DEF RemoveSegment, Change
<1>8. ASSUME NEW i \in DOMAIN state.segments, AddFilter(i) PROVE Bounds'
  BY <1>8, UserBounds DEF AddFilter, InPlace
<1>9. ASSUME NEW i \in DOMAIN state.segments, NEW j \in DOMAIN state.segments[i].filterBy,
             \/ RemoveFilter(i, j)
             \/ \E text \in Texts : SetFilter(i, j, text) \/ Type(i, j, text)
      PROVE  Bounds'
  <2>1. CASE RemoveFilter(i, j)
    BY <2>1, UserBounds DEF RemoveFilter, Change
  <2>2. ASSUME NEW text \in Texts, SetFilter(i, j, text) PROVE Bounds'
    BY <2>2, UserBounds DEF SetFilter, InPlace
  <2>3. ASSUME NEW text \in Texts, Type(i, j, text) PROVE Bounds'
    BY <1>1, <2>3 DEF Type, Act, Bounds
  <2>4. QED
    BY <1>9, <2>1, <2>2, <2>3
<1>10. CASE TakeOver
  <2>1. PICK inRounds, inLent, model, ofTags : Update(inRounds, inLent, model, ofTags)
    BY <1>10 DEF TakeOver, Change, InPlace
  <2>2. QED
    BY <1>1, <1>10, <2>1 DEF TakeOver, Update, Bounds
<1>11. CASE OnCount
  BY <1>1, <1>11 DEF OnCount, Bounds
<1>12. ASSUME NEW r \in DOMAIN rounds, NEW i \in Waiting(rounds[r]),
              NEW data, Answer(r, i, data)
       PROVE  Len(rounds') <= MaxRounds /\ UNCHANGED <<typed, acts, events>>
  <2>1. rounds \in Seq(Rounds) /\ Len(rounds) \in Nat /\ MaxRounds \in Nat
    BY BoundsAssumption, LenProperties DEF IInv, Core
  <2>2. CASE rounds' = RemoveAt(rounds, r)
    <3>1. rounds' \in Seq(Rounds) /\ Len(rounds') <= Len(rounds)
      BY <2>1, <2>2, RemoveAtType
    <3>2. Len(rounds') \in Nat
      BY <3>1, LenProperties
    <3>3. QED
      BY <1>1, <1>12, <2>1, <3>1, <3>2 DEF Answer
  <2>3. CASE rounds' = [rounds EXCEPT ![r] = Back(rounds[r], i, data)]
    <3>1. Len(rounds') = Len(rounds)
      BY <2>1, <2>3
    <3>2. QED
      BY <1>1, <1>12, <3>1 DEF Answer
  <2>4. QED
    BY <1>12, <2>2, <2>3 DEF Answer, Completed
<1>13. ASSUME NEW r \in DOMAIN rounds, NEW i \in Waiting(rounds[r]), Counts(r, i)
       PROVE  Bounds'
  BY <1>1, <1>12, <1>13 DEF Counts, Bounds
<1>14. ASSUME NEW r \in DOMAIN rounds, NEW i \in Waiting(rounds[r]), Fails(r, i)
       PROVE  Bounds'
  BY <1>1, <1>12, <1>14 DEF Fails, Bounds
<1>15. QED
  BY <1>2, <1>3, <1>4, <1>5, <1>6, <1>7, <1>8, <1>9, <1>10, <1>11, <1>13, <1>14 DEF Next

LEMMA NextCore ==
    ASSUME IInv, Next
    PROVE  Core'
<1>1. ASSUME NEW mode \in Modes, SetMode(mode) PROVE Core'
  <2>1. PICK date \in Dates, g \in GroupBys : TRUE
    BY DEF IInv, Core, Models
  <2>2. QED
    BY <1>1, SettingKeeps
<1>2. ASSUME NEW g \in GroupBys, SetGroupBy(g) PROVE Core'
  <2>1. PICK date \in Dates : TRUE
    BY DEF IInv, Core, Models
  <2>2. QED
    BY <1>2, SettingKeeps DEF Modes
<1>3. ASSUME NEW date \in Dates, SetFrom(date) \/ SetTo(date) PROVE Core'
  <2>1. PICK g \in GroupBys : TRUE
    BY DEF IInv, Core, Models
  <2>2. QED
    BY <1>3, SettingKeeps DEF Modes
<1>4. ASSUME NEW i \in DOMAIN state.segments, NEW j \in DOMAIN state.segments[i].filterBy,
             \/ RemoveFilter(i, j)
             \/ \E text \in Texts : SetFilter(i, j, text) \/ Type(i, j, text)
      PROVE  Core'
  BY <1>4, RemoveFilterKeeps, FilterKeeps, TypeKeeps
<1>5. QED
  BY <1>1, <1>2, <1>3, <1>4, SetQuickKeeps, AddSegmentKeeps, RemoveSegmentKeeps,
     AddFilterKeeps, TakeOverKeeps, OnCountKeeps, AnswerKeeps DEF Next

\* The dashboard and the example page begin well.
LEMMA InitHolds == Init => IInv
<1> SUFFICES ASSUME Init PROVE IInv
  OBVIOUS
<1>1. PICK q \in Quick, segments \in {<<>>, <<[filterBy |-> <<>>, data |-> None]>>} :
         state = [mode |-> "quick", groupBy |-> q.groupBy, from |-> q.from, to |-> q.to,
                  segments |-> segments]
  BY DEF Init
<1>2. segments \in Seq(Segments)
  <2>1. [filterBy |-> <<>>, data |-> None] \in Segments
    BY EmptySeq DEF Segments, Filters
  <2>2. CASE segments = <<>>
    BY <2>2, EmptySeq
  <2>3. CASE segments = <<[filterBy |-> <<>>, data |-> None]>>
    <3> DEFINE segment == [filterBy |-> <<>>, data |-> None]
    <3> HIDE DEF segment
    <3>1. <<segment>> \in Seq(Segments)
      BY <2>1 DEF segment
    <3>2. QED
      BY <2>3, <3>1 DEF segment
  <2>4. QED
    BY <2>2, <2>3
<1>3. state \in Models
  <2>1. q.groupBy \in GroupBys /\ q.from \in Dates /\ q.to \in Dates
    BY BoundsAssumption
  <2>2. QED
    BY <1>1, <1>2, <2>1 DEF Models, Modes
<1>4. /\ rounds = Grouped(<<>>, state) /\ wish = Settings(state) /\ typed = None
      /\ stale = {} /\ acts = 0 /\ events = 0 /\ failures = 0
  BY DEF Init
<1>5. /\ <<>> \in Seq(Rounds) /\ AllSound(<<>>) /\ AllInStep(<<>>, wish)
      /\ AllDue(<<>>, {wish})
  BY DEF AllSound, AllInStep, AllDue
<1>6. /\ rounds \in Seq(Rounds) /\ AllSound(rounds) /\ AllInStep(rounds, wish)
      /\ rounds = <<>> => state.segments = <<>>
      /\ AllDue(rounds, {wish})
      /\ rounds # <<>> => Due(Last(rounds)) = wish
  BY <1>3, <1>4, <1>5, GroupedIsSound
<1>7. Promised /\ KeepsWhatIsSet /\ ChartFitsItsLabels
  BY <1>4, <1>6 DEF Promised, KeepsWhatIsSet, ChartFitsItsLabels
<1>8. Core
  BY <1>3, <1>6, <1>7 DEF Core
<1>9. Len(rounds) <= 1
  <2>1. CASE state.segments = <<>>
    BY <1>4, <2>1, EmptySeq DEF Grouped
  <2>2. CASE state.segments # <<>>
    <3>1. Begun(state) \in Rounds
      BY <1>3, <2>2, BegunIsSound
    <3>2. rounds = Append(<<>>, Begun(state))
      BY <1>4, <2>2 DEF Grouped, Begun
    <3>3. Len(rounds) = Len(<<>>) + 1
      BY <1>5, <3>1, <3>2, AppendProperties
    <3>4. QED
      BY <3>3, EmptySeq
  <2>3. QED
    BY <2>1, <2>2
<1>10. Bounds
  <2>1. Len(rounds) \in Nat
    BY <1>6, LenProperties
  <2>2. QED
    BY <1>4, <1>9, <2>1, BoundsAssumption DEF Bounds
<1>11. QED
  BY <1>8, <1>10, CoreAndBounds

LEMMA NextHolds == IInv /\ [Next]_vars => IInv'
<1> SUFFICES ASSUME IInv, [Next]_vars PROVE IInv'
  OBVIOUS
<1>1. CASE Next
  <2>1. Core' /\ Bounds'
    BY <1>1, NextCore, NextBounds
  <2>2. IInv' = (TypeOK' /\ Core')
    BY DEF IInv
  <2>3. TypeOK'
    BY <2>1 DEF TypeOK, Core, Bounds, AllSound, Sound
  <2>4. QED
    BY <2>1, <2>2, <2>3
<1>2. CASE UNCHANGED vars
  BY <1>2 DEF vars, histories, IInv, TypeOK, Core, AllSound, AllInStep, Promised, AllDue,
              KeepsWhatIsSet, ChartFitsItsLabels, Settings
<1>3. QED
  BY <1>1, <1>2

LEMMA Invariant == Spec => []IInv
<1>1. QED
  BY InitHolds, NextHolds, PTL DEF Spec

\* The model of the widget, the models of the rounds and what has come back for
\* them are of one form, and the bounds hold.
THEOREM TypeCorrect == Spec => []TypeOK
<1>1. IInv => TypeOK
  BY DEF IInv
<1>2. QED
  BY <1>1, Invariant, PTL

\* An answer that is late undoes what the user did only to what a round under way
\* at the last change stands for, and for good only if the round begun last was
\* overtaken or an event asked for an older model (index.js: update, onCount;
\* ctrl.js: grouped).
THEOREM SettingsKept == Spec => []KeepsWhatIsSet
<1>1. IInv => KeepsWhatIsSet
  BY DEF IInv, Core
<1>2. QED
  BY <1>1, Invariant, PTL

\* When the last call is back, every chart was asked for what stands above it
\* (ctrl.js: grouped).
THEOREM ChartsFit == Spec => []ChartFitsItsLabels
<1>1. IInv => ChartFitsItsLabels
  BY DEF IInv, Core
<1>2. QED
  BY <1>1, Invariant, PTL
==============================================================================
