----------------------------- MODULE Segmentation -----------------------------
(***************************************************************************)
(* The segmentation widget of blah-count                                   *)
(* (src/blah-count/serving/assets/segmentation): a chart of counts per     *)
(* segment, between two dates, by hour, day, month or year.                *)
(*                                                                         *)
(* The model of the widget is one value.  A change by the user makes a new *)
(* one and has the counts asked again, one call per segment, and so does   *)
(* an event that counts have changed.  When all calls of a round are back, *)
(* the model the round began with becomes the model of the widget again,   *)
(* with what has come.                                                     *)
(*                                                                         *)
(* Models are deep copies of one another, but for one thing: to change a   *)
(* filter is to change the segment itself, wherever else it is in use.     *)
(* Segments therefore have tags, by which the same one is known.           *)
(***************************************************************************)
EXTENDS Naturals, Sequences, FiniteSets, SequencesExt

CONSTANTS
    GroupBys,       \* steps of the chart
    Dates,          \* dates that can be entered
    Quick,          \* choices of the quick filter: a step and two dates
    Texts,          \* what a filter can be set to
    Empty,          \* a filter that is not set
    None,           \* no data, no input
    MaxSegments,    \* bound: segments
    MaxFilters,     \* bound: filters of a segment
    MaxRounds,      \* bound: rounds of calls under way
    MaxActs,        \* bound: actions of the user
    MaxEvents,      \* bound: events
    MaxFailures     \* bound: calls that fail

ASSUME BoundsAssumption ==
    /\ {MaxSegments, MaxFilters, MaxRounds, MaxActs, MaxEvents, MaxFailures} \subseteq Nat
    /\ MaxRounds > 0
    /\ Quick \subseteq [groupBy : GroupBys, from : Dates, to : Dates]

VARIABLES
    state,      \* the model shown: mode, step, dates and segments
    tags,       \* tags of its segments
    rounds,     \* rounds of calls under way, in the order they began
    lent,       \* tags of the segments of the models they began with
    typed,      \* text entered into a filter, not yet taken over, or None
    wish,       \* history: what was set when the user last changed something
    stale,      \* history: what the rounds would show that were under way then
    swayed,     \* history: a later round came back before one that shows the wish,
                \* or an event had counts asked for something else
    acts,
    events,
    failures

histories == <<wish, stale, swayed>>
vars == <<state, tags, rounds, lent, typed, histories, acts, events, failures>>

Modes == {"quick", "absolute"}

Filters == Seq(Texts \cup {Empty})

Asks == [groupBy : GroupBys, from : Dates, to : Dates, filterBy : Filters]

Segments == [filterBy : Filters, data : Asks \cup {None}]

Models == [mode : Modes, groupBy : GroupBys, from : Dates, to : Dates,
           segments : Seq(Segments)]

\* A round is the model it began with, what was asked for each segment, and the
\* segments that have come back.
Rounds == [model : Models, asked : Seq(Asks), back : Seq(Segments \cup {None})]

Waiting(round) == {i \in DOMAIN round.back : round.back[i] = None}

------------------------------------------------------------------------------
(* Models.                                                                 *)

\* Tags that are in use.
Used ==
    Range(tags) \cup UNION {Range(lent[r]) : r \in DOMAIN lent}
    \cup (IF typed = None THEN {} ELSE {typed.tag})

\* clone(): the segments of the copy are others, though they look the same.
Clone(n) ==
    LET last == CHOOSE t \in {0} \cup Used : \A i \in 1..n : t + i \notin Used
    IN  [i \in 1..n |-> last + i]

\* mkQuery().
MkQuery(model, segment) ==
    [groupBy |-> model.groupBy, from |-> model.from, to |-> model.to,
     filterBy |-> segment.filterBy]

\* What the user has set.
Settings(model) ==
    [mode |-> model.mode, groupBy |-> model.groupBy, from |-> model.from, to |-> model.to,
     filters |-> [i \in DOMAIN model.segments |-> model.segments[i].filterBy]]

\* What a round will show: a segment that is back is not changed any more.
Due(round) ==
    Settings([round.model EXCEPT !.segments =
                 [i \in DOMAIN @ |-> IF round.back[i] = None THEN @[i] ELSE round.back[i]]])

\* grouped(): a round for a model.  Without segments there is nothing to ask,
\* and the model comes back at once.
Grouped(inRounds, model) ==
    IF model.segments = <<>> THEN inRounds
    ELSE Append(inRounds,
                [model |-> model,
                 asked |-> [i \in DOMAIN model.segments |->
                              MkQuery(model, model.segments[i])],
                 back |-> [i \in DOMAIN model.segments |-> None]])

Lend(inLent, ofTags) == IF ofTags = <<>> THEN inLent ELSE Append(inLent, ofTags)

------------------------------------------------------------------------------

TypeOK ==
    /\ state \in Models
    /\ rounds \in Seq(Rounds)
    /\ \A r \in DOMAIN rounds :
          /\ Waiting(rounds[r]) # {}
          /\ DOMAIN rounds[r].back = DOMAIN rounds[r].model.segments
          /\ DOMAIN rounds[r].asked = DOMAIN rounds[r].model.segments
    /\ Len(rounds) <= MaxRounds
    /\ typed = None \/ typed.text \in Texts
    /\ acts \in 0..MaxActs
    /\ events \in 0..MaxEvents
    /\ failures \in 0..MaxFailures

\* The dashboard begins without segments, the example page with one.
Init ==
    /\ \E q \in Quick, segments \in {<<>>, <<[filterBy |-> <<>>, data |-> None]>>} :
          state = [mode |-> "quick", groupBy |-> q.groupBy, from |-> q.from, to |-> q.to,
                   segments |-> segments]
    /\ tags = [i \in DOMAIN state.segments |-> i]
    /\ rounds = Grouped(<<>>, state)
    /\ lent = Lend(<<>>, tags)
    /\ typed = None
    /\ wish = Settings(state)
    /\ stale = {}
    /\ swayed = FALSE
    /\ acts = 0 /\ events = 0 /\ failures = 0

------------------------------------------------------------------------------
(* The user.                                                               *)

Act == acts < MaxActs /\ acts' = acts + 1

\* History: a model without segments has no call to wait for.
Intended(inRounds, model) ==
    /\ wish' = Settings(model)
    /\ stale' = {Due(inRounds[r]) : r \in DOMAIN inRounds}
    /\ swayed' = (model.segments = <<>> /\ inRounds # <<>>)

\* Mutant of Update: the counts are asked for the model that was shown before.
UpdateAsksFirst(inRounds, inLent, model, ofTags) ==
    /\ state' = model
    /\ tags' = ofTags
    /\ rounds' = Grouped(inRounds, state)
    /\ lent' = Lend(inLent, tags)
    /\ Len(rounds') <= MaxRounds
    /\ Intended(inRounds, model)

\* update(): a new model is shown, and its counts are asked.
Update(inRounds, inLent, model, ofTags) ==
    /\ state' = model
    /\ tags' = ofTags
    /\ rounds' = Grouped(inRounds, model)
    /\ lent' = Lend(inLent, ofTags)
    /\ Len(rounds') <= MaxRounds
    /\ Intended(inRounds, model)

Change(model) == Update(rounds, lent, model, Clone(Len(model.segments)))

SetMode(mode) ==
    /\ Act
    /\ Change([state EXCEPT !.mode = mode])
    /\ UNCHANGED <<typed, events, failures>>

\* The absolute filter: a date, or the step.
SetFrom(date) ==
    /\ state.mode = "absolute"
    /\ Act
    /\ Change([state EXCEPT !.from = date])
    /\ UNCHANGED <<typed, events, failures>>

SetTo(date) ==
    /\ state.mode = "absolute"
    /\ Act
    /\ Change([state EXCEPT !.to = date])
    /\ UNCHANGED <<typed, events, failures>>

SetGroupBy(g) ==
    /\ state.mode = "absolute"
    /\ Act
    /\ Change([state EXCEPT !.groupBy = g])
    /\ UNCHANGED <<typed, events, failures>>

\* The quick filter: three updates in a row, each with a round of its own.
SetQuick(q) ==
    /\ state.mode = "quick"
    /\ Act
    /\ LET n == Len(state.segments)
           new == Clone(3 * n)
           first == [state EXCEPT !.groupBy = q.groupBy]
           second == [first EXCEPT !.from = q.from]
       IN  Update(Grouped(Grouped(rounds, first), second),
                  Lend(Lend(lent, SubSeq(new, 1, n)), SubSeq(new, n + 1, 2 * n)),
                  [second EXCEPT !.to = q.to],
                  SubSeq(new, 2 * n + 1, 3 * n))
    /\ UNCHANGED <<typed, events, failures>>

AddSegment ==
    /\ Len(state.segments) < MaxSegments
    /\ Act
    /\ Change([state EXCEPT !.segments = Append(@, [filterBy |-> <<Empty>>, data |-> None])])
    /\ UNCHANGED <<typed, events, failures>>

\* The handler names no segment, so it is the last one that goes, whichever
\* was clicked.
RemoveSegment ==
    /\ state.segments # <<>>
    /\ Act
    /\ Change([state EXCEPT !.segments = Front(@)])
    /\ UNCHANGED <<typed, events, failures>>

\* Segments, with other filters for the one with a tag.
With(segments, theirTags, tag, filters) ==
    [i \in DOMAIN segments |->
        IF theirTags[i] = tag THEN [segments[i] EXCEPT !.filterBy = filters] ELSE segments[i]]

\* A segment with other filters is still the same segment: every round that has
\* it sees them, and it goes itself into the new model, if it was in the old one.
InPlace(tag, filters) ==
    LET n == Len(state.segments)
        new == Clone(n)
    IN  Update([r \in DOMAIN rounds |->
                  [rounds[r] EXCEPT !.model.segments = With(@, lent[r], tag, filters)]],
               lent,
               [state EXCEPT !.segments = With(@, tags, tag, filters)],
               [i \in 1..n |-> IF tags[i] = tag THEN tag ELSE new[i]])

AddFilter(i) ==
    /\ Len(state.segments[i].filterBy) < MaxFilters
    /\ Act
    /\ InPlace(tags[i], Append(state.segments[i].filterBy, Empty))
    /\ UNCHANGED <<typed, events, failures>>

\* A choice from a list is taken over at once.
SetFilter(i, j, text) ==
    /\ Act
    /\ InPlace(tags[i], [state.segments[i].filterBy EXCEPT ![j] = text])
    /\ UNCHANGED <<typed, events, failures>>

\* Text is taken over half a second after the last key.
Type(i, j, text) ==
    /\ Act
    /\ typed' = [tag |-> tags[i], index |-> j, text |-> text]
    /\ UNCHANGED <<state, tags, rounds, lent, histories, events, failures>>

\* The filters of the segment with a tag, if it is still in use.
FiltersOf(tag) ==
    {state.segments[i].filterBy : i \in {i \in DOMAIN state.segments : tags[i] = tag}}
    \cup UNION {{rounds[r].model.segments[i].filterBy :
                   i \in {i \in DOMAIN rounds[r].model.segments : lent[r][i] = tag}} :
                r \in DOMAIN rounds}

\* The handler has the segment that was shown when the text was entered.  If
\* another model has come since, the text goes to a segment nobody sees.
TakeOver ==
    /\ typed # None
    /\ \/ /\ FiltersOf(typed.tag) = {}
          /\ Change(state)
       \/ \E filters \in FiltersOf(typed.tag) :
             InPlace(typed.tag, [filters EXCEPT ![typed.index] = typed.text])
    /\ typed' = None
    /\ UNCHANGED <<acts, events, failures>>

\* The clone loses the filter, not the segment.
RemoveFilter(i, j) ==
    /\ Act
    /\ Change([state EXCEPT !.segments[i].filterBy = RemoveAt(@, j)])
    /\ UNCHANGED <<typed, events, failures>>
------------------------------------------------------------------------------
(* Events and calls.                                                       *)

\* The server says that counts have changed.
OnCount ==
    /\ events < MaxEvents
    /\ events' = events + 1
    /\ rounds' = Grouped(rounds, state)
    /\ lent' = Lend(lent, tags)
    /\ Len(rounds') <= MaxRounds
    /\ swayed' = (swayed \/ Settings(state) # wish)
    /\ UNCHANGED <<state, tags, typed, wish, stale, acts, failures>>

\* The segment is copied as it is when its call is back, with the counts if
\* there was no error.
Back(round, i, data) ==
    [round EXCEPT !.back[i] = [round.model.segments[i] EXCEPT !.data = data]]

\* Mutant of Result: what has come goes into the model that is shown now.
ResultNow(round) ==
    [state EXCEPT !.segments =
        [i \in DOMAIN @ |-> IF i \in DOMAIN round.back
                            THEN [@[i] EXCEPT !.data = round.back[i].data] ELSE @[i]]]

\* The model of a round of which all calls are back.
Result(round) == [round.model EXCEPT !.segments = round.back]

\* Mutant of Completed: the round that has ended is kept.
CompletedKeeps(r, round) ==
    /\ state' = Result(round)
    /\ tags' = Clone(Len(Result(round).segments))
    /\ rounds' = [rounds EXCEPT ![r] = round]
    /\ UNCHANGED <<lent, swayed>>

Completed(r, round) ==
    /\ state' = Result(round)
    /\ tags' = Clone(Len(Result(round).segments))
    /\ rounds' = RemoveAt(rounds, r)
    /\ lent' = RemoveAt(lent, r)
    /\ swayed' = (swayed \/ (1 < Len(rounds) /\ r = Len(rounds)))

\* A call is back; with the last one of a round its model is shown, whatever has
\* been shown since it began.
Answer(r, i, data) ==
    LET round == Back(rounds[r], i, data)
    IN  /\ i \in Waiting(rounds[r])
        /\ IF Waiting(round) = {} THEN Completed(r, round)
           ELSE /\ rounds' = [rounds EXCEPT ![r] = round]
                /\ UNCHANGED <<state, tags, lent, swayed>>
        /\ UNCHANGED <<typed, wish, stale, acts, events>>

Counts(r, i) == Answer(r, i, rounds[r].asked[i]) /\ UNCHANGED failures

Fails(r, i) ==
    /\ failures < MaxFailures
    /\ failures' = failures + 1
    /\ Answer(r, i, None)

------------------------------------------------------------------------------

Next ==
    \/ \E mode \in Modes : SetMode(mode)
    \/ \E g \in GroupBys : SetGroupBy(g)
    \/ \E date \in Dates : SetFrom(date) \/ SetTo(date)
    \/ \E q \in Quick : SetQuick(q)
    \/ AddSegment
    \/ RemoveSegment
    \/ \E i \in DOMAIN state.segments :
          \/ AddFilter(i)
          \/ \E j \in DOMAIN state.segments[i].filterBy :
                \/ RemoveFilter(i, j)
                \/ \E text \in Texts : SetFilter(i, j, text) \/ Type(i, j, text)
    \/ TakeOver
    \/ OnCount
    \/ \E r \in DOMAIN rounds : \E i \in Waiting(rounds[r]) : Counts(r, i) \/ Fails(r, i)

Spec == Init /\ [][Next]_vars

------------------------------------------------------------------------------
(* Properties.                                                             *)

\* Each answer replaces the whole model by the one its round began with, so one
\* that is late undoes what the user has done since.  It is never undone but to what
\* a round under way at the last change stands for, with the filters changed in
\* place meanwhile, and not at all if there was none; and once all calls are back it
\* is as the user wished, unless the round begun last was not the last to come back,
\* or an event found an older model shown and had its counts asked (index.js:
\* update, onCount; ctrl.js: grouped, updateSegmentFilter).
KeepsWhatIsSet ==
    /\ Settings(state) \in {wish} \cup stale
    /\ rounds = <<>> /\ ~swayed => Settings(state) = wish

\* When the last call is back, every chart there is was asked for the step and
\* the dates shown above it, however the user changed them while calls were under
\* way, and for the filters shown beside it, if no call was under way at the last
\* change (ctrl.js: grouped, updateSegmentFilter).
ChartFitsItsLabels ==
    rounds = <<>> =>
        \A i \in DOMAIN state.segments :
            LET asked == state.segments[i].data
            IN  asked # None =>
                    /\ asked.groupBy = state.groupBy
                    /\ asked.from = state.from /\ asked.to = state.to
                    /\ stale = {} => asked.filterBy = state.segments[i].filterBy
==============================================================================
