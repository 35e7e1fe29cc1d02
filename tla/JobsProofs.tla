------------------------------ MODULE JobsProofs ------------------------------
(***************************************************************************)
(* Proofs about Jobs, for any jobs, any number of overlapping calls and    *)
(* any number of changes and failures.                                     *)
(***************************************************************************)
EXTENDS Jobs, TLAPS

\* A list between its two requests still names the jobs there are, unless one
\* came or went.
NamesHold ==
    \A p \in Polls :
        polls[p].stage = "csv" /\ ~polls[p].moved => polls[p].names = Known

\* The state kept by a click has a row for the clicked job.
ClickedIsKept ==
    \A c \in Clicks :
        clicks[c].stage # "none" => clicks[c].name \in DOMAIN clicks[c].model

IInv == TypeOK /\ NamesHold /\ ClickedIsKept

------------------------------------------------------------------------------
(* The operators.                                                          *)

LEMMA NoRowsIsModel == NoRows \in Model
<1>1. NoRows \in [{} -> Row]
  BY DEF NoRows
<1>2. QED
  BY <1>1 DEF Model

\* A list joined from two requests is a state of the widget.
LEMMA JoinedIsModel ==
    ASSUME TypeOK, NEW S \in SUBSET Names, NEW told \in SUBSET Known
    PROVE  Joined(S, told) \in Model
<1>1. \A n \in S : (IF n \in told THEN chronos[n] ELSE "idle") \in Status
  BY DEF TypeOK, Known, Status
<1>2. Joined(S, told) \in [S -> Row]
  BY <1>1 DEF Joined, Row
<1>3. QED
  BY <1>2 DEF Model

\* Marking a row of a state gives a state with the same rows.
LEMMA MarkedIsModel ==
    ASSUME NEW rows \in Model, NEW n \in DOMAIN rows
    PROVE  [rows EXCEPT ![n].clicked = TRUE] \in Model
<1>1. PICK S \in SUBSET Names : rows \in [S -> Row]
  BY DEF Model
<1>2. [rows[n] EXCEPT !.clicked = TRUE] \in Row
  BY <1>1 DEF Row
<1>3. [rows EXCEPT ![n].clicked = TRUE] \in [S -> Row]
  BY <1>1, <1>2
<1>4. QED
  BY <1>3 DEF Model

\* Only a row with a button can be clicked, and the button is run or stop.
LEMMA ButtonKinds == \A row \in Row : Button(row) \in {"none", "run", "stop"}
  BY DEF Button

LEMMA NoPollIsPoll == NoPoll \in Poll
  BY NoRowsIsModel DEF NoPoll, Poll

\* A click is either under way or none.
LEMMA ClickKinds ==
    ASSUME TypeOK, NEW c \in Clicks, clicks[c].stage # "none"
    PROVE  clicks[c] \in ClickCall
  BY DEF TypeOK, NoClick

LEMMA InitIInv == Init => IInv
<1>1. Init => TypeOK
  BY BoundsAssumption, NoPollIsPoll, NoRowsIsModel DEF Init, TypeOK, Status
<1>2. QED
  BY <1>1 DEF Init, IInv, NamesHold, ClickedIsKept, NoPoll, NoClick

------------------------------------------------------------------------------
(* Steps of Chronos.                                                       *)

LEMMA ChangeJobsStep == ASSUME IInv, NEW n \in Names, ChangeJobs(n) PROVE IInv'
<1>1. \A p \in Polls : /\ polls'[p] \in Poll
                       /\ polls'[p].stage = "csv" => polls'[p].moved
  BY DEF IInv, TypeOK, ChangeJobs, Poll
<1>2. TypeOK'
  <2>1. chronos' \in [Names -> Status \cup {"absent"}]
    BY DEF IInv, TypeOK, ChangeJobs, Status
  <2>2. polls' \in [Polls -> Poll]
    BY <1>1 DEF ChangeJobs
  <2>3. QED
    BY <2>1, <2>2, BoundsAssumption DEF IInv, TypeOK, ChangeJobs, Event
<1>3. QED
  BY <1>1, <1>2 DEF IInv, NamesHold, ClickedIsKept, ChangeJobs

\* A job that stays there: what is known does not change.
LEMMA SameKnown ==
    ASSUME TypeOK, NEW n \in Names, NEW s \in Status, chronos[n] # "absent",
           chronos' = [chronos EXCEPT ![n] = s]
    PROVE  Known' = Known /\ chronos' \in [Names -> Status \cup {"absent"}]
  BY DEF TypeOK, Known, Status

LEMMA ChronosStep ==
    ASSUME IInv, NEW n \in Names, Due(n) \/ Launch(n) \/ End(n) PROVE IInv'
<1>1. Known' = Known /\ chronos' \in [Names -> Status \cup {"absent"}]
  BY SameKnown DEF IInv, Due, Launch, End, Status
<1>2. events' \in 0..MaxEvents
  BY BoundsAssumption DEF IInv, TypeOK, Due, Launch, End, Event
<1>3. UNCHANGED <<up, polls, clicks, shown>>
  BY DEF Due, Launch, End
<1>4. QED
  BY <1>1, <1>2, <1>3 DEF IInv, TypeOK, NamesHold, ClickedIsKept

------------------------------------------------------------------------------
(* Steps of the calls.                                                     *)

\* One poll changes, to a record that keeps what a list needs.
LEMMA PollChange ==
    ASSUME IInv, NEW p \in Polls, NEW r \in Poll,
           polls' = [polls EXCEPT ![p] = r],
           r.stage = "csv" /\ ~r.moved => r.names = Known,
           UNCHANGED <<chronos, clicks>>, up' \in BOOLEAN, shown' \in Model,
           events' \in 0..MaxEvents
    PROVE  IInv'
  BY DEF IInv, TypeOK, NamesHold, ClickedIsKept, Known

LEMMA GetJobsStep == ASSUME IInv, NEW p \in Polls, GetJobs(p) PROVE IInv'
<1> DEFINE r == [polls[p] EXCEPT !.stage = "csv", !.names = Known]
<1>1. r \in Poll /\ r.names = Known
  BY DEF IInv, TypeOK, Poll, Known
<1>2. polls' = [polls EXCEPT ![p] = r]
  BY DEF GetJobs, IInv, TypeOK
<1>3. QED
  BY <1>1, <1>2, PollChange DEF GetJobs, IInv, TypeOK

LEMMA AnswerPollStep ==
    ASSUME IInv, NEW p \in Polls, NEW rows \in Model, AnswerPoll(p, rows),
           UNCHANGED <<chronos, up, clicks, shown>>, events' \in 0..MaxEvents
    PROVE  IInv'
<1> DEFINE r == [polls[p] EXCEPT !.stage = "answered", !.answer = rows,
                                 !.names = {}, !.moved = FALSE]
<1>1. r \in Poll /\ r.stage = "answered"
  BY DEF IInv, TypeOK, Poll
<1>2. polls' = [polls EXCEPT ![p] = r]
  BY DEF AnswerPoll, IInv, TypeOK
<1>3. QED
  BY <1>1, <1>2, PollChange DEF IInv, TypeOK

LEMMA GetStatesStep == ASSUME IInv, NEW p \in Polls, GetStates(p) PROVE IInv'
<1>1. Joined(polls[p].names, Known) \in Model
  BY JoinedIsModel DEF IInv, TypeOK, Poll
<1>2. QED
  BY <1>1, AnswerPollStep DEF GetStates, IInv, TypeOK

LEMMA GetErrorStep == ASSUME IInv, NEW p \in Polls, GetError(p) PROVE IInv'
<1>1. Joined(polls[p].names, {}) \in Model
  BY JoinedIsModel DEF IInv, TypeOK, Poll
<1>2. events' \in 0..MaxEvents
  BY BoundsAssumption DEF IInv, TypeOK, GetError, Event
<1>3. QED
  BY <1>1, <1>2, AnswerPollStep DEF GetError

LEMMA ChronosFailsStep ==
    ASSUME IInv, NEW p \in Polls, ChronosFails(p) PROVE IInv'
<1>1. events' \in 0..MaxEvents
  BY BoundsAssumption DEF IInv, TypeOK, ChronosFails, Event
<1>2. QED
  BY <1>1, NoRowsIsModel, AnswerPollStep DEF ChronosFails

LEMMA PollLostStep == ASSUME IInv, NEW p \in Polls, PollLost(p) PROVE IInv'
<1>1. events' \in 0..MaxEvents
  BY BoundsAssumption DEF IInv, TypeOK, PollLost, Event
<1>2. NoPoll.stage = "none"
  BY DEF NoPoll
<1>3. QED
  BY <1>1, <1>2, NoPollIsPoll, PollChange DEF PollLost, IInv, TypeOK

LEMMA TimerStep == ASSUME IInv, NEW p \in Polls, Timer(p) PROVE IInv'
<1> DEFINE r == [NoPoll EXCEPT !.stage = "sent"]
<1>1. r \in Poll /\ r.stage = "sent"
  BY NoPollIsPoll DEF Poll, NoPoll
<1>2. QED
  BY <1>1, PollChange DEF Timer, IInv, TypeOK

LEMMA ListLandsStep == ASSUME IInv, NEW p \in Polls, ListLands(p) PROVE IInv'
<1>1. shown' \in Model
  BY DEF IInv, TypeOK, Poll, ListLands
<1>2. NoPoll.stage = "none"
  BY DEF NoPoll
<1>3. QED
  BY <1>1, <1>2, NoPollIsPoll, PollChange DEF ListLands, IInv, TypeOK

\* The end of the process, and of the calls of a process that is down.
LEMMA CallsFailStep ==
    ASSUME IInv, CallsFail, UNCHANGED <<chronos, shown>>, up' \in BOOLEAN,
           events' \in 0..MaxEvents
    PROVE  IInv'
<1>1. polls' \in [Polls -> Poll]
  BY NoPollIsPoll DEF IInv, TypeOK, CallsFail
<1>2. NamesHold'
  BY DEF IInv, NamesHold, CallsFail, NoPoll, Known
<1>3. \A c \in Clicks : clicks[c].stage = "sent" =>
        [clicks[c] EXCEPT !.stage = "answered"] \in ClickCall
  BY ClickKinds DEF IInv, ClickCall
<1>4. clicks' \in [Clicks -> ClickCall \cup {NoClick}]
  BY <1>3 DEF IInv, TypeOK, CallsFail
<1>5. ClickedIsKept'
  <2> SUFFICES ASSUME NEW c \in Clicks, clicks'[c].stage # "none"
               PROVE  clicks'[c].name \in DOMAIN clicks'[c].model
    BY DEF ClickedIsKept
  <2>1. CASE clicks[c].stage = "sent"
    <3>1. clicks[c] \in ClickCall
      BY <2>1, ClickKinds DEF IInv
    <3>2. clicks'[c].name = clicks[c].name /\ clicks'[c].model = clicks[c].model
      BY <2>1, <3>1 DEF CallsFail, ClickCall
    <3>3. QED
      BY <2>1, <3>2 DEF IInv, ClickedIsKept
  <2>2. CASE clicks[c].stage # "sent"
    BY <2>2 DEF IInv, ClickedIsKept, CallsFail
  <2>3. QED
    BY <2>1, <2>2
<1>6. QED
  BY <1>1, <1>2, <1>4, <1>5 DEF IInv, TypeOK

\* One click changes, to a record that keeps what its answer needs.
LEMMA ClickChange ==
    ASSUME IInv, NEW c \in Clicks, NEW r \in ClickCall \cup {NoClick},
           clicks' = [clicks EXCEPT ![c] = r],
           r.stage # "none" => r.name \in DOMAIN r.model,
           UNCHANGED <<up, polls>>, shown' \in Model, events' \in 0..MaxEvents,
           chronos' \in [Names -> Status \cup {"absent"}], Known' = Known
    PROVE  IInv'
  BY DEF IInv, TypeOK, NamesHold, ClickedIsKept

LEMMA AnsweredStep ==
    ASSUME IInv, NEW c \in Clicks, clicks[c].stage = "sent", Answered(c),
           UNCHANGED <<up, polls, shown>>, events' \in 0..MaxEvents,
           chronos' \in [Names -> Status \cup {"absent"}], Known' = Known
    PROVE  IInv'
<1> DEFINE r == [clicks[c] EXCEPT !.stage = "answered"]
<1>1. clicks[c] \in ClickCall
  BY ClickKinds DEF IInv
<1>2. r \in ClickCall /\ r.name = clicks[c].name /\ r.model = clicks[c].model
  BY <1>1 DEF ClickCall
<1>3. clicks' = [clicks EXCEPT ![c] = r]
  BY DEF Answered, IInv, TypeOK
<1>4. QED
  BY <1>2, <1>3, ClickChange DEF IInv, TypeOK, ClickedIsKept

\* A job that is started or stopped stays there.
LEMMA RunStopStep ==
    ASSUME IInv, NEW c \in Clicks, Run(c) \/ Stop(c) PROVE IInv'
<1>1. clicks[c].stage = "sent"
  BY DEF Run, Stop
<1>2. clicks[c].name \in Names
  BY <1>1, ClickKinds DEF IInv, ClickCall
<1>3. Known' = Known /\ chronos' \in [Names -> Status \cup {"absent"}]
  BY <1>2 DEF IInv, TypeOK, Run, Stop, Known, Status
<1>4. QED
  BY <1>1, <1>3, AnsweredStep DEF Run, Stop, IInv, TypeOK

LEMMA ClickFailsStep == ASSUME IInv, NEW c \in Clicks, ClickFails(c) PROVE IInv'
<1>1. events' \in 0..MaxEvents
  BY BoundsAssumption DEF IInv, TypeOK, ClickFails, Event
<1>2. QED
  BY <1>1, AnsweredStep DEF ClickFails, IInv, TypeOK, Known

LEMMA NewClickStep ==
    ASSUME IInv, NEW c \in Clicks, NEW n \in Names, Click(c, n) PROVE IInv'
<1> DEFINE r == [stage |-> "sent", what |-> Button(shown[n]), name |-> n,
                 model |-> shown]
<1>1. shown[n] \in Row
  BY DEF IInv, TypeOK, Model, Click
<1>2. r \in ClickCall
  BY <1>1, ButtonKinds DEF IInv, TypeOK, Click, ClickCall
<1>3. events' \in 0..MaxEvents
  BY BoundsAssumption DEF IInv, TypeOK, Click, Event
<1>4. Known' = Known
  BY DEF Click, Known
<1>5. QED
  BY <1>2, <1>3, <1>4, ClickChange DEF Click, IInv, TypeOK

LEMMA ClickLandsStep == ASSUME IInv, NEW c \in Clicks, ClickLands(c) PROVE IInv'
<1>1. clicks[c] \in ClickCall /\ clicks[c].name \in DOMAIN clicks[c].model
  BY ClickKinds DEF IInv, ClickLands, ClickedIsKept
<1>2. shown' \in Model
  BY <1>1, MarkedIsModel DEF ClickLands, ModelOf, ClickCall
<1>3. Known' = Known
  BY DEF ClickLands, Known
<1>4. NoClick.stage = "none"
  BY DEF NoClick
<1>5. QED
  BY <1>2, <1>3, <1>4, ClickChange DEF ClickLands, IInv, TypeOK

------------------------------------------------------------------------------
(* The invariant.                                                          *)

LEMMA NextIInv == IInv /\ [Next]_vars => IInv'
<1> SUFFICES ASSUME IInv, [Next]_vars PROVE IInv'
  OBVIOUS
<1>1. ASSUME NEW n \in Names, ChangeJobs(n) \/ Due(n) \/ Launch(n) \/ End(n)
      PROVE  IInv'
  BY <1>1, ChangeJobsStep, ChronosStep
<1>2. ASSUME NEW p \in Polls, GetError(p) \/ ChronosFails(p) \/ PollLost(p)
      PROVE  IInv'
  BY <1>2, GetErrorStep, ChronosFailsStep, PollLostStep
<1>3. ASSUME NEW p \in Polls, Panic(p) PROVE IInv'
  <2>1. events' \in 0..MaxEvents
    BY <1>3, BoundsAssumption DEF IInv, TypeOK, Panic, Event
  <2>2. QED
    BY <1>3, <2>1, CallsFailStep DEF Panic
<1>4. CASE Refuse
  BY <1>4, CallsFailStep DEF Refuse, IInv, TypeOK
<1>5. CASE Restart
  BY <1>5 DEF Restart, IInv, TypeOK, NamesHold, ClickedIsKept, Known
<1>6. ASSUME NEW p \in Polls, PollStep(p) PROVE IInv'
  BY <1>6, TimerStep, GetJobsStep, GetStatesStep, ListLandsStep DEF PollStep
<1>7. ASSUME NEW c \in Clicks, ClickStep(c) PROVE IInv'
  BY <1>7, RunStopStep, ClickLandsStep DEF ClickStep
<1>8. ASSUME NEW c \in Clicks, NEW n \in Names, Click(c, n) PROVE IInv'
  BY <1>8, NewClickStep
<1>9. ASSUME NEW c \in Clicks, ClickFails(c) PROVE IInv'
  BY <1>9, ClickFailsStep
<1>10. CASE UNCHANGED vars
  BY <1>10 DEF vars, IInv, TypeOK, NamesHold, ClickedIsKept, Known
<1>11. QED
  BY <1>1, <1>2, <1>3, <1>4, <1>5, <1>6, <1>7, <1>8, <1>9, <1>10
     DEF Next, Environment

LEMMA Invariance == Spec => []IInv
<1>1. Init => IInv
  BY InitIInv
<1>2. IInv /\ [Next]_vars => IInv'
  BY NextIInv
<1>3. QED
  BY <1>1, <1>2, PTL DEF Spec

\* Every reachable state of the service, the widget and Chronos has the right
\* types.
THEOREM TypeCorrect == Spec => []TypeOK
<1>1. IInv => TypeOK
  BY DEF IInv
<1>2. QED
  BY <1>1, Invariance, PTL

\* An answered click always finds the row of its job, however many lists
\* without that job were shown since the click.
THEOREM ClickFinds == Spec => []ClickFindsItsJob
<1>1. IInv => ClickFindsItsJob
  BY DEF IInv, ClickedIsKept, ClickFindsItsJob, ModelOf, TypeOK, ClickCall, NoClick
<1>2. QED
  BY <1>1, Invariance, PTL

------------------------------------------------------------------------------
(* The list.                                                               *)

\* What the next-state relation may do to the stage of a poll.
LEMMA AnswersOnly ==
    ASSUME IInv, [Next]_vars, NEW p \in Polls,
           polls[p].stage \in {"sent", "csv"}, polls'[p].stage = "answered"
    PROVE  GetStates(p) \/ GetError(p) \/ ChronosFails(p)
<1>1. ASSUME NEW n \in Names, ChangeJobs(n) PROVE FALSE
  BY <1>1 DEF ChangeJobs, IInv, TypeOK, Poll
<1>2. ASSUME NEW q \in Polls, q # p,
             PollStep(q) \/ GetError(q) \/ ChronosFails(q) \/ PollLost(q)
      PROVE  FALSE
  BY <1>2 DEF PollStep, Timer, GetJobs, GetStates, ListLands, GetError, ChronosFails,
              PollLost, AnswerPoll, IInv, TypeOK
<1>3. ASSUME Timer(p) \/ GetJobs(p) \/ ListLands(p) \/ PollLost(p) PROVE FALSE
  BY <1>3 DEF Timer, GetJobs, ListLands, PollLost, NoPoll, IInv, TypeOK, Poll
<1>4. ASSUME CallsFail PROVE FALSE
  BY <1>4 DEF CallsFail, NoPoll
<1>5. ASSUME UNCHANGED polls PROVE FALSE
  BY <1>5
<1>6. QED
  BY <1>1, <1>2, <1>3, <1>4, <1>5
     DEF Next, Environment, PollStep, ClickStep, Due, Launch, End, Click,
         ClickFails, Run, Stop, ClickLands, Panic, Refuse, Restart, vars

\* With no job that came or went between its two requests, a list is what Chronos
\* said at one moment, or a request went wrong and the list is empty or shows every
\* job idle.
THEOREM OneMoment == Spec => AnswerIsOneMoment
<1>1. ASSUME IInv, [Next]_vars, NEW p \in Polls, Listed(p), ~polls[p].moved
      PROVE  \/ polls'[p].answer = Truth
             \/ Event /\ polls'[p].answer \in {NoRows, AllIdle}
  <2>1. CASE GetStates(p)
    <3>1. polls[p].names = Known
      BY <1>1, <2>1 DEF GetStates, IInv, NamesHold
    <3>2. polls'[p].answer = Joined(Known, Known)
      BY <1>1, <2>1, <3>1 DEF GetStates, AnswerPoll, IInv, TypeOK, Poll
    <3>3. QED
      BY <3>2 DEF Joined, Truth
  <2>2. CASE GetError(p)
    <3>1. polls[p].names = Known
      BY <1>1, <2>2 DEF GetError, IInv, NamesHold
    <3>2. polls'[p].answer = Joined(Known, {})
      BY <1>1, <2>2, <3>1 DEF GetError, AnswerPoll, IInv, TypeOK, Poll
    <3>3. QED
      BY <2>2, <3>2 DEF Joined, AllIdle, GetError
  <2>3. CASE ChronosFails(p)
    BY <1>1, <2>3 DEF ChronosFails, AnswerPoll, IInv, TypeOK, Poll
  <2>4. QED
    BY <1>1, <2>1, <2>2, <2>3, AnswersOnly DEF Listed
<1>2. IInv /\ [Next]_vars =>
        [\A p \in Polls : Listed(p) /\ ~polls[p].moved =>
            \/ polls'[p].answer = Truth
            \/ Event /\ polls'[p].answer \in {NoRows, AllIdle}]_vars
  BY <1>1
<1>3. QED
  BY <1>2, Invariance, PTL DEF Spec, AnswerIsOneMoment
==============================================================================
