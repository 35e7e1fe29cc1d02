--------------------------------- MODULE Jobs ---------------------------------
(***************************************************************************)
(* blah-jobs: the list of Chronos jobs and the buttons that start and stop *)
(* them (src/blah-jobs).                                                   *)
(*                                                                         *)
(*  - The service is one thread.  GET /jobs asks Chronos twice, first for  *)
(*    the jobs and then, as CSV, for their states, and joins both answers  *)
(*    by name.  PUT and DELETE /jobs/<name> are passed on.                 *)
(*  - The widget asks for the list on start and every five seconds.  A     *)
(*    call works on the state of the widget at the moment it is made and   *)
(*    its answer replaces the state, so answers that overtake each other   *)
(*    bring old states back.                                               *)
(*                                                                         *)
(* Chronos, the network and the user are the environment.                  *)
(***************************************************************************)
EXTENDS Naturals, FiniteSets

CONSTANTS
    Names,          \* names of jobs
    Polls,          \* calls of GET /jobs that may be under way at once
    Clicks,         \* clicks that may be under way at once
    MaxEvents       \* bound: changes in Chronos, clicks and failures

ASSUME BoundsAssumption == MaxEvents \in Nat
ASSUME CallsAssumption == Polls \cap Clicks = {}

VARIABLES
    chronos,        \* state of each job in Chronos ("absent": no such job)
    up,             \* the service is running
    polls,          \* the calls of GET /jobs
    clicks,         \* the calls of PUT and DELETE /jobs/<name>
    shown,          \* the widget's state: a row for each job it knows
    events

vars == <<chronos, up, polls, clicks, shown, events>>

Status == {"idle", "queued", "running"}

Row == [status : Status, clicked : BOOLEAN]

\* A widget's state: a function from some of the names to rows.
Model == UNION {[S -> Row] : S \in SUBSET Names}

NoRows == [n \in {} |-> 0]

\* A call of GET /jobs: "sent" until Chronos has named the jobs, "csv" until it
\* has given their states, "answered" until the widget has the answer.  moved:
\* a job came or went between the two requests (history).
Poll == [stage : {"none", "sent", "csv", "answered"}, names : SUBSET Names,
         answer : Model, moved : BOOLEAN]

NoPoll == [stage |-> "none", names |-> {}, answer |-> NoRows, moved |-> FALSE]

\* The call of a click, with the state of the widget at the click.
ClickCall == [stage : {"sent", "answered"}, what : {"run", "stop"},
              name : Names, model : Model]

NoClick == [stage |-> "none"]

TypeOK ==
    /\ chronos \in [Names -> Status \cup {"absent"}]
    /\ up \in BOOLEAN
    /\ polls \in [Polls -> Poll]
    /\ clicks \in [Clicks -> ClickCall \cup {NoClick}]
    /\ shown \in Model
    /\ events \in 0..MaxEvents

Init ==
    /\ chronos \in [Names -> {"idle", "absent"}]
    /\ up = TRUE
    /\ polls = [p \in Polls |-> NoPoll]
    /\ clicks = [c \in Clicks |-> NoClick]
    /\ shown = NoRows
    /\ events = 0

Known == {n \in Names : chronos[n] # "absent"}

\* An event of the environment, of which there are MaxEvents.
Event == events < MaxEvents /\ events' = events + 1

------------------------------------------------------------------------------
(* Chronos.                                                                *)

\* A job is added or removed by someone else: a list between its two requests
\* lacks it, or still names it.
ChangeJobs(n) ==
    /\ Event
    /\ chronos' = [chronos EXCEPT ![n] = IF @ = "absent" THEN "idle" ELSE "absent"]
    /\ polls' = [p \in Polls |-> [polls[p] EXCEPT !.moved = polls[p].stage = "csv"]]
    /\ UNCHANGED <<up, clicks, shown>>

\* The schedule of a job has come.
Due(n) ==
    /\ chronos[n] = "idle"
    /\ Event
    /\ chronos' = [chronos EXCEPT ![n] = "queued"]
    /\ UNCHANGED <<up, polls, clicks, shown>>

Launch(n) ==
    /\ chronos[n] = "queued"
    /\ chronos' = [chronos EXCEPT ![n] = "running"]
    /\ UNCHANGED <<up, polls, clicks, shown, events>>

End(n) ==
    /\ chronos[n] = "running"
    /\ chronos' = [chronos EXCEPT ![n] = "idle"]
    /\ UNCHANGED <<up, polls, clicks, shown, events>>

------------------------------------------------------------------------------
(* The service: GET /jobs.                                                 *)

\* The poll is answered with rows.
AnswerPoll(p, rows) ==
    polls' = [polls EXCEPT ![p].stage = "answered", ![p].answer = rows,
                           ![p].names = {}, ![p].moved = FALSE]

\* Chronos answers the first request: the jobs.
GetJobs(p) ==
    /\ up
    /\ polls[p].stage = "sent"
    /\ polls' = [polls EXCEPT ![p].stage = "csv", ![p].names = Known]
    /\ UNCHANGED <<chronos, up, clicks, shown, events>>

\* Mutants of Joined: a job without a line keeps no state; the states are read
\* from the wrong column.
JoinedRaw(names, told) ==
    [n \in names |-> [status |-> chronos[n], clicked |-> FALSE]]
JoinedIdle(names, told) ==
    [n \in names |-> [status |-> "idle", clicked |-> FALSE]]

\* The jobs Chronos named joined with the states it gives now of those in told; a
\* job without a state is idle.
Joined(names, told) ==
    [n \in names |->
        [status |-> IF n \in told THEN chronos[n] ELSE "idle",
         clicked |-> FALSE]]

\* Chronos answers the second request: the states.
GetStates(p) ==
    /\ up
    /\ polls[p].stage = "csv"
    /\ AnswerPoll(p, Joined(polls[p].names, Known))
    /\ UNCHANGED <<chronos, up, clicks, shown, events>>

\* Chronos answers the second request with an error, or any text but the states:
\* the code of the answer is not looked at, and no line of it is about a job.
GetError(p) ==
    /\ up
    /\ polls[p].stage = "csv"
    /\ Event
    /\ AnswerPoll(p, Joined(polls[p].names, {}))
    /\ UNCHANGED <<chronos, up, clicks, shown>>

\* Either request fails: the error is logged and the answer is an empty list.
ChronosFails(p) ==
    /\ up
    /\ polls[p].stage \in {"sent", "csv"}
    /\ Event
    /\ AnswerPoll(p, NoRows)
    /\ UNCHANGED <<chronos, up, clicks, shown>>

\* The connection to the widget is lost.
PollLost(p) ==
    /\ polls[p].stage # "none"
    /\ Event
    /\ polls' = [polls EXCEPT ![p] = NoPoll]
    /\ UNCHANGED <<chronos, up, clicks, shown>>

\* Every call in the process fails.  The widget ignores a failed poll (its
\* callback throws) and takes a failed click like an answered one.
CallsFail ==
    /\ polls' = [p \in Polls |->
                    IF polls[p].stage \in {"sent", "csv"} THEN NoPoll ELSE polls[p]]
    /\ clicks' = [c \in Clicks |->
                    IF clicks[c].stage = "sent"
                    THEN [clicks[c] EXCEPT !.stage = "answered"] ELSE clicks[c]]

\* Chronos answers the first request with something else than jobs, or the
\* second with something else than UTF-8: unwrap() ends the process.
Panic(p) ==
    /\ up
    /\ polls[p].stage \in {"sent", "csv"}
    /\ Event
    /\ up' = FALSE
    /\ CallsFail
    /\ UNCHANGED <<chronos, shown>>

\* While the service is down its calls are refused.
Refuse ==
    /\ ~up
    /\ CallsFail
    /\ UNCHANGED <<chronos, up, shown, events>>

Restart ==
    /\ ~up
    /\ up' = TRUE
    /\ UNCHANGED <<chronos, polls, clicks, shown, events>>

------------------------------------------------------------------------------
(* The service: PUT and DELETE /jobs/<name>.                               *)

Answered(c) == clicks' = [clicks EXCEPT ![c].stage = "answered"]

\* Chronos starts the job, if there is one that does not run.
Run(c) ==
    /\ up
    /\ clicks[c].stage = "sent"
    /\ clicks[c].what = "run"
    /\ chronos' = [chronos EXCEPT ![clicks[c].name] = IF @ = "idle" THEN "queued" ELSE @]
    /\ Answered(c)
    /\ UNCHANGED <<up, polls, shown, events>>

\* Chronos kills the tasks of the job.
Stop(c) ==
    /\ up
    /\ clicks[c].stage = "sent"
    /\ clicks[c].what = "stop"
    /\ chronos' = [chronos EXCEPT ![clicks[c].name] = IF @ = "running" THEN "idle" ELSE @]
    /\ Answered(c)
    /\ UNCHANGED <<up, polls, shown, events>>

\* The request never reaches Chronos.
ClickFails(c) ==
    /\ clicks[c].stage = "sent"
    /\ Event
    /\ Answered(c)
    /\ UNCHANGED <<chronos, up, polls, shown>>

------------------------------------------------------------------------------
(* The widget.                                                             *)

\* On start and every five seconds: update(ctrl.list).
Timer(p) ==
    /\ polls[p].stage = "none"
    /\ polls' = [polls EXCEPT ![p] = [NoPoll EXCEPT !.stage = "sent"]]
    /\ UNCHANGED <<chronos, up, clicks, shown, events>>

\* Mutant of ListLands: the marks of the rows on the screen are kept.
ListLandsMarked(p) ==
    /\ polls[p].stage = "answered"
    /\ shown' = [n \in DOMAIN polls[p].answer |->
                    IF n \in DOMAIN shown
                    THEN [polls[p].answer[n] EXCEPT !.clicked = shown[n].clicked]
                    ELSE polls[p].answer[n]]
    /\ polls' = [polls EXCEPT ![p] = NoPoll]
    /\ UNCHANGED <<chronos, up, clicks, events>>

\* The rows of a list answer take the place of all rows, marks included.
ListLands(p) ==
    /\ polls[p].stage = "answered"
    /\ shown' = polls[p].answer
    /\ polls' = [polls EXCEPT ![p] = NoPoll]
    /\ UNCHANGED <<chronos, up, clicks, events>>

\* The button of a row: none while the job is queued or marked as clicked.
Button(row) ==
    IF row.status = "queued" \/ row.clicked THEN "none"
    ELSE IF row.status = "running" THEN "stop" ELSE "run"

\* The user clicks: update(ctrl.run) or update(ctrl.stop).
Click(c, n) ==
    /\ clicks[c].stage = "none"
    /\ n \in DOMAIN shown
    /\ Button(shown[n]) # "none"
    /\ Event
    /\ clicks' = [clicks EXCEPT ![c] =
                    [stage |-> "sent", what |-> Button(shown[n]), name |-> n,
                     model |-> shown]]
    /\ UNCHANGED <<chronos, up, polls, shown>>

\* Mutant of ModelOf: the state at the time of the answer.
ModelOfNow(c) == shown

\* The state an answered click works on: the one at the time of the click.
ModelOf(c) == clicks[c].model

\* The answer, or the error: that state returns with the job marked.
ClickLands(c) ==
    /\ clicks[c].stage = "answered"
    /\ shown' = [ModelOf(c) EXCEPT ![clicks[c].name].clicked = TRUE]
    /\ clicks' = [clicks EXCEPT ![c] = NoClick]
    /\ UNCHANGED <<chronos, up, polls, events>>

------------------------------------------------------------------------------
Environment ==
    \/ \E n \in Names : ChangeJobs(n) \/ Due(n) \/ Launch(n) \/ End(n)
    \/ \E c \in Clicks, n \in Names : Click(c, n)
    \/ \E c \in Clicks : ClickFails(c)
    \/ \E p \in Polls : GetError(p) \/ ChronosFails(p) \/ PollLost(p) \/ Panic(p)

PollStep(p) == Timer(p) \/ GetJobs(p) \/ GetStates(p) \/ ListLands(p)

ClickStep(c) == Run(c) \/ Stop(c) \/ ClickLands(c)

Next ==
    \/ Environment
    \/ Refuse
    \/ Restart
    \/ \E p \in Polls : PollStep(p)
    \/ \E c \in Clicks : ClickStep(c)

Spec == Init /\ [][Next]_vars

\* Chronos launches what is queued and jobs end; the platform starts the
\* service again; the timer ticks, and every call comes to an end.
Fairness ==
    /\ \A n \in Names : WF_vars(Launch(n)) /\ WF_vars(End(n))
    /\ WF_vars(Restart)
    /\ \A p \in Polls : WF_vars(PollStep(p))
    /\ \A c \in Clicks : WF_vars(ClickStep(c))

FairSpec == Spec /\ Fairness

------------------------------------------------------------------------------
(* Properties.                                                             *)

\* findIndexByName always finds the job: the state that an answered click
\* marks has a row for it, although lists without the job may have been shown
\* since the click (src/blah-jobs/assets/ctrl.js: run, stop).
ClickFindsItsJob ==
    \A c \in Clicks : clicks[c] # NoClick => clicks[c].name \in DOMAIN ModelOf(c)

\* The jobs as they are in Chronos, and all of them idle.
Truth == [n \in Known |-> [status |-> chronos[n], clicked |-> FALSE]]
AllIdle == [n \in Known |-> [status |-> "idle", clicked |-> FALSE]]

\* The service has made the list of a poll.
Listed(p) == polls[p].stage \in {"sent", "csv"} /\ polls'[p].stage = "answered"

\* A list is joined from two requests made one after the other.  If no job came
\* or went in between it is still what Chronos said at one moment, or a request
\* has gone wrong and it is one of the two lists made of that: an empty one, or
\* one in which every job is idle (src/blah-jobs/src/chronos.rs: list).
AnswerIsOneMoment ==
    [][\A p \in Polls : Listed(p) /\ ~polls[p].moved =>
            \/ polls'[p].answer = Truth
            \/ Event /\ polls'[p].answer \in {NoRows, AllIdle}]_vars

\* When nothing happens any more in Chronos, on the network and at the mouse,
\* the widget comes to show the jobs as they are and keeps showing them: no
\* overtaken answer, reverted state, mark or restart is the last word
\* (src/blah-jobs/assets/index.js: update, the interval).
SettlesOnTruth == <>[](shown = Truth)
==============================================================================
