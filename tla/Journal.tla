------------------------------- MODULE Journal -------------------------------
(***************************************************************************)
(* What the callers of blah-data and the readers of its table and topic    *)
(* may rely on: an event is stored before its message is sent and told to  *)
(* be accepted between the two; a request that is told anything else       *)
(* leaves nothing; a message comes Retries times too often at most, and    *)
(* once it is given up it does not come back.  When the service stops,     *)
(* the messages it still had are given up all at once, and the insert it   *)
(* was busy with may have been done.  Nothing is said about connections,   *)
(* threads or restarts: those belong to DataService, which implements this *)
(* module.  Collection takes its events from such a journal.               *)
(***************************************************************************)
EXTENDS Naturals

CONSTANTS
    Events,     \* requests, any of which may be an event
    Retries     \* times a message may be repeated

VARIABLES
    rows,       \* how often each event is in the table "events"
    log,        \* how often each event is in the topic "events"
    outbox,     \* events whose message may still reach the topic
    status      \* HTTP status told to the caller, 0 for none

vars == <<rows, log, outbox, status>>

Init ==
    /\ rows = [e \in Events |-> 0]
    /\ log = [e \in Events |-> 0]
    /\ outbox = {}
    /\ status = [e \in Events |-> 0]

\* An event about which nothing was told is stored, for the first time.
Stored(e) ==
    /\ rows[e] = 0
    /\ status[e] = 0
    /\ rows' = [rows EXCEPT ![e] = 1]

Store(e) ==
    /\ Stored(e)
    /\ outbox' = outbox \cup {e}
    /\ UNCHANGED <<log, status>>

\* The caller is told that the event was taken, while its message is on its way.
Accept(e) ==
    /\ e \in outbox
    /\ rows[e] = 1
    /\ status[e] = 0
    /\ status' = [status EXCEPT ![e] = 204]
    /\ UNCHANGED <<rows, log, outbox>>

\* Something else is told of what is not in the table and will never be.
Refuse(e) ==
    /\ rows[e] = 0
    /\ status[e] = 0
    /\ \E code \in {200, 400, 404} : status' = [status EXCEPT ![e] = code]
    /\ UNCHANGED <<rows, log, outbox>>

\* The message reaches the topic, for the last time or, if that is not known to
\* the producer, to be repeated.
Deliver(e) ==
    /\ e \in outbox
    /\ log' = [log EXCEPT ![e] = @ + 1]
    /\ \/ outbox' = outbox \ {e}
       \/ log[e] < Retries /\ outbox' = outbox
    /\ UNCHANGED <<rows, status>>

\* It never will (again).
GiveUp(e) ==
    /\ e \in outbox
    /\ outbox' = outbox \ {e}
    /\ UNCHANGED <<rows, log, status>>

\* The service stops, perhaps in the middle of an insert.
Stop ==
    /\ outbox' = {}
    /\ rows' = rows \/ \E e \in Events : Stored(e)
    /\ UNCHANGED <<log, status>>

Next ==
    \/ Stop
    \/ \E e \in Events :
          Store(e) \/ Accept(e) \/ Refuse(e) \/ Deliver(e) \/ GiveUp(e)

Spec == Init /\ [][Next]_vars
==============================================================================
