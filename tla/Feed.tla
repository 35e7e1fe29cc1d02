-------------------------------- MODULE Feed --------------------------------
(***************************************************************************)
(* What a browser may rely on when it opens an EventSource on              *)
(* GET /events of blah-events: from some offset of the "trainings" topic   *)
(* on, the connection carries every text message, once, in the order of    *)
(* the topic, until the connection is closed.  Nothing is said about       *)
(* threads, locks, channels or consumer offsets: those belong to           *)
(* EventStream, which implements this module.                              *)
(***************************************************************************)
EXTENDS Naturals

CONSTANTS
    Clients,    \* connections; a browser that reconnects is another one
    Text        \* offsets of "trainings" whose payload is UTF-8 text

VARIABLES
    topic,      \* number of messages in "trainings"; offsets are 1..topic
    phase,      \* of each connection: "none", "open" or "closed"
    cursor,     \* offset of the last message each connection has carried
    carried     \* number of messages it has carried: a repetition is no stutter

vars == <<topic, phase, cursor, carried>>

\* b is the first text offset after a.
Follows(a, b) ==
    /\ b \in Text
    /\ a < b
    /\ \A t \in Text : ~(a < t /\ t < b)

TypeOK ==
    /\ topic \in Nat
    /\ phase \in [Clients -> {"none", "open", "closed"}]
    /\ cursor \in [Clients -> Nat]
    /\ carried \in [Clients -> Nat]

Init ==
    /\ topic = 0
    /\ phase = [c \in Clients |-> "none"]
    /\ cursor = [c \in Clients |-> 0]
    /\ carried = [c \in Clients |-> 0]

\* A streaming job announces a training.
Publish ==
    /\ topic' = topic + 1
    /\ UNCHANGED <<phase, cursor, carried>>

\* Connections open at some point of the topic: one that is made, or all that
\* were made before there was anything to connect them to.
Subscribe(S) ==
    /\ \A c \in S : phase[c] = "none"
    /\ phase' = [c \in Clients |-> IF c \in S THEN "open" ELSE phase[c]]
    /\ \E start \in 0..topic :
          cursor' = [c \in Clients |-> IF c \in S THEN start ELSE cursor[c]]
    /\ UNCHANGED <<topic, carried>>

\* The connection carries the next text message, never skipping one.
Deliver(c) ==
    /\ phase[c] = "open"
    /\ \E m \in 1..topic :
          /\ Follows(cursor[c], m)
          /\ cursor' = [cursor EXCEPT ![c] = m]
    /\ carried' = [carried EXCEPT ![c] = @ + 1]
    /\ UNCHANGED <<topic, phase>>

\* Connections end: one client leaves, or the service goes down with all.
Close(S) ==
    /\ \A c \in S : phase[c] # "closed"
    /\ phase' = [c \in Clients |-> IF c \in S THEN "closed" ELSE phase[c]]
    /\ UNCHANGED <<topic, cursor, carried>>

Next ==
    \/ Publish
    \/ \E c \in Clients : Deliver(c)
    \/ \E S \in SUBSET Clients : Subscribe(S) \/ Close(S)

Spec == Init /\ [][Next]_vars
=============================================================================
