-------------------------- MODULE EventStreamProofs --------------------------
(***************************************************************************)
(* Proofs about EventStream, for every set of clients, every set of text   *)
(* offsets and every bound.                                                *)
(*                                                                         *)
(* NothingMissed is not inductive: that a broadcast misses nobody depends  *)
(* on which senders it has already been through (Senders), on where the    *)
(* consumer stands (Offsets, Joining), and on what the channels hold       *)
(* (Channels).                                                             *)
(***************************************************************************)
EXTENDS EventStream, SequenceTheorems, TLAPS

\* Where the consumer stands relative to the topic.
Offsets ==
    /\ position <= Fetched
    /\ Fetched <= topic
    /\ committed # NoOffset => committed <= topic
    /\ kafka \in {"lock", "send"} => position \in Text /\ 0 < position

\* While the consumer joins its group nothing has been fetched or sent.
Joining ==
    kafka = "join" =>
        /\ position = 0 /\ stored = NoOffset
        /\ \A c \in Clients :
              phase[c] = "open" => start[c] = 0 /\ sent[c] = <<>> /\ read[c] = 0

\* The senders in the vector: one per client, of connections that exist, none
\* parked that the broadcast has yet to use.
Senders ==
    /\ \A i, j \in 1..Len(conns) : conns[i].client = conns[j].client => i = j
    /\ \A i \in 1..Len(conns) : phase[conns[i].client] \in {"open", "closed"}
    /\ \A i \in 1..Len(conns) : (Locked => next <= i) => ~conns[i].parked
    /\ \A c \in Clients : phase[c] = "open" => Registered(c)

\* The senders collected so far: those of the clients already passed.
Collected ==
    Locked =>
        /\ next <= Len(conns) + 1
        /\ \A i, j \in 1..Len(kept) : kept[i].client = kept[j].client => i = j
        /\ \A i \in 1..Len(kept) : ~kept[i].parked /\ Passed(kept[i].client)
        /\ \A c \in Clients :
              phase[c] = "open" /\ Passed(c)
                  => \E i \in 1..Len(kept) : kept[i].client = c

\* The offset before the i-th message put into the channel of c.
Before(c, i) == IF i = 1 THEN start[c] ELSE sent[c][i - 1]

\* What the channels hold: consecutive text messages of the topic.
Channels ==
    \A c \in Clients :
        /\ start[c] <= topic
        /\ read[c] <= Len(sent[c])
        /\ \A i \in 1..Len(sent[c]) :
              sent[c][i] <= topic /\ F!Follows(Before(c, i), sent[c][i])
        /\ phase[c] \in {"none", "waiting"}
              => start[c] = 0 /\ sent[c] = <<>> /\ read[c] = 0

IInv == TypeOK /\ Offsets /\ Joining /\ Senders /\ Collected /\ Channels /\ NothingMissed

------------------------------------------------------------------------------

\* The invariant holds when the service starts.
LEMMA InitIInv == Init => IInv
<1> SUFFICES ASSUME Init PROVE IInv
  OBVIOUS
<1> USE DEF Init
<1>1. TypeOK
  BY BoundsAssumption DEF TypeOK
<1>2. Offsets
  BY NoOffsetAssumption DEF Offsets, Fetched
<1>3. Senders /\ Collected
  BY DEF Senders, Collected, Locked
<1>4. Channels
  <2>1. \A c \in Clients : start[c] = 0 /\ read[c] = 0 /\ sent[c] = <<>>
    OBVIOUS
  <2>2. ASSUME NEW c \in Clients
        PROVE  Len(sent[c]) = 0 /\ \A i \in 1..Len(sent[c]) : FALSE
    <3>1. sent[c] = <<>>
      BY <2>1
    <3>2. Len(<<>>) = 0
      OBVIOUS
    <3>3. Len(sent[c]) = 0
      BY ONLY <3>1, <3>2
    <3>4. QED
      BY ONLY <3>3
  <2>3. ASSUME NEW c \in Clients
        PROVE  /\ start[c] <= topic
               /\ read[c] <= Len(sent[c])
               /\ start[c] = 0 /\ sent[c] = <<>> /\ read[c] = 0
    BY <2>1, <2>2
  <2>4. QED
    BY <2>2, <2>3 DEF Channels
<1>5. NothingMissed /\ Joining
  BY DEF NothingMissed, Joining
<1>6. QED
  BY <1>1, <1>2, <1>3, <1>4, <1>5 DEF IInv

\* What is handled is an offset or 0: a message in hand is at least the first.
LEMMA HandledIsNat == IInv => Handled \in Nat
  BY DEF IInv, TypeOK, Offsets, Handled

\* The members of a sequence of senders.
LEMMA HandleFields ==
    ASSUME NEW s \in Seq(Handle), NEW i \in 1..Len(s)
    PROVE  /\ s[i] \in Handle
           /\ s[i].client \in Clients
           /\ s[i].parked \in BOOLEAN
<1>1. s[i] \in Handle
  OBVIOUS
<1>2. QED
  BY <1>1 DEF Handle

\* A sender after it is parked, and its clone.
LEMMA ParkedSender ==
    ASSUME NEW h \in Handle
    PROVE  /\ Parked(h) \in Handle
           /\ Parked(h).client = h.client
           /\ ToOwned(Parked(h)) = [client |-> h.client, parked |-> FALSE]
  BY DEF Handle, ToOwned, Parked

\* Replacing one member of a sequence.
LEMMA ReplaceMember ==
    ASSUME NEW S, NEW s \in Seq(S), NEW i \in 1..Len(s), NEW e \in S
    PROVE  /\ [s EXCEPT ![i] = e] \in Seq(S)
           /\ Len([s EXCEPT ![i] = e]) = Len(s)
           /\ [s EXCEPT ![i] = e][i] = e
           /\ \A j \in 1..Len(s) : j # i => [s EXCEPT ![i] = e][j] = s[j]
  OBVIOUS

LEMMA LastIsNat == ASSUME TypeOK, NEW c \in Clients PROVE Last(c) \in Nat
  BY DEF TypeOK, Last

\* Taking a message leaves the senders as they are, but for parked flags it
\* clears.
LEMMA ReceiveSenders ==
    ASSUME IInv, NEW c \in Clients, Receive(c)
    PROVE  /\ conns' \in Seq(Handle)
           /\ Len(conns') = Len(conns)
           /\ \A i \in 1..Len(conns) :
                 /\ conns'[i].client = conns[i].client
                 /\ conns'[i].parked => conns[i].parked
<1>1. \A i \in 1..Len(conns) : conns[i] \in Handle
  BY DEF IInv, TypeOK
<1>2. Len(conns) \in Nat
  BY DEF IInv, TypeOK
<1>3. \A i \in 1..Len(conns) : Unparked(conns[i]) \in Handle
  BY <1>1 DEF Handle, Unparked
<1>4. \A i \in 1..Len(conns) :
        (IF conns[i].client = c THEN Unparked(conns[i]) ELSE conns[i]) \in Handle
  BY <1>1, <1>3
<1>5. conns' \in Seq(Handle) /\ Len(conns') = Len(conns)
  BY <1>2, <1>4 DEF Receive
<1>6. \A i \in 1..Len(conns) :
        conns'[i].client = conns[i].client /\ (conns'[i].parked => conns[i].parked)
  BY <1>1 DEF Receive, Handle, Unparked
<1>7. QED
  BY <1>5, <1>6

\* A message is added to the topic.
LEMMA ProduceStep == ASSUME IInv, Produce PROVE IInv'
<1> USE DEF IInv, Produce, serviceVars, kafkaVars, clientVars
<1>1. TypeOK'
  BY BoundsAssumption DEF TypeOK
<1>2. Offsets'
  BY DEF TypeOK, Offsets, Fetched
<1>3. Senders'
  BY DEF TypeOK, Senders, Locked, Registered
<1>4. Collected'
  BY DEF TypeOK, Collected, Locked, Passed
<1>5. Channels'
  BY DEF TypeOK, Channels, Before, F!Follows
<1>6. NothingMissed'
  BY DEF TypeOK, NothingMissed, Last, Reached, Passed, Locked, Handled
<1>7. Joining'
  BY DEF TypeOK, Joining, Channels, Handled
<1>8. QED
  BY <1>1, <1>2, <1>3, <1>4, <1>5, <1>6, <1>7

\* The library fetches a message.
LEMMA FetchStep == ASSUME IInv, Fetch PROVE IInv'
<1> USE DEF IInv, Fetch, serviceVars, kafkaVars, clientVars
<1>1. TypeOK'
  BY NoOffsetAssumption DEF TypeOK, Fetched
<1>2. Offsets'
  BY NoOffsetAssumption DEF TypeOK, Offsets, Fetched
<1>3. Senders'
  BY DEF TypeOK, Senders, Locked, Registered
<1>4. Collected'
  BY DEF TypeOK, Collected, Locked, Passed
<1>5. Channels'
  BY DEF TypeOK, Channels, Before, F!Follows
<1>6. NothingMissed'
  BY DEF TypeOK, NothingMissed, Last, Reached, Passed, Locked, Handled
<1>7. Joining'
  BY DEF TypeOK, Joining, Channels, Handled
<1>8. QED
  BY <1>1, <1>2, <1>3, <1>4, <1>5, <1>6, <1>7

\* The library commits.
LEMMA CommitStep == ASSUME IInv, Commit PROVE IInv'
<1> USE DEF IInv, Commit, serviceVars, kafkaVars, clientVars
<1>1. TypeOK'
  BY DEF TypeOK
<1>2. Offsets'
  BY DEF TypeOK, Offsets, Fetched
<1>3. Senders'
  BY DEF TypeOK, Senders, Locked, Registered
<1>4. Collected'
  BY DEF TypeOK, Collected, Locked, Passed
<1>5. Channels'
  BY DEF TypeOK, Channels, Before, F!Follows
<1>6. NothingMissed'
  BY DEF TypeOK, NothingMissed, Last, Reached, Passed, Locked, Handled
<1>7. Joining'
  BY DEF TypeOK, Joining, Channels, Handled
<1>8. QED
  BY <1>1, <1>2, <1>3, <1>4, <1>5, <1>6, <1>7

\* A request for /events arrives.
LEMMA RequestStep == ASSUME IInv, NEW c \in Clients, Request(c) PROVE IInv'
<1> USE DEF IInv, Request, serviceVars, kafkaVars, clientVars
<1>1. TypeOK'
  BY DEF TypeOK
<1>2. Offsets'
  BY DEF TypeOK, Offsets, Fetched
<1>3. Senders'
  BY DEF TypeOK, Senders, Locked, Registered
<1>4. Collected'
  BY DEF TypeOK, Collected, Locked, Passed
<1>5. Channels'
  BY DEF TypeOK, Channels, Before, F!Follows
<1>6. NothingMissed'
  BY DEF TypeOK, NothingMissed, Last, Reached, Passed, Locked, Handled
<1>7. Joining'
  BY DEF TypeOK, Joining, Channels, Handled
<1>8. QED
  BY <1>1, <1>2, <1>3, <1>4, <1>5, <1>6, <1>7

\* A sender is pushed.
LEMMA RegisterStep == ASSUME IInv, NEW c \in Clients, Register(c) PROVE IInv'
<1> USE DEF IInv, Register, serviceVars, kafkaVars, clientVars
<1>1. TypeOK'
  BY HandledIsNat DEF TypeOK, Handle
<1>2. Offsets'
  BY DEF TypeOK, Offsets, Fetched
<1>3. Senders'
  <2>1. /\ Len(conns') = Len(conns) + 1 /\ Len(conns) \in Nat
        /\ \A i \in 1..Len(conns) : conns'[i] = conns[i]
        /\ conns'[Len(conns) + 1] = [client |-> c, parked |-> FALSE]
    BY DEF TypeOK
  <2>2. /\ phase'[c] = "open" /\ phase[c] = "waiting"
        /\ \A d \in Clients : d # c => phase'[d] = phase[d]
    BY DEF TypeOK
  <2>3. /\ \A i \in 1..Len(conns) : conns[i].client \in Clients
        /\ \A i \in 1..Len(conns) : conns[i].client # c
    <3>1. conns \in Seq(Handle)
      BY DEF TypeOK
    <3>2. QED
      BY <2>2, <3>1, HandleFields DEF Senders
  <2>4. \A i \in 1..Len(conns') : i \in 1..Len(conns) \/ i = Len(conns) + 1
    BY <2>1
  <2>5. \A i, j \in 1..Len(conns') : conns'[i].client = conns'[j].client => i = j
    BY <2>1, <2>3, <2>4 DEF Senders
  <2>6. \A i \in 1..Len(conns') : phase'[conns'[i].client] \in {"open", "closed"}
    BY <2>1, <2>2, <2>3, <2>4 DEF Senders
  <2>7. \A i \in 1..Len(conns') : (Locked' => next' <= i) => ~conns'[i].parked
    BY <2>1, <2>4 DEF Senders, Locked
  <2>8. \A d \in Clients :
          phase'[d] = "open" => \E i \in 1..Len(conns') : conns'[i].client = d
    BY <2>1, <2>2 DEF Senders, Registered
  <2>9. QED
    BY <2>5, <2>6, <2>7, <2>8 DEF Senders, Registered
<1>4. Collected'
  BY DEF TypeOK, Collected, Locked, Passed
<1>5. Channels'
  <2>1. Handled <= topic
    BY NoOffsetAssumption DEF TypeOK, Offsets, Fetched, Handled
  <2>2. QED
    BY <2>1 DEF TypeOK, Channels, Before, F!Follows
<1>6. NothingMissed'
  <2> SUFFICES ASSUME NEW d \in Clients, phase'[d] = "open"
              PROVE  /\ Last(d)' <= Reached(d)'
                     /\ \A t \in Text : ~(Last(d)' < t /\ t <= Reached(d)')
    BY DEF NothingMissed
  <2>1. Reached(d)' = Handled /\ Reached(d) = Handled
    BY DEF Reached, Passed, Locked, Handled
  <2>2. CASE d = c
    BY <2>1, <2>2, HandledIsNat, TextAssumption DEF Last, Channels, TypeOK
  <2>3. CASE d # c
    BY <2>1, <2>3 DEF Last, NothingMissed, TypeOK
  <2>4. QED
    BY <2>2, <2>3
<1>7. Joining'
  BY DEF TypeOK, Joining, Channels, Handled
<1>8. QED
  BY <1>1, <1>2, <1>3, <1>4, <1>5, <1>6, <1>7

\* A message leaves a channel.
LEMMA ReceiveStep == ASSUME IInv, NEW c \in Clients, Receive(c) PROVE IInv'
<1>1. /\ conns' \in Seq(Handle)
      /\ Len(conns') = Len(conns)
      /\ \A i \in 1..Len(conns) :
            /\ conns'[i].client = conns[i].client
            /\ conns'[i].parked => conns[i].parked
  BY ReceiveSenders
<1>2. /\ read' = [read EXCEPT ![c] = @ + 1]
      /\ phase[c] = "open" /\ read[c] < Len(sent[c])
      /\ UNCHANGED <<topic, committed, stored, crashes, position, kafka, next,
                     kept, phase, sent, start>>
  BY DEF Receive, serviceVars, kafkaVars
<1> HIDE DEF Receive
<1>3. \A d \in Clients : Passed(d)' <=> Passed(d)
  <2>1. Locked => next - 1 \in 0..Len(conns)
    BY DEF IInv, TypeOK, Collected
  <2>2. QED
    BY <1>1, <1>2, <2>1 DEF Passed, Locked
<1>4. TypeOK'
  BY <1>1, <1>2 DEF IInv, TypeOK
<1>5. Offsets'
  BY <1>2 DEF IInv, Offsets, Fetched
<1>6. Senders'
  BY <1>1, <1>2 DEF IInv, Senders, Locked, Registered
<1>7. Collected'
  <2>1. \A i \in 1..Len(kept) : kept[i].client \in Clients
    BY HandleFields DEF IInv, TypeOK
  <2>2. QED
    BY <1>1, <1>2, <1>3, <2>1 DEF IInv, Collected, Locked
<1>8. Channels'
  <2>1. \A d \in Clients : read'[d] <= Len(sent[d]) /\ (d # c => read'[d] = read[d])
    BY <1>2 DEF IInv, TypeOK, Channels
  <2>2. QED
    BY <1>2, <2>1 DEF IInv, Channels, Before
<1>9. NothingMissed'
  BY <1>2, <1>3 DEF IInv, NothingMissed, Last, Reached, Handled
<1>10. Joining'
  BY <1>2 DEF IInv, Joining
<1>11. QED
  BY <1>4, <1>5, <1>6, <1>7, <1>8, <1>9, <1>10 DEF IInv

\* A connection ends.
LEMMA DisconnectStep == ASSUME IInv, NEW c \in Clients, Disconnect(c) PROVE IInv'
<1> USE DEF IInv, Disconnect, serviceVars, kafkaVars, clientVars
<1>1. TypeOK'
  BY DEF TypeOK
<1>2. Offsets'
  BY DEF TypeOK, Offsets, Fetched
<1>3. Senders'
  BY DEF TypeOK, Senders, Locked, Registered
<1>4. Collected'
  BY DEF TypeOK, Collected, Locked, Passed
<1>5. Channels'
  BY DEF TypeOK, Channels, Before, F!Follows
<1>6. NothingMissed'
  BY DEF TypeOK, NothingMissed, Last, Reached, Passed, Locked, Handled
<1>7. Joining'
  BY DEF TypeOK, Joining, Channels, Handled
<1>8. QED
  BY <1>1, <1>2, <1>3, <1>4, <1>5, <1>6, <1>7

\* The Kafka thread is given a message.
LEMMA PollStep == ASSUME IInv, Poll PROVE IInv'
<1> USE DEF IInv, Poll, serviceVars, kafkaVars, clientVars
<1>1. TypeOK'
  BY DEF TypeOK
<1>2. Offsets'
  BY DEF TypeOK, Offsets, Fetched
<1>3. Senders'
  BY DEF TypeOK, Senders, Locked, Registered
<1>4. Collected'
  BY DEF TypeOK, Collected, Locked, Passed
<1>5. Channels'
  BY DEF TypeOK, Channels, Before, F!Follows
<1>6. NothingMissed'
  <2> SUFFICES ASSUME NEW d \in Clients, phase[d] = "open"
              PROVE  /\ Last(d)' <= Reached(d)'
                     /\ \A t \in Text : ~(Last(d)' < t /\ t <= Reached(d)')
    BY DEF NothingMissed
  <2>1. Last(d)' = Last(d) /\ Last(d) \in Nat
    BY LastIsNat DEF Last
  <2>2. Reached(d) = position
    BY DEF Reached, Passed, Locked, Handled
  <2>3. Reached(d)' = IF position + 1 \in Text THEN position ELSE position + 1
    BY DEF Reached, Passed, Locked, Handled, TypeOK
  <2>4. Last(d) <= position /\ \A t \in Text : ~(Last(d) < t /\ t <= position)
    BY <2>2 DEF NothingMissed
  <2>5. QED
    BY <2>1, <2>3, <2>4, TextAssumption DEF TypeOK
<1>7. Joining'
  BY DEF TypeOK, Joining, Channels, Handled
<1>8. QED
  BY <1>1, <1>2, <1>3, <1>4, <1>5, <1>6, <1>7

\* The broadcast begins.
LEMMA AcquireStep == ASSUME IInv, Acquire PROVE IInv'
<1> USE DEF IInv, Acquire, serviceVars, kafkaVars, clientVars
<1>1. TypeOK'
  BY DEF TypeOK
<1>2. Offsets'
  BY DEF TypeOK, Offsets, Fetched
<1>3. Senders'
  BY DEF TypeOK, Senders, Locked, Registered
<1>4. Collected'
  BY DEF TypeOK, Collected, Locked, Passed
<1>5. Channels'
  BY DEF TypeOK, Channels, Before, F!Follows
<1>6. NothingMissed'
  BY DEF TypeOK, NothingMissed, Last, Reached, Passed, Locked, Handled
<1>7. Joining'
  BY DEF TypeOK, Joining, Channels, Handled
<1>8. QED
  BY <1>1, <1>2, <1>3, <1>4, <1>5, <1>6, <1>7

\* The broadcast sends to one connection.
LEMMA SendOkStep == ASSUME IInv, SendOk PROVE IInv'
<1>0. /\ Locked /\ next \in 1..Len(conns) /\ Len(conns) \in Nat
      /\ conns[next] \in Handle /\ conns[next].client \in Clients
      /\ phase[conns[next].client] = "open"
      /\ position \in Text /\ position \in Nat
  BY HandleFields DEF IInv, TypeOK, SendOk, Locked, Offsets
<1> PICK c \in Clients : c = conns[next].client
  BY <1>0
<1>1. /\ Locked /\ next \in 1..Len(conns) /\ Len(conns) \in Nat
      /\ conns[next] \in Handle /\ conns[next].client = c
      /\ phase[c] = "open"
      /\ position \in Text /\ position \in Nat
  BY <1>0
<1>2. /\ sent' = [sent EXCEPT ![c] = Append(@, position)]
      /\ next' = next + 1
      /\ UNCHANGED <<topic, committed, stored, crashes, position, kafka, phase,
                     read, start>>
  BY DEF SendOk, serviceVars
<1>3. kept' = Append(kept, [client |-> c, parked |-> FALSE])
  <2>1. ToOwned(Parked(conns[next])) = [client |-> c, parked |-> FALSE]
    BY <1>1, ParkedSender
  <2>2. QED
    BY <2>1 DEF SendOk
<1>4. /\ conns' \in Seq(Handle) /\ Len(conns') = Len(conns)
      /\ \A i \in 1..Len(conns) : conns'[i].client = conns[i].client
      /\ \A i \in 1..Len(conns) : i # next => conns'[i] = conns[i]
  <2>1. PICK e \in Handle : e = Parked(conns[next]) /\ e.client = c
    BY <1>1, ParkedSender
  <2>2. conns' = [conns EXCEPT ![next] = e]
    BY <2>1 DEF SendOk
  <2>3. conns \in Seq(Handle)
    BY DEF IInv, TypeOK
  <2>4. QED
    BY <1>1, <2>1, <2>2, <2>3, ReplaceMember
<1>5. ~Passed(c)
  BY <1>1 DEF IInv, TypeOK, Senders, Passed
<1>6. \A d \in Clients : Passed(d)' <=> Passed(d) \/ d = c
  BY <1>1, <1>2, <1>4 DEF Passed, Locked
<1>7. /\ Last(c) \in Nat /\ Last(c) < position
      /\ \A t \in Text : ~(Last(c) < t /\ t < position)
  <2>1. Reached(c) = position - 1
    BY <1>1, <1>5 DEF Reached, Handled, Locked
  <2>2. QED
    BY <1>1, <2>1, LastIsNat, TextAssumption DEF IInv, NothingMissed
<1>8. /\ sent'[c] \in Seq(Nat) /\ Len(sent'[c]) = Len(sent[c]) + 1
      /\ sent'[c][Len(sent[c]) + 1] = position
      /\ \A i \in 1..Len(sent[c]) : sent'[c][i] = sent[c][i]
      /\ \A d \in Clients : d # c => sent'[d] = sent[d]
  BY <1>1, <1>2 DEF IInv, TypeOK
<1>9. Len(sent[c]) \in Nat /\ position <= topic
  BY <1>1 DEF IInv, TypeOK, Offsets, Fetched
<1>10. TypeOK'
  <2>1. kept' \in Seq(Handle)
    BY <1>1, <1>3 DEF IInv, TypeOK, Handle
  <2>2. sent' \in [Clients -> Seq(Nat)]
    BY <1>1, <1>2 DEF IInv, TypeOK
  <2>3. QED
    BY <1>1, <1>2, <1>4, <2>1, <2>2 DEF IInv, TypeOK
<1>11. Offsets'
  BY <1>2 DEF IInv, Offsets, Fetched
<1>12. Senders'
  <2>1. \A i \in 1..Len(conns') : next' <= i => ~conns'[i].parked
    BY <1>1, <1>2, <1>4 DEF IInv, Senders
  <2>2. QED
    BY <1>1, <1>2, <1>4, <2>1 DEF IInv, Senders, Locked, Registered
<1>13. Collected'
  <2>1. /\ Len(kept) \in Nat /\ Len(kept') = Len(kept) + 1
        /\ kept'[Len(kept) + 1] = [client |-> c, parked |-> FALSE]
        /\ \A i \in 1..Len(kept) : kept'[i] = kept[i] /\ kept[i].client \in Clients
    <3>1. kept \in Seq(Handle)
      BY DEF IInv, TypeOK
    <3>2. QED
      BY <1>3, <3>1, HandleFields
  <2>2. \A i \in 1..Len(kept) : kept[i].client # c
    BY <1>1, <1>5 DEF IInv, Collected
  <2>3. \A i, j \in 1..Len(kept') : kept'[i].client = kept'[j].client => i = j
    BY <1>1, <2>1, <2>2 DEF IInv, Collected
  <2>4. ASSUME NEW i \in 1..Len(kept')
        PROVE  (~kept[i].parked /\ Passed(kept[i].client))'
    <3>1. CASE i = Len(kept) + 1
      BY <1>1, <1>4, <1>2, <2>1, <3>1 DEF Passed, Locked
    <3>2. CASE i # Len(kept) + 1
      <4>1. i \in 1..Len(kept) /\ kept'[i] = kept[i]
        BY <2>1, <3>2
      <4>2. ~kept[i].parked /\ Passed(kept[i].client)
        BY <1>1, <4>1 DEF IInv, Collected
      <4>3. QED
        BY <1>1, <1>2, <1>4, <4>1, <4>2 DEF Passed, Locked
    <3>3. QED
      BY <3>1, <3>2
  <2>5. ASSUME NEW d \in Clients, phase'[d] = "open", Passed(d)'
        PROVE  \E i \in 1..Len(kept') : kept'[i].client = d
    <3>1. CASE d = c
      BY <2>1, <3>1
    <3>2. CASE d # c
      BY <1>1, <1>2, <1>6, <2>1, <2>5, <3>2 DEF IInv, Collected
    <3>3. QED
      BY <3>1, <3>2
  <2>6. next' <= Len(conns') + 1
    BY <1>1, <1>2, <1>4
  <2>7. QED
    BY <2>3, <2>4, <2>5, <2>6 DEF Collected
<1>14. Channels'
  <2> SUFFICES ASSUME NEW d \in Clients
      PROVE  /\ start'[d] <= topic'
             /\ read'[d] <= Len(sent'[d])
             /\ \A i \in 1..Len(sent'[d]) :
                   sent'[d][i] <= topic' /\ F!Follows(Before(d, i)', sent'[d][i])
             /\ phase'[d] \in {"none", "waiting"}
                   => start'[d] = 0 /\ sent'[d] = <<>> /\ read'[d] = 0
    BY DEF Channels, F!Follows
  <2>1. CASE d # c
    BY <1>2, <1>8, <2>1 DEF IInv, Channels, Before
  <2>2. CASE d = c
    <3> PICK n \in Nat : n = Len(sent[c])
      BY <1>9
    <3>1. F!Follows(Before(c, n + 1)', position)
      <4>1. Before(c, n + 1)' = Last(c)
        <5>1. CASE n = 0
          <6>1. sent[c] = <<>>
            BY <5>1, EmptySeq DEF IInv, TypeOK
          <6>2. QED
            BY <1>2, <5>1, <6>1 DEF Before, Last
        <5>2. CASE n # 0
          <6>1. sent[c] # <<>> /\ n \in 1..Len(sent[c])
            BY <5>2 DEF IInv, TypeOK
          <6>2. sent'[c][n] = sent[c][n]
            BY <1>8, <6>1
          <6>3. QED
            BY <5>2, <6>1, <6>2 DEF Before, Last
        <5>3. QED
          BY <5>1, <5>2
      <4>2. QED
        BY <1>1, <1>7, <4>1 DEF F!Follows
    <3>2. \A i \in 1..Len(sent[c]) :
            sent'[c][i] <= topic' /\ F!Follows(Before(c, i)', sent'[c][i])
      <4> SUFFICES ASSUME NEW i \in 1..Len(sent[c])
                   PROVE  sent'[c][i] <= topic' /\ F!Follows(Before(c, i)', sent'[c][i])
        OBVIOUS
      <4>1. sent'[c][i] = sent[c][i]
        BY <1>8, <1>9
      <4>2. Before(c, i)' = Before(c, i)
        BY <1>2, <1>8, <1>9 DEF Before
      <4>3. sent[c][i] <= topic /\ F!Follows(Before(c, i), sent[c][i])
        BY DEF IInv, Channels
      <4>4. QED
        BY <1>2, <4>1, <4>2, <4>3
    <3>3. start[c] <= topic /\ read[c] <= Len(sent[c]) /\ read[c] \in Nat
      BY <1>1 DEF IInv, Channels, TypeOK
    <3>4. \A i \in 1..Len(sent'[c]) :
            sent'[c][i] <= topic' /\ F!Follows(Before(c, i)', sent'[c][i])
      <4>1. ASSUME NEW i \in 1..Len(sent'[c]), i = n + 1
            PROVE  sent'[c][i] <= topic' /\ F!Follows(Before(c, i)', sent'[c][i])
        BY <1>2, <1>8, <1>9, <3>1, <4>1
      <4>2. \A i \in 1..Len(sent'[c]) : i = n + 1 \/ i \in 1..Len(sent[c])
        BY <1>8
      <4>3. QED
        BY <3>2, <4>1, <4>2
    <3>5. QED
      BY <1>1, <1>2, <1>8, <1>9, <2>2, <3>3, <3>4
  <2>3. QED
    BY <2>1, <2>2
<1>15. NothingMissed'
  <2> SUFFICES ASSUME NEW d \in Clients, phase'[d] = "open"
      PROVE  /\ Last(d)' <= Reached(d)'
             /\ \A t \in Text : ~(Last(d)' < t /\ t <= Reached(d)')
    BY DEF NothingMissed
  <2>1. CASE d = c
    <3>1. Last(c)' = position
      BY <1>1, <1>8, <1>9 DEF Last
    <3>2. Reached(c)' = position
      BY <1>1, <1>2, <1>6 DEF Reached
    <3>3. QED
      BY <1>1, <2>1, <3>1, <3>2, TextAssumption
  <2>2. CASE d # c
    <3>1. Last(d)' = Last(d) /\ Reached(d)' = Reached(d)
      BY <1>2, <1>6, <1>8, <2>2 DEF Last, Reached, Handled
    <3>2. QED
      BY <1>2, <3>1 DEF IInv, NothingMissed
  <2>3. QED
    BY <2>1, <2>2
<1>16. Joining'
  BY <1>1, <1>2 DEF Joining, Locked
<1>17. QED
  BY <1>10, <1>11, <1>12, <1>13, <1>14, <1>15, <1>16 DEF IInv

\* The broadcast drops one connection.
LEMMA SendErrStep == ASSUME IInv, SendErr PROVE IInv'
<1>1. /\ Locked /\ next \in 1..Len(conns) /\ Len(conns) \in Nat
      /\ phase[conns[next].client] = "closed"
      /\ next' = next + 1
      /\ UNCHANGED <<topic, committed, stored, crashes, position, kafka, kept,
                     conns, phase, sent, read, start>>
  BY DEF IInv, TypeOK, SendErr, serviceVars, clientVars
<1>2. \A d \in Clients : Passed(d)' <=> Passed(d) \/ d = conns[next].client
  BY <1>1 DEF Passed, Locked
<1>3. TypeOK'
  BY <1>1 DEF IInv, TypeOK
<1>4. Offsets'
  BY <1>1 DEF IInv, Offsets, Fetched
<1>5. Senders'
  BY <1>1 DEF IInv, Senders, Locked, Registered
<1>6. Collected'
  <2>1. \A i \in 1..Len(kept) : kept[i].client \in Clients
    BY HandleFields DEF IInv, TypeOK
  <2>2. QED
    BY <1>1, <1>2, <2>1 DEF IInv, Collected, Locked
<1>7. Channels'
  BY <1>1 DEF IInv, Channels, Before
<1>8. NothingMissed'
  <2>1. \A d \in Clients : phase[d] = "open" => (Passed(d)' <=> Passed(d))
    BY <1>1, <1>2
  <2>2. QED
    BY <1>1, <2>1 DEF IInv, NothingMissed, Last, Reached, Handled
<1>9. Joining'
  BY <1>1 DEF IInv, Joining
<1>10. QED
  BY <1>3, <1>4, <1>5, <1>6, <1>7, <1>8, <1>9 DEF IInv

\* The broadcast ends.
LEMMA FinishStep == ASSUME IInv, Finish PROVE IInv'
<1>1. /\ Locked /\ next = Len(conns) + 1 /\ Len(conns) \in Nat
      /\ conns' = kept /\ kafka' = "poll"
      /\ UNCHANGED <<topic, committed, stored, crashes, position, next, kept,
                     phase, sent, read, start>>
  BY DEF IInv, TypeOK, Finish, Collected, serviceVars, clientVars
<1>2. \A d \in Clients : Passed(d) <=> Registered(d)
  BY <1>1 DEF Passed, Registered
<1>3. ~Locked' /\ \A d \in Clients : ~Passed(d)'
  BY <1>1 DEF Passed, Locked
<1>4. TypeOK'
  BY <1>1 DEF IInv, TypeOK
<1>5. Offsets'
  BY <1>1 DEF IInv, Offsets, Fetched
<1>6. Senders'
  <2>1. \A i \in 1..Len(kept) :
          kept[i].client \in Clients /\ ~kept[i].parked /\ Registered(kept[i].client)
    BY <1>1, <1>2, HandleFields DEF IInv, TypeOK, Collected
  <2>2. \A i \in 1..Len(kept) : phase[kept[i].client] \in {"open", "closed"}
    BY <2>1 DEF IInv, Senders, Registered
  <2>3. \A d \in Clients : phase[d] = "open" => Registered(d)'
    BY <1>1, <1>2 DEF IInv, Senders, Collected, Registered
  <2>4. QED
    BY <1>1, <1>3, <2>1, <2>2, <2>3 DEF IInv, Senders, Collected
<1>7. Collected'
  BY <1>3 DEF Collected
<1>8. Channels'
  BY <1>1 DEF IInv, Channels, Before
<1>9. NothingMissed'
  <2>1. \A d \in Clients : phase[d] = "open" => Reached(d) = position
    BY <1>2 DEF IInv, Senders, Reached
  <2>2. \A d \in Clients : Reached(d)' = position /\ Last(d)' = Last(d)
    BY <1>1, <1>3 DEF Reached, Handled, Last
  <2>3. QED
    BY <1>1, <2>1, <2>2 DEF IInv, NothingMissed
<1>10. Joining'
  BY <1>1 DEF IInv, Joining
<1>11. QED
  BY <1>4, <1>5, <1>6, <1>7, <1>8, <1>9, <1>10 DEF IInv

\* The consumer is given its position.
LEMMA AssignStep == ASSUME IInv, Assign PROVE IInv'
<1>1. /\ kafka = "join" /\ kafka' = "poll" /\ position' = Resume
      /\ start' = [c \in Clients |-> IF phase[c] = "open" THEN Resume ELSE start[c]]
      /\ UNCHANGED <<topic, committed, stored, crashes, next, kept, conns, phase,
                     sent, read>>
  BY DEF Assign, serviceVars
<1>2. stored = NoOffset /\ Resume \in 0..topic
  BY <1>1, NoOffsetAssumption DEF IInv, TypeOK, Offsets, Joining, Resume
<1>3. ~Locked /\ ~Locked'
  BY <1>1 DEF Locked
<1>4. TypeOK'
  BY <1>1, <1>2 DEF IInv, TypeOK
<1>5. Offsets' /\ Joining'
  BY <1>1, <1>2 DEF IInv, Offsets, Joining, Fetched
<1>6. Senders'
  BY <1>1, <1>3 DEF IInv, Senders, Registered
<1>7. Collected'
  BY <1>3 DEF Collected
<1>8. ASSUME NEW c \in Clients, phase[c] = "open"
      PROVE  sent[c] = <<>> /\ read[c] = 0 /\ start'[c] = Resume
  BY <1>1, <1>8 DEF IInv, Joining
<1>9. Channels'
  <2> SUFFICES ASSUME NEW c \in Clients
               PROVE  /\ start'[c] <= topic
                      /\ read[c] <= Len(sent[c])
                      /\ \A i \in 1..Len(sent[c]) :
                            /\ sent[c][i] <= topic
                            /\ F!Follows(Before(c, i)', sent[c][i])
                      /\ phase[c] \in {"none", "waiting"}
                           => start'[c] = 0 /\ sent[c] = <<>> /\ read[c] = 0
    BY <1>1 DEF Channels, F!Follows
  <2>1. CASE phase[c] = "open"
    BY <1>2, <1>8, <2>1 DEF IInv, TypeOK
  <2>2. CASE phase[c] # "open"
    <3>1. start'[c] = start[c]
      BY <1>1, <2>2
    <3>2. \A i \in 1..Len(sent[c]) : Before(c, i)' = Before(c, i)
      BY <1>1, <3>1 DEF Before
    <3>3. QED
      BY <3>1, <3>2 DEF IInv, Channels
  <2>3. QED
    BY <2>1, <2>2
<1>10. NothingMissed'
  <2> SUFFICES ASSUME NEW c \in Clients, phase[c] = "open"
               PROVE  Last(c)' = Resume /\ Reached(c)' = Resume
    BY <1>1, <1>2, TextAssumption DEF NothingMissed
  <2>1. QED
    BY <1>1, <1>3, <1>8 DEF Last, Reached, Passed, Handled
<1>11. QED
  BY <1>4, <1>5, <1>6, <1>7, <1>9, <1>10 DEF IInv

\* The service dies and starts again.
LEMMA RestartStep == ASSUME IInv, Restart PROVE IInv'
<1> USE DEF IInv, Restart, serviceVars, kafkaVars, clientVars
<1>1. TypeOK'
  <2>1. <<>> \in Seq(Handle)
    OBVIOUS
  <2>2. QED
    BY <2>1, BoundsAssumption DEF TypeOK
<1>2. Offsets'
  BY DEF TypeOK, Offsets, Fetched, Resume
<1>3. Senders'
  BY DEF TypeOK, Senders, Locked, Registered
<1>4. Collected'
  BY DEF TypeOK, Collected, Locked, Passed
<1>5. Channels'
  BY DEF TypeOK, Channels, Before, F!Follows
<1>6. NothingMissed'
  BY DEF TypeOK, NothingMissed, Last, Reached, Passed, Locked, Handled
<1>7. Joining'
  BY DEF TypeOK, Joining, Channels, Handled
<1>8. QED
  BY <1>1, <1>2, <1>3, <1>4, <1>5, <1>6, <1>7

------------------------------------------------------------------------------

\* Every step of every thread, and every crash, preserves the invariant.
LEMMA NextIInv == IInv /\ [Next]_vars => IInv'
<1> SUFFICES ASSUME IInv, [Next]_vars PROVE IInv'
  OBVIOUS
<1>1. CASE KafkaThread
  BY <1>1, PollStep, AcquireStep, SendOkStep, SendErrStep, FinishStep DEF KafkaThread
<1>2. CASE EventLoop
  BY <1>2, RequestStep, RegisterStep, ReceiveStep, DisconnectStep DEF EventLoop
<1>3. CASE Environment
  BY <1>3, ProduceStep, AssignStep, FetchStep, CommitStep, RestartStep DEF Environment
<1>4. CASE UNCHANGED vars
  <2>1. UNCHANGED <<topic, committed, stored, crashes, position, kafka, next,
                    kept, conns, phase, sent, read, start>>
    BY <1>4 DEF vars, serviceVars, kafkaVars, clientVars
  <2>2. (TypeOK /\ Offsets /\ Joining /\ Senders)'
    BY <2>1 DEF IInv, TypeOK, Offsets, Joining, Fetched, Senders, Locked, Registered
  <2>3. (Collected /\ Channels /\ NothingMissed)'
    BY <2>1 DEF IInv, Collected, Locked, Passed, Channels, Before,
                NothingMissed, Last, Reached, Handled
  <2>4. QED
    BY <2>2, <2>3 DEF IInv
<1>5. QED
  BY <1>1, <1>2, <1>3, <1>4 DEF Next

\* The invariant holds throughout.
THEOREM Invariance == Spec => []IInv
  BY InitIInv, NextIInv, PTL DEF Spec

\* Type correctness of the service's state.
THEOREM TypeCorrect == Spec => []TypeOK
<1>1. IInv => TypeOK
  BY DEF IInv
<1>2. QED
  BY <1>1, Invariance, PTL

\* No open connection has missed a message broadcast since it registered
\* (main.rs:56-66 against main.rs:138-153).
THEOREM NothingIsMissed == Spec => []NothingMissed
<1>1. IInv => NothingMissed
  BY DEF IInv
<1>2. QED
  BY <1>1, Invariance, PTL

\* The broadcast never waits for a parked sender while it holds the mutex, so
\* the two threads never wait for each other (main.rs:138-150).
THEOREM NeverWaits == Spec => []BroadcastNeverWaits
<1>1. IInv => BroadcastNeverWaits
  BY DEF IInv, TypeOK, Senders, BroadcastNeverWaits
<1>2. QED
  BY <1>1, Invariance, PTL

\* One sender per client, one for every open client (main.rs:58, 144-149).
THEOREM OneSender == Spec => []OneSenderEach
<1>1. IInv => OneSenderEach
  BY DEF IInv, Senders, OneSenderEach
<1>2. QED
  BY <1>1, Invariance, PTL

------------------------------------------------------------------------------
(* EventStream implements Feed.                                            *)

\* What a browser sees of a connection.
FeedPhase == [c \in Clients |-> Feeding(c)]
FeedCursor == [c \in Clients |-> Cursor(c)]

\* A step that leaves the topic, the phases seen outside and what the sockets
\* carried as they are is a stutter of the feed.
LEMMA Stutter ==
    ASSUME topic' = topic, FeedPhase' = FeedPhase, FeedCursor' = FeedCursor, read' = read
    PROVE  UNCHANGED F!vars
  BY DEF F!vars, FeedPhase, FeedCursor

\* The cursor of a client depends on three variables only.
LEMMA SameCursor ==
    ASSUME UNCHANGED <<sent, read, start>> PROVE FeedCursor' = FeedCursor
  BY DEF FeedCursor, Cursor

\* Putting a message into a channel is invisible until it leaves it.
LEMMA SendIsInvisible == ASSUME IInv, SendOk PROVE FeedCursor' = FeedCursor
<1>1. PICK d \in Clients : sent' = [sent EXCEPT ![d] = Append(@, position)]
  <2>1. conns \in Seq(Handle) /\ next \in 1..Len(conns)
    BY DEF IInv, TypeOK, SendOk
  <2>2. conns[next].client \in Clients
    BY <2>1, HandleFields
  <2>3. sent' = [sent EXCEPT ![conns[next].client] = Append(@, position)]
    BY DEF SendOk
  <2>4. QED
    BY <2>2, <2>3
<1>2. read' = read /\ start' = start /\ position \in Nat
  BY DEF IInv, TypeOK, SendOk
<1>3. ASSUME NEW c \in Clients PROVE Cursor(c)' = Cursor(c)
  <2>1. read[c] \in Nat /\ read[c] <= Len(sent[c]) /\ sent[c] \in Seq(Nat)
    BY DEF IInv, TypeOK, Channels
  <2>2. \A i \in 1..Len(sent[c]) : sent'[c][i] = sent[c][i]
    BY <1>1, <1>2, <2>1 DEF IInv, TypeOK
  <2>3. QED
    BY <1>2, <2>1, <2>2 DEF Cursor
<1>4. QED
  BY <1>3 DEF FeedCursor

\* Connections whose feed a step opens at an offset of the topic, and no other's.
LEMMA Opens ==
    ASSUME NEW S \in SUBSET Clients, NEW n \in 0..topic,
           \A c \in S : FeedPhase[c] = "none",
           FeedPhase' = [c \in Clients |-> IF c \in S THEN "open" ELSE FeedPhase[c]],
           FeedCursor' = [c \in Clients |-> IF c \in S THEN n ELSE FeedCursor[c]],
           topic' = topic, read' = read
    PROVE  F!Next
  BY DEF F!Next, F!Subscribe, FeedPhase, FeedCursor

\* Registration opens the feed at the last offset handled, if there is one yet.
LEMMA RegisterSubscribes ==
    ASSUME IInv, NEW c \in Clients, Register(c) PROVE F!Next \/ UNCHANGED F!vars
<1>1. phase[c] = "waiting" /\ phase' = [phase EXCEPT ![c] = "open"]
      /\ start' = [start EXCEPT ![c] = Handled] /\ sent' = sent /\ read' = read
      /\ topic' = topic /\ kafka' = kafka
      /\ phase \in [Clients -> {"none", "waiting", "open", "closed"}]
      /\ start \in [Clients -> Nat]
  BY DEF Register, IInv, TypeOK, kafkaVars
<1>2. Handled \in 0..topic
  BY HandledIsNat, NoOffsetAssumption DEF IInv, TypeOK, Offsets, Handled, Fetched
<1>3. read[c] = 0 /\ start[c] = 0
  BY <1>1 DEF IInv, Channels
<1>4. FeedCursor' = [FeedCursor EXCEPT ![c] = Handled]
  BY <1>1, <1>3 DEF FeedCursor, Cursor
<1>5. CASE kafka = "join"
  <2>1. FeedPhase' = FeedPhase
    BY <1>1, <1>5 DEF FeedPhase, Feeding
  <2>2. Handled = 0 /\ FeedCursor[c] = 0
    BY <1>3, <1>5 DEF IInv, Joining, Handled, FeedCursor, Cursor
  <2>3. FeedCursor' = FeedCursor
    BY <1>4, <2>2 DEF FeedCursor
  <2>4. QED
    BY <1>1, <2>1, <2>3, Stutter
<1>6. CASE kafka # "join"
  <2> PICK S \in SUBSET Clients : S = {c}
    OBVIOUS
  <2>1. \A d \in S : FeedPhase[d] = "none"
    BY <1>1 DEF FeedPhase, Feeding
  <2>2. FeedPhase' = [d \in Clients |-> IF d \in S THEN "open" ELSE FeedPhase[d]]
    BY <1>1, <1>6 DEF FeedPhase, Feeding
  <2>3. FeedCursor' = [d \in Clients |-> IF d \in S THEN Handled ELSE FeedCursor[d]]
    BY <1>4 DEF FeedCursor
  <2>4. F!Next
    BY <1>1, <1>2, <2>1, <2>2, <2>3, Opens
  <2>5. QED
    BY <2>4
<1>7. QED
  BY <1>5, <1>6

\* The position of the consumer opens the feeds of all that are connected.
LEMMA AssignSubscribes == ASSUME IInv, Assign PROVE F!Next
<1> DEFINE S == {c \in Clients : phase[c] = "open"}
<1>1. /\ kafka = "join" /\ kafka' = "poll" /\ UNCHANGED <<topic, phase, sent, read>>
      /\ start' = [c \in Clients |-> IF phase[c] = "open" THEN Resume ELSE start[c]]
  BY DEF Assign
<1>2. Resume \in 0..topic
  BY NoOffsetAssumption DEF IInv, TypeOK, Offsets, Resume
<1>3. \A c \in S : FeedPhase[c] = "none"
  BY <1>1 DEF FeedPhase, Feeding
<1>4. FeedPhase' = [c \in Clients |-> IF c \in S THEN "open" ELSE FeedPhase[c]]
  BY <1>1 DEF FeedPhase, Feeding
<1>5. FeedCursor' = [c \in Clients |-> IF c \in S THEN Resume ELSE FeedCursor[c]]
  <2>1. \A c \in S : read[c] = 0
    BY <1>1 DEF IInv, Joining
  <2>2. QED
    BY <1>1, <2>1 DEF FeedCursor, Cursor
<1>6. QED
  BY <1>1, <1>2, <1>3, <1>4, <1>5, Opens

\* What leaves a channel is the next text message.
LEMMA ReceiveDelivers ==
    ASSUME IInv, NEW c \in Clients, Receive(c) PROVE F!Deliver(c)
<1>1. phase[c] = "open" /\ read[c] \in Nat /\ read[c] < Len(sent[c])
      /\ read' = [read EXCEPT ![c] = read[c] + 1]
      /\ UNCHANGED <<topic, phase, sent, start>>
      /\ read \in [Clients -> Nat] /\ sent[c] \in Seq(Nat) /\ topic \in Nat
  BY DEF Receive, IInv, TypeOK
<1>2. PICK i \in Nat \ {0} : i = read[c] + 1
  BY <1>1
<1>3. PICK m : m = sent[c][i]
  OBVIOUS
<1>4. m <= topic /\ F!Follows(Before(c, i), m) /\ m \in Nat
  <2>1. i \in 1..Len(sent[c])
    BY <1>1, <1>2
  <2>2. QED
    BY <1>1, <1>3, <2>1 DEF IInv, Channels
<1>5. Before(c, i) = FeedCursor[c]
  BY <1>1, <1>2 DEF Before, FeedCursor, Cursor
<1>6. m \in 1..topic
  BY <1>1, <1>4, TextAssumption DEF F!Follows
<1>7. FeedCursor' = [FeedCursor EXCEPT ![c] = m]
  BY <1>1, <1>2, <1>3 DEF FeedCursor, Cursor
<1>8. FeedPhase' = FeedPhase /\ FeedPhase[c] = "open"
  <2>1. kafka # "join" /\ kafka' = kafka
    BY <1>1 DEF IInv, Joining, Receive, kafkaVars
  <2>2. QED
    BY <1>1, <2>1 DEF FeedPhase, Feeding
<1>9. F!Follows(FeedCursor[c], m)
  BY <1>4, <1>5
<1>10. QED
  BY <1>1, <1>6, <1>7, <1>8, <1>9 DEF F!Deliver, F!Follows, FeedPhase, FeedCursor

\* One client leaving, or the service with all of them, closes feeds.
LEMMA DisconnectCloses ==
    ASSUME IInv, NEW c \in Clients, Disconnect(c) PROVE F!Close({c})
<1>1. FeedPhase[c] # "closed"
      /\ FeedPhase' = [d \in Clients |-> IF d \in {c} THEN "closed" ELSE FeedPhase[d]]
  BY DEF Disconnect, FeedPhase, Feeding, IInv, TypeOK, kafkaVars
<1>2. FeedCursor' = FeedCursor /\ topic' = topic /\ read' = read
  BY SameCursor DEF Disconnect
<1>3. QED
  BY <1>1, <1>2 DEF F!Close, FeedPhase, FeedCursor

LEMMA RestartCloses ==
    ASSUME IInv, Restart PROVE \E S \in SUBSET Clients : F!Close(S)
<1> PICK S \in SUBSET Clients : S = {c \in Clients : phase[c] \in {"waiting", "open"}}
  OBVIOUS
<1>1. \A c \in S : FeedPhase[c] # "closed"
  BY DEF FeedPhase, Feeding
<1>2. FeedPhase' = [d \in Clients |-> IF d \in S THEN "closed" ELSE FeedPhase[d]]
  BY DEF Restart, FeedPhase, Feeding, IInv, TypeOK
<1>3. FeedCursor' = FeedCursor /\ topic' = topic /\ read' = read
  BY SameCursor DEF Restart
<1>4. F!Close(S)
  BY <1>1, <1>2, <1>3 DEF F!Close, FeedPhase, FeedCursor
<1>5. QED
  BY <1>4

\* Every step of the service is a step or a stutter of the feed.
LEMMA StepRefines == IInv /\ [Next]_vars => [F!Next]_(F!vars)
<1> SUFFICES ASSUME IInv, [Next]_vars PROVE F!Next \/ UNCHANGED F!vars
  OBVIOUS
<1>1. CASE SendOk
  BY <1>1, SendIsInvisible, Stutter DEF SendOk, Locked, FeedPhase, Feeding
<1>2. CASE Poll \/ Acquire \/ SendErr \/ Finish \/ Fetch \/ Commit
  <2>1. UNCHANGED <<topic, phase, sent, read, start>>
    BY <1>2 DEF Poll, Acquire, SendErr, Finish, Fetch, Commit, clientVars
  <2>2. kafka' = "join" <=> kafka = "join"
    BY <1>2 DEF Poll, Acquire, SendErr, Finish, Fetch, Commit, Locked, kafkaVars
  <2>3. FeedPhase' = FeedPhase
    BY <2>1, <2>2 DEF FeedPhase, Feeding
  <2>4. QED
    BY <2>1, <2>3, SameCursor, Stutter
<1>3. CASE Produce
  <2>1. topic' = topic + 1 /\ UNCHANGED <<kafka, phase, sent, read, start>>
    BY <1>3 DEF Produce, kafkaVars, clientVars
  <2>2. F!Publish
    BY <2>1, SameCursor DEF F!Publish, FeedPhase, FeedCursor, Feeding
  <2>3. QED
    BY <2>2 DEF F!Next
<1>4. CASE Restart
  BY <1>4, RestartCloses DEF F!Next
<1>5. ASSUME NEW c \in Clients, Request(c) PROVE UNCHANGED F!vars
  <2>1. FeedPhase' = FeedPhase
    BY <1>5 DEF Request, FeedPhase, Feeding, IInv, TypeOK, kafkaVars
  <2>2. QED
    BY <1>5, <2>1, SameCursor, Stutter DEF Request
<1>6. ASSUME NEW c \in Clients, Register(c) PROVE F!Next \/ UNCHANGED F!vars
  BY <1>6, RegisterSubscribes
<1>7. ASSUME NEW c \in Clients, Receive(c) PROVE F!Next
  BY <1>7, ReceiveDelivers DEF F!Next
<1>8. ASSUME NEW c \in Clients, Disconnect(c) PROVE F!Next
  <2>1. {c} \in SUBSET Clients
    OBVIOUS
  <2>2. QED
    BY <1>8, <2>1, DisconnectCloses DEF F!Next
<1>9. CASE UNCHANGED vars
  <2>1. UNCHANGED <<topic, kafka, phase, sent, read, start>>
    BY <1>9 DEF vars, kafkaVars, clientVars
  <2>2. QED
    BY <2>1, SameCursor, Stutter DEF FeedPhase, Feeding
<1>10. QED
  BY <1>1, <1>2, <1>3, <1>4, <1>5, <1>6, <1>7, <1>8, <1>9, AssignSubscribes
     DEF Next, KafkaThread, EventLoop, Environment

\* Whatever the two threads, Kafka and crashes do, each connection carries
\* consecutive text messages of the topic, none twice (main.rs:56-66, 138-153).
THEOREM FeedImplemented == Spec => ImplementsFeed
<1>1. Init => F!Init
  <2> SUFFICES ASSUME Init PROVE F!Init
    OBVIOUS
  <2>1. FeedPhase = [c \in Clients |-> "none"] /\ FeedCursor = [c \in Clients |-> 0]
    BY DEF Init, FeedPhase, Feeding, FeedCursor, Cursor
  <2>2. QED
    BY <2>1 DEF Init, F!Init, FeedPhase, FeedCursor
<1>2. QED
  BY <1>1, StepRefines, Invariance, PTL DEF Spec, ImplementsFeed, F!Spec
==============================================================================
