---------------------------- MODULE ServingProofs ----------------------------
(***************************************************************************)
(* Proofs about Serving, for any queries, contents of the indexes and      *)
(* number of failures.                                                     *)
(*                                                                         *)
(* The inductive invariant says that a request that was answered has one   *)
(* of the Results of its query (Truthful).  What the answers are is then a *)
(* matter of the operators of Search, for which the greater part of this   *)
(* module stands:                                                          *)
(*  - a set in a strict order is a sequence of its elements (InOrderSorts);*)
(*  - flattened rows and merged rows are those they are made of            *)
(*    (FlattenPlaces, MergedRows);                                         *)
(*  - the keys of a level are apart, and the buckets of documents too      *)
(*    (BucketsApart);                                                      *)
(*  - parse_aggregation makes rows that count each document once, from the *)
(*    innermost level outwards (FieldRows, HistogramRight, ParseRight);    *)
(*  - the query that filters are merged into asks for what each of them    *)
(*    says (QueryMeant, SumMeant, UsersMeant);                             *)
(*  - of items sorted by item and score, dedup() keeps the best            *)
(*    (BestFirst, FirstOfEachItem).                                        *)
(*                                                                         *)
(* Recursive functions are unfolded by induction over the numbers, which   *)
(* here is a fact about sets of numbers (Inductive).                       *)
(***************************************************************************)
EXTENDS Serving, FiniteSetTheorems, SequenceTheorems, TLAPS

\* What a request under way looks like.
Form(q, r) ==
    q \in [stage : {"body", "asked", "answered", "refused", "reset"}, query : Asks[r],
           answer : {q.answer}, failed : BOOLEAN]

\* No other requests, and each idle or of this form.
Forms ==
    /\ requests = [r \in Requests |-> requests[r]]
    /\ \A r \in Requests : requests[r] = Idle \/ Form(requests[r], r)

\* What was found is what the index has for the query.
Truthful ==
    \A r \in Requests : Found(r) => requests[r].answer \in Results(requests[r].query)

\* The inductive invariant.
IInv == TypeOK /\ Forms /\ Truthful

------------------------------------------------------------------------------
(* Requests.                                                               *)

\* A request that is not under way.
LEMMA IdleStage == Idle.stage = "none"
BY DEF Idle

\* The invariant holds when the programs start.
LEMMA InitInv == Init => IInv
<1> SUFFICES ASSUME Init PROVE IInv
  OBVIOUS
<1> USE DEF Init
<1>1. \A r \in Requests : requests[r] = Idle /\ requests[r].stage = "none"
  BY IdleStage
<1>2. TypeOK
  BY <1>1, FailuresAssumption DEF TypeOK
<1>3. Forms
  BY <1>1 DEF Forms
<1>4. Truthful
  BY <1>1 DEF Truthful, Found
<1>5. QED
  BY <1>2, <1>3, <1>4 DEF IInv

\* A step that leaves the index and the programs, and of which every request but
\* r knows nothing.
LEMMA OneRequest ==
    ASSUME IInv, NEW r \in Requests,
           UNCHANGED <<index, up>>, failures' \in 0..MaxFailures,
           requests' = [s \in Requests |-> requests'[s]],
           \A s \in Requests : s # r => requests'[s] = requests[s],
           LET q == requests'[r]
           IN  \/ q = Idle
               \/ /\ Form(q, r)
                  /\ q.stage = "answered" /\ ~q.failed => q.answer \in Results(q.query)
    PROVE  IInv'
<1>1. TypeOK'
  BY DEF IInv, TypeOK, Form
<1>2. Forms'
  BY DEF IInv, Forms, Form
<1>3. Truthful'
  <2>1. \A a : Results(a)' = Results(a)
    BY DEF Results
  <2>2. QED
    BY <2>1, IdleStage DEF IInv, Truthful, Found
<1>4. QED
  BY <1>1, <1>2, <1>3 DEF IInv

\* What a request that is under way has.
LEMMA UnderWayForm ==
    ASSUME IInv, NEW r \in Requests, requests[r].stage # "none"
    PROVE  Form(requests[r], r)
BY IdleStage DEF IInv, Forms

\* Failures stay within their bound.
LEMMA FailureBounded == ASSUME Failure, IInv PROVE failures' \in 0..MaxFailures
<1>1. failures \in 0..MaxFailures /\ failures < MaxFailures /\ failures' = failures + 1
  BY DEF Failure, IInv, TypeOK
<1>2. QED
  BY <1>1, FailuresAssumption

\* Every step of one request keeps the invariant.
LEMMA StepKeeps ==
    ASSUME IInv, NEW r \in Requests,
           \/ \E q \in Asks[r] : Call(r, q)
           \/ BadBody(r) \/ Ask(r) \/ Reply(r) \/ ReplyError(r)
           \/ GarbageCounted(r) \/ AskFails(r) \/ Leave(r)
    PROVE  IInv'
<1> DEFINE old == requests[r]
           new == requests'[r]
<1>1. failures \in 0..MaxFailures /\ requests = [s \in Requests |-> requests[s]]
  BY DEF IInv, TypeOK, Forms
<1>2. ASSUME NEW q \in Asks[r], Call(r, q) PROVE IInv'
  <2>1. /\ requests' = [s \in Requests |-> requests'[s]]
        /\ \A s \in Requests : s # r => requests'[s] = requests[s]
        /\ new = [stage |-> "body", query |-> q, answer |-> Empty(q), failed |-> FALSE]
        /\ UNCHANGED <<index, up, failures>>
    BY <1>1, <1>2 DEF Call
  <2>2. Form(new, r) /\ new.stage = "body" /\ new.query = q
    BY <2>1 DEF Form
  <2>3. QED
    BY <1>1, <2>1, <2>2, OneRequest
<1>3. CASE Leave(r)
  <2>1. /\ requests' = [s \in Requests |-> requests'[s]]
        /\ \A s \in Requests : s # r => requests'[s] = requests[s]
        /\ new = Idle
        /\ UNCHANGED <<index, up, failures>>
    BY <1>1, <1>3 DEF Leave
  <2>2. QED
    BY <1>1, <2>1, OneRequest
<1>4. ASSUME NEW stage \in {"refused", "reset", "asked"}, old.stage # "none",
             Becomes(r, stage), UNCHANGED <<index, up>>, failures' \in 0..MaxFailures
      PROVE  IInv'
  <2>1. Form(old, r)
    BY <1>4, UnderWayForm
  <2>2. /\ requests' = [s \in Requests |-> requests'[s]]
        /\ \A s \in Requests : s # r => requests'[s] = requests[s]
        /\ Form(new, r) /\ new.stage = stage /\ new.query = old.query
    BY <1>1, <1>4, <2>1 DEF Becomes, Form
  <2>3. QED
    BY <1>4, <2>2, OneRequest
<1>5. CASE BadBody(r)
  BY <1>4, <1>5, FailureBounded DEF BadBody
<1>6. CASE AskFails(r)
  BY <1>4, <1>6, FailureBounded DEF AskFails
<1>7. CASE Ask(r)
  BY <1>1, <1>4, <1>7 DEF Ask
<1>8. CASE Reply(r)
  <2>1. PICK a \in Results(old.query) :
               requests' = [requests EXCEPT ![r].stage = "answered", ![r].answer = a]
    BY <1>8 DEF Reply
  <2>2. old.stage = "asked" /\ UNCHANGED <<index, up, failures>>
    BY <1>8 DEF Reply
  <2>3. Form(old, r)
    BY <2>2, UnderWayForm
  <2>4. /\ requests' = [s \in Requests |-> requests'[s]]
        /\ \A s \in Requests : s # r => requests'[s] = requests[s]
        /\ Form(new, r) /\ new.stage = "answered"
        /\ new.query = old.query /\ new.answer = a
    BY <1>1, <2>1, <2>3 DEF Form
  <2>5. QED
    BY <1>1, <2>1, <2>2, <2>4, OneRequest
<1>9. ASSUME NEW a, old.stage = "asked",
             requests' = [requests EXCEPT ![r].stage = "answered", ![r].failed = TRUE,
                                          ![r].answer = a],
             UNCHANGED <<index, up>>, Failure
      PROVE  IInv'
  <2>1. Form(old, r)
    BY <1>9, UnderWayForm
  <2>2. /\ requests' = [s \in Requests |-> requests'[s]]
        /\ \A s \in Requests : s # r => requests'[s] = requests[s]
        /\ Form(new, r) /\ new.stage = "answered" /\ new.failed = TRUE
    BY <1>1, <1>9, <2>1 DEF Form
  <2>3. QED
    BY <1>9, <2>2, OneRequest, FailureBounded
<1>10. CASE ReplyError(r)
  BY <1>9, <1>10 DEF ReplyError
<1>11. CASE GarbageCounted(r)
  BY <1>9, <1>11 DEF GarbageCounted
<1>12. QED
  BY <1>2, <1>3, <1>5, <1>6, <1>7, <1>8, <1>10, <1>11

\* A panic takes the program and all that wait for it.
LEMMA GarbageKeeps == ASSUME IInv, NEW r \in Requests, Garbage(r) PROVE IInv'
<1> DEFINE down == Service(requests[r].query)
           Hit(s) == /\ requests[s].stage \in {"body", "asked"}
                     /\ Service(requests[s].query) = down
<1>1. /\ index' = index /\ up' = up \ {down} /\ Failure
      /\ requests' = [s \in Requests |->
                        IF Hit(s) THEN [requests[s] EXCEPT !.stage = "reset"]
                        ELSE requests[s]]
  BY DEF Garbage
<1>2. /\ requests' = [s \in Requests |-> requests'[s]]
      /\ \A s \in Requests : ~Hit(s) => requests'[s] = requests[s]
  BY <1>1
<1>3. ASSUME NEW s \in Requests, Hit(s)
      PROVE  Form(requests'[s], s) /\ requests'[s].stage = "reset"
  <2>1. requests[s].stage # "none"
    BY <1>3
  <2>2. Form(requests[s], s)
    BY <2>1, UnderWayForm
  <2>3. requests'[s] = [requests[s] EXCEPT !.stage = "reset"]
    BY <1>1, <1>3
  <2>4. QED
    BY <2>2, <2>3 DEF Form
<1> HIDE DEF Hit, down
<1>4. TypeOK'
  <2>1. \A s \in Requests :
           \/ requests'[s] = Idle
           \/ /\ requests'[s].stage \in {"body", "asked", "answered", "refused", "reset"}
              /\ requests'[s].query \in Asks[s]
              /\ requests'[s].failed \in BOOLEAN
    BY <1>2, <1>3 DEF IInv, TypeOK, Form
  <2>2. QED
    BY <1>1, <2>1, FailureBounded DEF IInv, TypeOK
<1>5. Forms'
  BY <1>2, <1>3 DEF IInv, Forms, Form
<1>6. Truthful'
  <2>1. \A q : Results(q)' = Results(q)
    BY <1>1 DEF Results
  <2>2. QED
    BY <1>2, <1>3, <2>1 DEF IInv, Truthful, Found
<1>7. QED
  BY <1>4, <1>5, <1>6 DEF IInv

\* A program that starts again owes nobody an answer.
LEMMA RestartKeeps == ASSUME IInv, NEW s \in Services, Restart(s) PROVE IInv'
<1> USE DEF Restart
<1>1. TypeOK'
  BY DEF IInv, TypeOK
<1>2. Forms'
  BY DEF IInv, Forms
<1>3. \A q : Results(q)' = Results(q)
  BY DEF Results
<1>4. Truthful'
  BY <1>3 DEF IInv, Truthful, Found
<1>5. QED
  BY <1>1, <1>2, <1>4 DEF IInv

\* Every step keeps the invariant.
LEMMA NextInv == IInv /\ [Next]_vars => IInv'
<1> SUFFICES ASSUME IInv, [Next]_vars PROVE IInv'
  OBVIOUS
<1>1. ASSUME NEW r \in Requests,
             \/ \E q \in Asks[r] : Call(r, q)
             \/ BadBody(r) \/ Ask(r) \/ Reply(r) \/ ReplyError(r)
             \/ GarbageCounted(r) \/ AskFails(r) \/ Leave(r)
      PROVE  IInv'
  BY <1>1, StepKeeps
<1>2. ASSUME NEW r \in Requests, Garbage(r) PROVE IInv'
  BY <1>2, GarbageKeeps
<1>3. ASSUME NEW s \in Services, Restart(s) PROVE IInv'
  BY <1>3, RestartKeeps
<1>4. CASE UNCHANGED vars
  <2> USE <1>4 DEF vars
  <2>1. \A q : Results(q)' = Results(q)
    BY DEF Results
  <2>2. Truthful'
    BY <2>1 DEF IInv, Truthful, Found
  <2>3. TypeOK' /\ Forms'
    BY DEF IInv, TypeOK, Forms
  <2>4. QED
    BY <2>2, <2>3 DEF IInv
<1>5. QED
  BY <1>1, <1>2, <1>3, <1>4 DEF Next

\* The inductive invariant holds in every reachable state.
THEOREM Invariance == Spec => []IInv
<1>1. Init => IInv
  BY InitInv
<1>2. IInv /\ [Next]_vars => IInv'
  BY NextInv
<1>3. QED
  BY <1>1, <1>2, PTL DEF Spec

\* Every state of the programs and their requests has the types of its variables
\* (src/blah-count/serving/src/main.rs: call).
THEOREM TypeCorrect == Spec => []TypeOK
<1>1. IInv => TypeOK
  BY DEF IInv
<1>2. QED
  BY <1>1, Invariance, PTL

------------------------------------------------------------------------------
(* Induction, and sets in an order.                                        *)

\* Induction for a set of numbers.
LEMMA Inductive ==
    ASSUME NEW T, 0 \in T, \A n \in Nat : n \in T => n + 1 \in T
    PROVE  Nat \subseteq T
<1> DEFINE R == OpToRel(<, Nat)
<1>1. IsWellFoundedOn(R, Nat)
  BY NatLessThanWellFounded
<1>2. ASSUME Nat \ T # {} PROVE FALSE
  <2>1. PICK n \in Nat \ T : \A m \in Nat \ T : ~(<<m, n>> \in R)
    <3> HIDE DEF R
    <3>1. QED
      BY <1>1, <1>2, WFMin
  <2>2. n # 0 /\ n - 1 \in Nat
    OBVIOUS
  <2>3. <<n - 1, n>> \in R
    BY <2>2 DEF OpToRel
  <2> HIDE DEF R
  <2>4. n - 1 \in T /\ (n - 1) + 1 = n
    BY <2>1, <2>2, <2>3
  <2>5. QED
    BY <2>1, <2>2, <2>4
<1>3. QED
  BY <1>2

\* A set in an order.
StrictOrder(S, before) ==
    /\ \A x \in S : <<x, x>> \notin before
    /\ \A x, y, z \in S : <<x, y>> \in before /\ <<y, z>> \in before => <<x, z>> \in before
    /\ \A x, y \in S : x = y \/ <<x, y>> \in before \/ <<y, x>> \in before

\* InOrder makes a sequence of a finite set: each element once, in the order.
LEMMA InOrderSorts ==
    ASSUME NEW S, IsFiniteSet(S), NEW before, StrictOrder(S, before)
    PROVE  LET s == InOrder(S, before)
           IN  /\ Cardinality(S) \in Nat
               /\ s \in [1..Cardinality(S) -> S]
               /\ \A x \in S : \E n \in 1..Cardinality(S) : s[n] = x
               /\ \A m, n \in 1..Cardinality(S) : m < n => <<s[m], s[n]>> \in before
<1> DEFINE N == Cardinality(S)
           Below(x) == {y \in S : <<y, x>> \in before}
           rank == [x \in S |-> Cardinality(Below(x)) + 1]
           s == InOrder(S, before)
<1>1. N \in Nat
  BY FS_CardinalityType
<1>2. \A x \in S : Below(x) \in SUBSET S /\ IsFiniteSet(Below(x)) /\ Cardinality(Below(x)) \in Nat
  BY FS_Subset, FS_CardinalityType
<1>3. ASSUME NEW x \in S PROVE rank[x] \in 1..N
  <2>1. Below(x) # S
    BY DEF StrictOrder
  <2>2. Cardinality(Below(x)) <= N /\ Cardinality(Below(x)) # N
    BY <1>2, <2>1, FS_Subset
  <2>3. QED
    BY <1>1, <1>2, <2>2
<1>4. ASSUME NEW x \in S, NEW y \in S, <<x, y>> \in before PROVE rank[x] < rank[y]
  <2>1. Below(x) \in SUBSET Below(y) /\ x \in Below(y) /\ x \notin Below(x)
    BY <1>4 DEF StrictOrder
  <2>2. IsFiniteSet(Below(y)) /\ Cardinality(Below(y)) \in Nat /\ Cardinality(Below(x)) \in Nat
    BY <1>2
  <2> HIDE DEF Below
  <2>3. /\ Cardinality(Below(x)) <= Cardinality(Below(y))
        /\ Cardinality(Below(x)) # Cardinality(Below(y))
    BY <2>1, <2>2, FS_Subset
  <2>4. QED
    BY <2>2, <2>3
<1>5. rank \in [S -> 1..N]
  BY <1>3
<1> HIDE DEF rank
<1>6. ASSUME NEW x \in S, NEW y \in S, rank[x] = rank[y] PROVE x = y
  <2>1. rank[x] \in Int
    BY <1>1, <1>5
  <2>2. ~(rank[x] < rank[y]) /\ ~(rank[y] < rank[x])
    BY <1>6, <2>1
  <2>3. QED
    BY <1>4, <2>2 DEF StrictOrder
<1>7. rank \in Injection(S, 1..N)
  BY <1>5, <1>6 DEF Injection, IsInjective
<1>8. IsFiniteSet(1..N) /\ Cardinality(1..N) = N
  BY <1>1, FS_Interval
<1>9. rank \in Surjection(S, 1..N)
  BY <1>7, <1>8, FS_Injection
<1>10. ASSUME NEW n \in 1..N PROVE s[n] \in S /\ rank[s[n]] = n
  <2>1. PICK x \in S : rank[x] = n
    BY <1>9 DEF Surjection
  <2>2. Cardinality(Below(x)) = n - 1
    <3>1. rank[x] = Cardinality(Below(x)) + 1 /\ Cardinality(Below(x)) \in Nat
      BY <1>2 DEF rank
    <3> HIDE DEF Below
    <3>2. QED
      BY <1>1, <2>1, <3>1
  <2>3. s[n] = CHOOSE y \in S : Cardinality(Below(y)) = n - 1
    BY DEF InOrder
  <2> HIDE DEF s, Below
  <2>4. s[n] \in S /\ Cardinality(Below(s[n])) = n - 1
    BY <2>2, <2>3
  <2>5. QED
    BY <1>1, <2>4 DEF rank
<1>11. s \in [1..N -> S]
  BY <1>10 DEF InOrder
<1> HIDE DEF s
<1>12. \A x \in S : rank[x] \in 1..N /\ s[rank[x]] = x
  BY <1>5, <1>6, <1>10
<1>13. ASSUME NEW m \in 1..N, NEW n \in 1..N, m < n PROVE <<s[m], s[n]>> \in before
  <2>1. s[m] # s[n]
    BY <1>10, <1>13
  <2>2. <<s[n], s[m]>> \notin before
    BY <1>1, <1>4, <1>10, <1>13
  <2>3. QED
    BY <1>10, <2>1, <2>2 DEF StrictOrder
<1>14. QED
  BY <1>1, <1>11, <1>12, <1>13 DEF s

------------------------------------------------------------------------------
(* Sequences of sequences.                                                 *)

\* The sequences of a sequence, one after the other.
LEMMA FlattenEquation ==
    ASSUME NEW X, NEW s \in Seq(Seq(X)), s # <<>>
    PROVE  \E flatten : /\ flatten = [i \in 1..Len(s) |-> IF i = 1 THEN s[i]
                                                       ELSE flatten[i - 1] \o s[i]]
                        /\ FlattenSeq(s) = flatten[Len(s)]
<1> DEFINE Solves(g, k) ==
               g = [i \in 1..k |-> IF i = 1 THEN s[i] ELSE g[i - 1] \o s[i]]
           T == {k \in Nat : \E g : Solves(g, k)}
<1>1. Solves([i \in 1..0 |-> s[i]], 0)
  OBVIOUS
<1>2. ASSUME NEW k \in Nat, k \in T PROVE k + 1 \in T
  <2>1. PICK g : Solves(g, k)
    BY <1>2
  <2> DEFINE last == IF k = 0 THEN s[1] ELSE g[k] \o s[k + 1]
             h == [i \in 1..(k + 1) |-> IF i = k + 1 THEN last ELSE g[i]]
  <2>2. ASSUME NEW i \in 1..(k + 1)
        PROVE  h[i] = IF i = 1 THEN s[i] ELSE h[i - 1] \o s[i]
    <3>1. CASE i = k + 1
      <4>1. h[i] = last
        BY <3>1
      <4>2. CASE k = 0
        BY <3>1, <4>1, <4>2
      <4>3. CASE k # 0
        <5>1. i - 1 = k /\ i - 1 \in 1..(k + 1) /\ i - 1 # k + 1 /\ i # 1
          BY <3>1, <4>3
        <5>2. h[i - 1] = g[k]
          BY <5>1
        <5>3. QED
          BY <3>1, <4>1, <4>3, <5>1, <5>2
      <4>4. QED
        BY <4>2, <4>3
    <3>2. CASE i # k + 1
      <4>1. i \in 1..k /\ h[i] = g[i]
        BY <3>2
      <4>2. g[i] = IF i = 1 THEN s[i] ELSE g[i - 1] \o s[i]
        BY <2>1, <4>1
      <4>3. i # 1 => h[i - 1] = g[i - 1]
        BY <4>1
      <4>4. QED
        BY <4>1, <4>2, <4>3
    <3>3. QED
      BY <3>1, <3>2
  <2>3. Solves(h, k + 1)
    <3>1. h = [i \in 1..(k + 1) |-> h[i]]
      OBVIOUS
    <3> HIDE DEF h
    <3>2. QED
      BY <2>2, <3>1
  <2> HIDE DEF h, Solves
  <2>4. QED
    BY <2>3
<1>3. Nat \subseteq T
  <2>1. 0 \in T
    BY <1>1
  <2> HIDE DEF T
  <2>2. QED
    BY <1>2, <2>1, Inductive
<1>4. Len(s) \in Nat /\ Len(s) # 0
  BY LenProperties, EmptySeq
<1> DEFINE flatten == CHOOSE g : Solves(g, Len(s))
<1>5. \E g : Solves(g, Len(s))
  BY <1>3, <1>4
<1>6. Solves(flatten, Len(s))
  BY <1>5
<1>7. FlattenSeq(s) = flatten[Len(s)]
  BY <1>4 DEF FlattenSeq
<1> HIDE DEF flatten
<1>8. QED
  BY <1>6, <1>7

\* Every element of the first k sequences has its place in f.
Places(f, s, k, of, at) ==
    /\ of \in [1..Len(f) -> Nat] /\ at \in [1..Len(f) -> Nat]
    /\ \A i \in 1..Len(f) : /\ of[i] \in 1..k /\ at[i] \in 1..Len(s[of[i]])
                            /\ f[i] = s[of[i]][at[i]]
    /\ \A i, j \in 1..Len(f) : of[i] = of[j] /\ at[i] = at[j] => i = j
    /\ \A a \in 1..k : \A b \in 1..Len(s[a]) :
          \E i \in 1..Len(f) : of[i] = a /\ at[i] = b

\* FlattenSeq has the elements of the sequences and no others, each in its place.
LEMMA FlattenPlaces ==
    ASSUME NEW X, NEW s \in Seq(Seq(X))
    PROVE  /\ FlattenSeq(s) \in Seq(X)
           /\ \E of, at : Places(FlattenSeq(s), s, Len(s), of, at)
<1>1. /\ Len(s) \in Nat /\ \A a \in 1..Len(s) : s[a] \in Seq(X) /\ Len(s[a]) \in Nat
  BY LenProperties, ElementOfSeq
<1>2. CASE s = <<>>
  <2>1. FlattenSeq(s) = <<>>
    BY <1>2 DEF FlattenSeq
  <2>2. Len(<<>>) = 0
    OBVIOUS
  <2>3. Places(<<>>, s, 0, [i \in 1..0 |-> 0], [i \in 1..0 |-> 0])
    BY <2>2 DEF Places
  <2>4. <<>> \in Seq(X)
    BY EmptySeq
  <2>5. \E of, at : Places(<<>>, s, 0, of, at)
    BY <2>3
  <2>6. QED
    BY ONLY <1>2, <2>1, <2>2, <2>4, <2>5
<1>3. CASE s # <<>>
  <2>1. PICK flatten : /\ flatten = [i \in 1..Len(s) |-> IF i = 1 THEN s[i]
                                                       ELSE flatten[i - 1] \o s[i]]
                       /\ FlattenSeq(s) = flatten[Len(s)]
    BY <1>3, FlattenEquation
  <2> DEFINE Placed(k) == /\ flatten[k] \in Seq(X)
                          /\ \E of, at : Places(flatten[k], s, k, of, at)
             T == {k \in Nat : k \in 1..Len(s) => Placed(k)}
  <2>2. 0 \in T
    OBVIOUS
  <2>3. ASSUME NEW k \in Nat, k \in T PROVE k + 1 \in T
    <3>1. SUFFICES ASSUME k + 1 \in 1..Len(s) PROVE Placed(k + 1)
      OBVIOUS
    <3> DEFINE last == s[k + 1]
    <3>2. last \in Seq(X) /\ Len(last) \in Nat
      BY <1>1, <3>1
    <3>3. CASE k = 0
      <4> DEFINE of == [i \in 1..Len(last) |-> 1]
                 at == [i \in 1..Len(last) |-> i]
      <4>1. flatten[k + 1] = last
        BY <2>1, <3>1, <3>3
      <4>2. Places(last, s, 1, of, at)
        BY <3>2, <3>3 DEF Places
      <4> HIDE DEF of, at
      <4>3. QED
        BY <3>2, <3>3, <4>1, <4>2
    <3>4. CASE k # 0
      <4> DEFINE f == flatten[k]
                 L == Len(f)
      <4>1. k \in 1..Len(s) /\ k + 1 # 1 /\ (k + 1) - 1 = k
        BY <1>1, <3>1, <3>4
      <4>2. flatten[k + 1] = f \o last
        BY <2>1, <3>1, <4>1
      <4>3. f \in Seq(X) /\ \E of, at : Places(f, s, k, of, at)
        BY <2>3, <4>1
      <4>4. PICK of, at : Places(f, s, k, of, at)
        BY <4>3
      <4>5. L \in Nat
        BY <4>3, LenProperties
      <4> DEFINE of2 == [i \in 1..(L + Len(last)) |-> IF i <= L THEN of[i] ELSE k + 1]
                 at2 == [i \in 1..(L + Len(last)) |-> IF i <= L THEN at[i] ELSE i - L]
                 g == f \o last
      <4>6. /\ g \in Seq(X) /\ Len(g) = L + Len(last)
            /\ \A i \in 1..(L + Len(last)) : g[i] = IF i <= L THEN f[i] ELSE last[i - L]
        BY <3>2, <4>3, ConcatProperties
      <4> HIDE DEF f, L, g, last
      <4>7. Places(g, s, k + 1, of2, at2)
        <5>1. of2 \in [1..Len(g) -> Nat] /\ at2 \in [1..Len(g) -> Nat]
          BY <3>2, <4>4, <4>5, <4>6 DEF Places, L
        <5>2. ASSUME NEW i \in 1..Len(g)
              PROVE  /\ of2[i] \in 1..(k + 1) /\ at2[i] \in 1..Len(s[of2[i]])
                     /\ g[i] = s[of2[i]][at2[i]]
          <6>1. CASE i <= L
            <7>1. i \in 1..L /\ of2[i] = of[i] /\ at2[i] = at[i]
              BY <3>2, <4>5, <4>6, <6>1
            <7>2. QED
              BY <4>4, <4>5, <4>6, <6>1, <7>1 DEF Places, L
          <6>2. CASE ~(i <= L)
            <7>1. of2[i] = k + 1 /\ at2[i] = i - L /\ i - L \in 1..Len(last)
              BY <3>2, <4>5, <4>6, <6>2
            <7>2. QED
              BY <4>6, <6>2, <7>1 DEF last
          <6>3. QED
            BY <6>1, <6>2
        <5>3. ASSUME NEW i \in 1..Len(g), NEW j \in 1..Len(g), of2[i] = of2[j], at2[i] = at2[j]
              PROVE  i = j
          <6>1. \A n \in 1..L : of[n] # k + 1 /\ n \in 1..Len(f)
            BY <4>4, <4>5 DEF Places, L
          <6>2. CASE i <= L /\ j <= L
            <7>1. i \in 1..L /\ j \in 1..L /\ of[i] = of[j] /\ at[i] = at[j]
              BY <3>2, <4>5, <4>6, <5>3, <6>2
            <7>2. QED
              BY <4>4, <6>1, <7>1 DEF Places
          <6>3. CASE ~(i <= L) /\ ~(j <= L)
            BY <3>2, <4>5, <4>6, <5>3, <6>3
          <6>4. CASE i <= L /\ ~(j <= L)
            BY <3>2, <4>5, <4>6, <5>3, <6>1, <6>4
          <6>5. CASE ~(i <= L) /\ j <= L
            BY <3>2, <4>5, <4>6, <5>3, <6>1, <6>5
          <6>6. QED
            BY <6>2, <6>3, <6>4, <6>5
        <5>4. ASSUME NEW a \in 1..(k + 1), NEW b \in 1..Len(s[a])
              PROVE  \E i \in 1..Len(g) : of2[i] = a /\ at2[i] = b
          <6>1. CASE a = k + 1
            <7>1. b \in 1..Len(last) /\ L + b \in 1..Len(g) /\ ~(L + b <= L)
                  /\ (L + b) - L = b
              BY <3>2, <4>5, <4>6, <6>1 DEF last
            <7>2. of2[L + b] = a /\ at2[L + b] = b
              BY <4>6, <6>1, <7>1
            <7>3. QED
              BY <7>1, <7>2
          <6>2. CASE a # k + 1
            <7>1. a \in 1..k
              BY <6>2
            <7>2. PICK i \in 1..L : of[i] = a /\ at[i] = b
              BY <4>4, <7>1 DEF Places, L
            <7>3. i \in 1..Len(g) /\ i <= L
              BY <3>2, <4>5, <4>6
            <7>4. of2[i] = a /\ at2[i] = b
              BY <4>6, <7>2, <7>3
            <7>5. QED
              BY <7>3, <7>4
          <6>3. QED
            BY <6>1, <6>2
        <5> HIDE DEF of2, at2
        <5>5. QED
          BY <5>1, <5>2, <5>3, <5>4 DEF Places
      <4> HIDE DEF of2, at2
      <4>8. QED
        BY <4>2, <4>6, <4>7 DEF g
    <3>5. QED
      BY <3>3, <3>4
  <2> HIDE DEF T
  <2>4. Nat \subseteq T
    BY <2>2, <2>3, Inductive
  <2>5. Len(s) \in 1..Len(s)
    BY <1>1, <1>3, EmptySeq
  <2>6. QED
    BY <1>1, <2>1, <2>4, <2>5 DEF T
<1>4. QED
  BY <1>2, <1>3

------------------------------------------------------------------------------
(* Positions and merged rows.                                              *)

\* Numbers are in an order.
LEMMA NumbersInOrder ==
    ASSUME NEW P, P \subseteq Int
    PROVE  StrictOrder(P, {p \in P \X P : p[1] < p[2]})
BY DEF StrictOrder

\* The elements at some positions keep their order.
LEMMA PositionsInOrder ==
    ASSUME NEW s, NEW P, P \subseteq Int, IsFiniteSet(P)
    PROVE  /\ Cardinality(P) \in Nat
           /\ \E at \in [1..Cardinality(P) -> P] :
                 /\ AtPositions(s, P) = [n \in 1..Cardinality(P) |-> s[at[n]]]
                 /\ \A p \in P : \E n \in 1..Cardinality(P) : at[n] = p
                 /\ \A m, n \in 1..Cardinality(P) : m < n => at[m] < at[n]
<1> DEFINE before == {p \in P \X P : p[1] < p[2]}
           at == InOrder(P, before)
           N == Cardinality(P)
<1>1. StrictOrder(P, before)
  BY NumbersInOrder
<1>2. \A x, y \in P : <<x, y>> \in before => x < y
  OBVIOUS
<1>3. AtPositions(s, P) = [n \in DOMAIN at |-> s[at[n]]]
  BY DEF AtPositions
<1> HIDE DEF before
<1>4. /\ N \in Nat
      /\ at \in [1..N -> P]
      /\ \A x \in P : \E n \in 1..N : at[n] = x
      /\ \A m, n \in 1..N : m < n => <<at[m], at[n]>> \in before
  BY <1>1, InOrderSorts
<1> HIDE DEF at, N
<1>5. \A m, n \in 1..N : m < n => at[m] < at[n]
  BY <1>2, <1>4
<1>6. DOMAIN at = 1..N
  BY <1>4
<1>7. AtPositions(s, P) = [n \in 1..N |-> s[at[n]]]
  BY <1>3, <1>6
<1>8. QED
  BY <1>4, <1>5, <1>7 DEF N

\* The first elements of a sequence.
LEMMA TakeFirst ==
    ASSUME NEW X, NEW s \in Seq(X), NEW n \in Nat
    PROVE  LET N == IF n < Len(s) THEN n ELSE Len(s)
           IN  /\ N \in Nat /\ N <= Len(s)
               /\ Take(s, n) \in Seq(X) /\ Len(Take(s, n)) = N
               /\ \A i \in 1..N : Take(s, n)[i] = s[i]
<1> DEFINE N == IF n < Len(s) THEN n ELSE Len(s)
<1>1. Len(s) \in Nat /\ N \in Nat /\ N <= Len(s)
  BY LenProperties
<1>2. \A i \in 1..N : s[i] \in X
  BY <1>1, ElementOfSeq
<1>3. Take(s, n) = SubSeq(s, 1, N)
  BY DEF Take
<1> HIDE DEF N
<1>4. /\ SubSeq(s, 1, N) \in Seq(X)
      /\ Len(SubSeq(s, 1, N)) = IF 1 <= N THEN N - 1 + 1 ELSE 0
      /\ \A i \in 1..(N - 1 + 1) : SubSeq(s, 1, N)[i] = s[1 + i - 1]
  BY <1>1, <1>2, SubSeqProperties
<1>5. QED
  BY <1>1, <1>3, <1>4 DEF N

\* Rows merged into an item have its field g, beside their own fields F and count.
Mergeable(item, g, F, inner) ==
    /\ g # "count" /\ "count" \notin F
    /\ DOMAIN item = {g, "count"}
    /\ Len(inner) \in Nat /\ DOMAIN inner = 1..Len(inner)
    /\ \A i \in 1..Len(inner) : DOMAIN inner[i] = F \cup {"count"}

\* They keep what they had: only a field that is none of theirs is the item's.
IsMerged(rows, item, g, F, inner) ==
    /\ rows = [i \in 1..Len(inner) |-> rows[i]]
    /\ \A i \in 1..Len(inner) :
          /\ DOMAIN rows[i] = F \cup {g, "count"}
          /\ g \notin F => rows[i][g] = item[g]
          /\ \A f \in F \cup {"count"} : rows[i][f] = inner[i][f]

\* What Merged makes of an item and the inner rows.
LEMMA MergedRows ==
    ASSUME NEW item, NEW g, NEW F, NEW inner, Mergeable(item, g, F, inner)
    PROVE  IsMerged(Merged(item, inner), item, g, F, inner)
<1> DEFINE L == Len(inner)
           Solves(m, k) ==
               m = [i \in 0..k |-> IF i = 0 THEN item ELSE Over(inner[i], m[i - 1])]
           T == {k \in Nat : \E m : Solves(m, k)}
<1>1. L \in Nat /\ DOMAIN inner = 1..L
  BY DEF Mergeable
<1>2. 0 \in T
  <2>1. Solves([i \in 0..0 |-> item], 0)
    OBVIOUS
  <2> HIDE DEF Solves
  <2>2. QED
    BY <2>1
<1>3. ASSUME NEW k \in Nat, k \in T PROVE k + 1 \in T
  <2>1. PICK m : Solves(m, k)
    BY <1>3
  <2> DEFINE h == [i \in 0..(k + 1) |-> IF i = k + 1 THEN Over(inner[k + 1], m[k]) ELSE m[i]]
  <2>2. ASSUME NEW i \in 0..(k + 1)
        PROVE  h[i] = IF i = 0 THEN item ELSE Over(inner[i], h[i - 1])
    <3>1. CASE i = k + 1
      <4>1. i # 0 /\ i - 1 = k /\ k \in 0..(k + 1) /\ k # k + 1
        BY <3>1
      <4>2. h[k] = m[k]
        BY <4>1
      <4>3. QED
        BY <3>1, <4>1, <4>2
    <3>2. CASE i # k + 1
      <4>1. i \in 0..k /\ h[i] = m[i]
        BY <3>2
      <4>2. m[i] = IF i = 0 THEN item ELSE Over(inner[i], m[i - 1])
        BY <2>1, <4>1
      <4>3. i # 0 => h[i - 1] = m[i - 1]
        BY <4>1
      <4>4. QED
        BY <4>1, <4>2, <4>3
    <3>3. QED
      BY <3>1, <3>2
  <2>3. h = [i \in 0..(k + 1) |-> h[i]]
    OBVIOUS
  <2> HIDE DEF h
  <2>4. Solves(h, k + 1)
    BY <2>2, <2>3
  <2> HIDE DEF Solves
  <2>5. QED
    BY <2>4
<1>4. Nat \subseteq T
  <2> HIDE DEF T
  <2>1. QED
    BY <1>2, <1>3, Inductive
<1> DEFINE merged == CHOOSE m : Solves(m, L)
<1>5. Solves(merged, L)
  <2>1. \E m : Solves(m, L)
    BY <1>1, <1>4
  <2>2. QED
    BY <2>1
<1>6. Merged(item, inner) = [i \in DOMAIN inner |-> merged[i]]
  BY DEF Merged
<1> HIDE DEF merged, T
<1> DEFINE Kept(row) == /\ g \notin F => row[g] = item[g]
                        /\ DOMAIN row \in {{g, "count"}, F \cup {g, "count"}}
           U == {k \in Nat : k <= L => Kept(merged[k])}
<1>7. merged[0] = item /\ Kept(item)
  BY <1>1, <1>5 DEF Mergeable
<1>8. \A k \in 1..L : merged[k] = Over(inner[k], merged[k - 1])
  BY <1>1, <1>5
<1>9. ASSUME NEW k \in 1..L, Kept(merged[k - 1])
      PROVE  /\ DOMAIN merged[k] = F \cup {g, "count"}
             /\ g \notin F => merged[k][g] = item[g]
             /\ \A f \in F \cup {"count"} : merged[k][f] = inner[k][f]
  <2>1. DOMAIN inner[k] = F \cup {"count"} /\ g # "count"
    BY DEF Mergeable
  <2>2. merged[k] = Over(inner[k], merged[k - 1])
    BY <1>8
  <2>3. DOMAIN merged[k] = F \cup {g, "count"}
    BY <1>9, <2>1, <2>2 DEF Over
  <2>4. \A f \in DOMAIN merged[k] :
           merged[k][f] = IF f \in F \cup {"count"} THEN inner[k][f] ELSE merged[k - 1][f]
    BY <2>1, <2>2 DEF Over
  <2>5. QED
    BY <1>9, <2>1, <2>3, <2>4
<1>10. 0 \in U
  BY <1>7
<1>11. ASSUME NEW k \in Nat, k \in U PROVE k + 1 \in U
  <2>1. CASE k + 1 <= L
    <3>1. k + 1 \in 1..L /\ (k + 1) - 1 = k /\ Kept(merged[k])
      BY <1>1, <1>11, <2>1
    <3> HIDE DEF L, Kept
    <3>2. Kept(merged[k + 1])
      <4>1. Kept(merged[(k + 1) - 1])
        BY <3>1
      <4>2. /\ DOMAIN merged[k + 1] = F \cup {g, "count"}
            /\ g \notin F => merged[k + 1][g] = item[g]
        BY <1>9, <3>1, <4>1
      <4>3. QED
        BY <4>2 DEF Kept
    <3>3. QED
      BY <3>2
  <2>2. CASE ~(k + 1 <= L)
    BY <2>2
  <2>3. QED
    BY <2>1, <2>2
<1>12. Nat \subseteq U
  <2> HIDE DEF U
  <2>1. QED
    BY <1>10, <1>11, Inductive
<1>13. ASSUME NEW i \in 1..L PROVE Kept(merged[i - 1])
  <2>1. i - 1 \in Nat /\ i - 1 <= L
    BY <1>1
  <2> HIDE DEF Kept
  <2>2. QED
    BY <1>12, <2>1
<1>14. \A i \in 1..L : Merged(item, inner)[i] = merged[i]
  BY <1>1, <1>6
<1> HIDE DEF L, Kept
<1>15. Merged(item, inner) = [i \in 1..L |-> Merged(item, inner)[i]]
  BY <1>1, <1>6
<1>16. ASSUME NEW i \in 1..L
       PROVE  LET row == Merged(item, inner)[i]
              IN  /\ DOMAIN row = F \cup {g, "count"}
                  /\ g \notin F => row[g] = item[g]
                  /\ \A f \in F \cup {"count"} : row[f] = inner[i][f]
  BY <1>9, <1>13, <1>14
<1>17. QED
  BY <1>15, <1>16 DEF IsMerged, L

------------------------------------------------------------------------------
(* Keys of an aggregation.                                                 *)

\* A finite set of numbers has a least one.
LEMMA Extremes ==
    ASSUME NEW S, S \subseteq Int, IsFiniteSet(S), S # {}
    PROVE  /\ Min(S) \in S /\ \A y \in S : Min(S) <= y
           /\ Max(S) \in S /\ \A y \in S : y <= Max(S)
<1> DEFINE N == Cardinality(S)
           s == InOrder(S, {p \in S \X S : p[1] < p[2]})
<1>1. /\ N \in Nat
      /\ s \in [1..N -> S]
      /\ \A x \in S : \E n \in 1..N : s[n] = x
      /\ \A m, n \in 1..N : m < n => <<s[m], s[n]>> \in {p \in S \X S : p[1] < p[2]}
  BY NumbersInOrder, InOrderSorts
<1> HIDE DEF s, N
<1>2. N # 0
  <2>1. PICK x \in S : TRUE
    OBVIOUS
  <2>2. PICK n \in 1..N : s[n] = x
    BY <1>1, <2>1
  <2>3. QED
    BY <1>1, <2>2
<1>3. \A m, n \in 1..N : m < n => s[m] < s[n]
  BY <1>1
<1>4. 1 \in 1..N /\ N \in 1..N
  BY <1>1, <1>2
<1>5. ASSUME NEW y \in S PROVE s[1] <= y /\ y <= s[N]
  <2>1. PICK n \in 1..N : s[n] = y
    BY <1>1
  <2>2. s[1] \in Int /\ s[n] \in Int /\ s[N] \in Int
    BY <1>1, <1>4
  <2>3. (n = 1 \/ 1 < n) /\ (n = N \/ n < N)
    BY <1>1
  <2>4. (1 < n => s[1] < s[n]) /\ (n < N => s[n] < s[N])
    BY <1>3, <1>4
  <2>5. QED
    BY <2>1, <2>2, <2>3, <2>4
<1>7. Min(S) \in S /\ \A y \in S : Min(S) <= y
  BY <1>1, <1>4, <1>5 DEF Min
<1>8. Max(S) \in S /\ \A y \in S : y <= Max(S)
  BY <1>1, <1>4, <1>5 DEF Max
<1>9. QED
  BY <1>7, <1>8

\* Dates rounded down to a length are multiples of it.
LEMMA Rounded ==
    ASSUME NEW w \in Nat \ {0}, NEW d \in Int
    PROVE  d \div w \in Int /\ d - (d % w) = (d \div w) * w
OBVIOUS

\* Multiples of a length are ordered as their quotients.
LEMMA Multiples ==
    ASSUME NEW w \in Nat \ {0}, NEW k \in Int, NEW m \in Int
    PROVE  /\ k * w = m * w => k = m
           /\ k * w <= m * w => k <= m
           /\ (k * w - m * w) \div w = k - m
           /\ k * w = m * w + (k - m) * w
<1>1. k * w = m * w => k = m
  OBVIOUS
<1>2. k * w <= m * w => k <= m
  OBVIOUS
<1>3. k * w - m * w = (k - m) * w /\ k - m \in Int
  OBVIOUS
<1>4. \A j \in Int : (j * w) \div w = j
  OBVIOUS
<1>5. QED
  BY <1>1, <1>2, <1>3, <1>4

\* What a bucket of a level is about.
Keyed(d, level) == level.field = "date" \/ level.field \in DOMAIN d.keys
\* The key of the bucket that a document is in.
KeyOf(d, level) ==
    IF level.field = "date" THEN d.date - (d.date % level.width) ELSE d.keys[level.field]

\* Documents and levels as far as an aggregation needs them.
Countable(docs) ==
    /\ IsFiniteSet(docs)
    /\ \A d \in docs : d.date \in Int /\ \A f \in DOMAIN d.keys : d.keys[f] \in Int

\* A level of dates has a length; a field is none that Has treats otherwise.
Groups(level) ==
    IF level.field = "date" THEN level.width \in Nat \ {0} ELSE level.field # "prefix"

\* The values that a field has in some documents.
Terms(docs, level) ==
    {d.keys[level.field] : d \in {e \in docs : level.field \in DOMAIN e.keys}}

\* The keys of a level are apart and terms are of some document.  There is a key
\* for each document, unless there are too many terms, but always one for some.
ApartAndAll(keys, docs, level) ==
    /\ \E n \in Nat : keys \in [1..n -> Int]
    /\ \A i, j \in DOMAIN keys : keys[i] = keys[j] => i = j
    /\ level.field # "date" =>
          \A i \in DOMAIN keys : \E d \in docs : Keyed(d, level) /\ KeyOf(d, level) = keys[i]
    /\ level.field = "date" \/ Cardinality(Terms(docs, level)) <= TermsSize =>
          \A d \in docs : Keyed(d, level) =>
              \E i \in DOMAIN keys : keys[i] = KeyOf(d, level)
    /\ (\E d \in docs : Keyed(d, level)) => DOMAIN keys # {}

\* The starts of the histogram, from the first date to the last, are keys.
LEMMA DateKeys ==
    ASSUME NEW docs, Countable(docs), docs # {}, NEW level, Groups(level),
           level.field = "date"
    PROVE  ApartAndAll(KeysOf(docs, level), docs, level)
<1> DEFINE w == level.width
           Start(d) == d.date - (d.date % w)
           starts == {Start(d) : d \in docs}
           last == (Max(starts) - Min(starts)) \div w + 1
           keys == KeysOf(docs, level)
<1>1. w \in Nat \ {0}
  BY DEF Groups
<1>2. keys = [i \in 1..last |-> Min(starts) + (i - 1) * w]
  BY DEF KeysOf
<1>3. \A d \in docs : KeyOf(d, level) = Start(d)
  BY DEF KeyOf
<1>4. ASSUME NEW d \in docs PROVE \E k \in Int : Start(d) = k * w
  BY <1>1, Rounded DEF Countable
<1>5. \A x \in starts : x \in Int /\ \E k \in Int : x = k * w
  BY <1>1, <1>4
<1>6. IsFiniteSet(starts) /\ starts # {}
  <2> DEFINE f == [d \in docs |-> Start(d)]
  <2>1. f \in Surjection(docs, starts)
    BY DEF Surjection
  <2>2. IsFiniteSet(docs)
    BY DEF Countable
  <2> HIDE DEF f, starts
  <2>3. IsFiniteSet(starts)
    BY <2>1, <2>2, FS_Surjection
  <2>4. QED
    BY <2>3 DEF starts
<1> HIDE DEF starts, Start, w, last, keys
<1>7. /\ Min(starts) \in starts /\ \A x \in starts : Min(starts) <= x
      /\ Max(starts) \in starts /\ \A x \in starts : x <= Max(starts)
  BY <1>5, <1>6, Extremes
<1>8. PICK low \in Int, high \in Int : Min(starts) = low * w /\ Max(starts) = high * w
  BY <1>5, <1>7
<1>9. last = high - low + 1 /\ low <= high
  <2>1. low * w <= high * w
    BY <1>7, <1>8
  <2>2. low <= high /\ (high * w - low * w) \div w = high - low
    BY <1>1, <2>1, Multiples
  <2>3. QED
    BY <1>8, <2>2 DEF last
<1>10. \A i \in 1..last : (i - 1) * w \in Int
  BY <1>1, <1>9
<1>11. last \in Nat /\ keys \in [1..last -> Int]
  BY <1>2, <1>5, <1>7, <1>9, <1>10
<1>12. ASSUME NEW i \in 1..last, NEW j \in 1..last, keys[i] = keys[j] PROVE i = j
  <2>1. Min(starts) + (i - 1) * w = Min(starts) + (j - 1) * w
    BY <1>2, <1>12
  <2>2. (i - 1) * w = (j - 1) * w
    BY <1>5, <1>7, <1>10, <2>1
  <2>3. i - 1 = j - 1
    BY <1>1, <2>2, Multiples
  <2>4. QED
    BY <1>9, <2>3
<1>13. ASSUME NEW d \in docs PROVE \E i \in 1..last : keys[i] = Start(d)
  <2>1. Start(d) \in starts
    BY DEF starts
  <2>2. PICK k \in Int : Start(d) = k * w
    BY <1>4
  <2>3. low * w <= k * w /\ k * w <= high * w
    BY <1>7, <1>8, <2>1, <2>2
  <2>4. low <= k /\ k <= high
    BY <1>1, <2>3, Multiples
  <2>5. k * w = low * w + (k - low) * w
    BY <1>1, Multiples
  <2> DEFINE i == k - low + 1
  <2>6. i \in 1..last /\ i - 1 = k - low
    BY <1>9, <2>4
  <2>7. keys[i] = Start(d)
    BY <1>2, <1>8, <2>2, <2>5, <2>6
  <2>8. QED
    BY <2>6, <2>7
<1>14. DOMAIN keys = 1..last
  BY <1>11
<1>15. QED
  BY <1>3, <1>11, <1>12, <1>13, <1>14 DEF ApartAndAll, keys, Start

\* The terms of a field, the most frequent first, are keys.
LEMMA TermKeys ==
    ASSUME NEW docs, Countable(docs), NEW level, Groups(level), level.field # "date"
    PROVE  ApartAndAll(KeysOf(docs, level), docs, level)
<1> DEFINE terms == Terms(docs, level)
           freq(t) == Cardinality(DocsIn(docs, level, t))
           before == {p \in terms \X terms :
                         \/ freq(p[1]) > freq(p[2])
                         \/ freq(p[1]) = freq(p[2]) /\ p[1] < p[2]}
           all == InOrder(terms, before)
           N == Cardinality(terms)
           keys == KeysOf(docs, level)
<1>1. keys = Take(all, TermsSize)
  BY DEF KeysOf, Terms
<1>2. terms \subseteq Int
  BY DEF Terms, Countable
<1>3. IsFiniteSet(terms)
  <2> DEFINE have == {e \in docs : level.field \in DOMAIN e.keys}
             f == [d \in have |-> d.keys[level.field]]
  <2>1. f \in Surjection(have, terms)
    BY DEF Surjection, Terms
  <2>2. IsFiniteSet(have)
    BY FS_Subset DEF Countable
  <2> HIDE DEF f, terms, have
  <2>3. QED
    BY <2>1, <2>2, FS_Surjection
<1>4. \A t \in terms : freq(t) \in Nat
  <2>1. ASSUME NEW t PROVE freq(t) \in Nat
    <3>1. DocsIn(docs, level, t) \in SUBSET docs
      BY DEF DocsIn
    <3>2. IsFiniteSet(docs)
      BY DEF Countable
    <3>3. QED
      BY <3>1, <3>2, FS_Subset, FS_CardinalityType
  <2>2. QED
    BY <2>1
<1> HIDE DEF freq, terms
<1>5. StrictOrder(terms, before)
  <2>1. \A x \in terms : x \in Int /\ freq(x) \in Int
    BY <1>2, <1>4
  <2>2. \A x, y \in terms : <<x, y>> \in before <=>
             freq(x) > freq(y) \/ (freq(x) = freq(y) /\ x < y)
    OBVIOUS
  <2> HIDE DEF before
  <2>3. QED
    BY <2>1, <2>2 DEF StrictOrder
<1> HIDE DEF before
<1>6. /\ N \in Nat
      /\ all \in [1..N -> terms]
      /\ \A x \in terms : \E n \in 1..N : all[n] = x
      /\ \A m, n \in 1..N : m < n => <<all[m], all[n]>> \in before
  BY <1>3, <1>5, InOrderSorts
<1> HIDE DEF all, N
<1>7. all \in Seq(terms) /\ Len(all) = N
  BY <1>6, SeqDef
<1>8. TermsSize \in Nat
  BY SizesAssumption
<1> DEFINE n == IF TermsSize < N THEN TermsSize ELSE N
<1>9. /\ n \in Nat /\ n <= N /\ keys \in Seq(terms) /\ Len(keys) = n
      /\ \A i \in 1..n : keys[i] = all[i]
  BY <1>1, <1>7, <1>8, TakeFirst
<1>10. DOMAIN keys = 1..n /\ keys \in [1..n -> Int]
  <2>1. keys \in [1..n -> terms]
    BY <1>9, LenProperties
  <2>2. QED
    BY <1>2, <2>1
<1> HIDE DEF keys, n
<1>11. ASSUME NEW i \in 1..n, NEW j \in 1..n, keys[i] = keys[j] PROVE i = j
  <2>1. i \in 1..N /\ j \in 1..N /\ all[i] = all[j]
    BY <1>6, <1>9, <1>11
  <2>2. ~(i < j) /\ ~(j < i)
    BY <1>5, <1>6, <2>1 DEF StrictOrder
  <2>3. QED
    BY <1>6, <2>1, <2>2
<1>12. ASSUME Cardinality(terms) <= TermsSize, NEW d \in docs, level.field \in DOMAIN d.keys
       PROVE  \E i \in 1..n : keys[i] = d.keys[level.field]
  <2>1. n = N
    BY <1>6, <1>8, <1>12 DEF n, N
  <2>2. d.keys[level.field] \in terms
    BY <1>12 DEF terms, Terms
  <2>3. QED
    BY <1>6, <1>9, <2>1, <2>2
<1>13. ASSUME NEW i \in 1..n
       PROVE  \E d \in docs : level.field \in DOMAIN d.keys /\ d.keys[level.field] = keys[i]
  <2>1. keys[i] \in terms
    BY <1>6, <1>9
  <2>2. QED
    BY <2>1 DEF terms, Terms
<1>14. ASSUME NEW d \in docs, level.field \in DOMAIN d.keys PROVE 1 \in 1..n
  <2>1. d.keys[level.field] \in terms
    BY <1>14 DEF terms, Terms
  <2>2. PICK k \in 1..N : all[k] = d.keys[level.field]
    BY <1>6, <2>1
  <2>3. N # 0 /\ TermsSize # 0
    BY <1>6, <2>2, SizesAssumption
  <2>4. QED
    BY <1>6, <1>8, <2>3 DEF n
<1>15. QED
  BY <1>9, <1>10, <1>11, <1>12, <1>13, <1>14 DEF ApartAndAll, Keyed, KeyOf, terms, keys

\* The buckets of a level: for each key the documents it is the key of, none of
\* them empty but in the histogram.
LEMMA BucketsApart ==
    ASSUME NEW docs, Countable(docs), NEW level, Groups(level)
    PROVE  LET B == Buckets(docs, level)
           IN  /\ \E n \in Nat : DOMAIN B = 1..n
               /\ \A i \in DOMAIN B :
                     /\ B[i].field = level.field
                     /\ B[i].docs = {d \in docs : Keyed(d, level) /\ KeyOf(d, level) = B[i].key}
                     /\ level.field # "date" => B[i].docs # {}
               /\ \A i, j \in DOMAIN B : B[i].key = B[j].key => i = j
               /\ level.field = "date" \/ Cardinality(Terms(docs, level)) <= TermsSize =>
                     \A d \in docs : Keyed(d, level) =>
                         \E i \in DOMAIN B : B[i].key = KeyOf(d, level)
               /\ (\E d \in docs : Keyed(d, level)) => DOMAIN B # {}
<1> DEFINE B == Buckets(docs, level)
           keys == KeysOf(docs, level)
<1>1. CASE docs = {}
  <2>1. B = <<>>
    BY <1>1 DEF Buckets
  <2>2. DOMAIN B = 1..0
    BY <2>1
  <2>3. QED
    BY <1>1, <2>2
<1>2. CASE docs # {}
  <2>1. B = [i \in DOMAIN keys |->
                [field |-> level.field, key |-> keys[i], docs |-> DocsIn(docs, level, keys[i])]]
    BY <1>2 DEF Buckets
  <2>2. ApartAndAll(keys, docs, level)
    BY <1>2, DateKeys, TermKeys
  <2>3. ASSUME NEW key
        PROVE  DocsIn(docs, level, key) = {d \in docs : Keyed(d, level) /\ KeyOf(d, level) = key}
    BY DEF DocsIn, Keyed, KeyOf, Has, Groups
  <2> HIDE DEF keys, B
  <2>4. /\ DOMAIN B = DOMAIN keys
        /\ \A i \in DOMAIN B : /\ B[i].field = level.field /\ B[i].key = keys[i]
                               /\ B[i].docs = DocsIn(docs, level, keys[i])
    BY <2>1
  <2>5. \E n \in Nat : DOMAIN B = 1..n
    BY <2>2, <2>4 DEF ApartAndAll
  <2>6. \A i \in DOMAIN B :
           B[i].docs = {d \in docs : Keyed(d, level) /\ KeyOf(d, level) = B[i].key}
    BY <2>3, <2>4
  <2>7. /\ \A i, j \in DOMAIN B : B[i].key = B[j].key => i = j
        /\ level.field = "date" \/ Cardinality(Terms(docs, level)) <= TermsSize =>
              \A d \in docs : Keyed(d, level) =>
                  \E i \in DOMAIN B : B[i].key = KeyOf(d, level)
        /\ (\E d \in docs : Keyed(d, level)) => DOMAIN B # {}
    BY <2>2, <2>4 DEF ApartAndAll
  <2>8. level.field # "date" => \A i \in DOMAIN B : B[i].docs # {}
    <3> SUFFICES ASSUME level.field # "date", NEW i \in DOMAIN B PROVE B[i].docs # {}
      OBVIOUS
    <3>1. PICK d \in docs : Keyed(d, level) /\ KeyOf(d, level) = keys[i]
      BY <2>2, <2>4 DEF ApartAndAll
    <3>2. QED
      BY <2>4, <2>6, <3>1
  <2>9. QED
    BY <2>4, <2>5, <2>6, <2>7, <2>8 DEF B
<1>3. QED
  BY <1>1, <1>2

------------------------------------------------------------------------------
(* Rows about documents.                                                   *)

\* The value a field of a row is about.
IsOf(d, f, v, w) ==
    IF f = "date" THEN d.date - (d.date % w) = v ELSE Has(d, <<f, v>>)

\* A document is in a row if it has the value of each field of the row.
LEMMA RowIsOf ==
    ASSUME NEW d, NEW row, NEW w
    PROVE  InRow(d, row, w) <=> \A f \in DOMAIN row \ {"count"} : IsOf(d, f, row[f], w)
BY DEF InRow, IsOf

\* A field has one value.
LEMMA OneValue ==
    ASSUME NEW d, NEW f, f # "prefix", NEW u, NEW v, NEW w, IsOf(d, f, u, w), IsOf(d, f, v, w)
    PROVE  u = v
BY DEF IsOf, Has

\* The key of a bucket is the value its documents have.
LEMMA KeyedIsOf ==
    ASSUME NEW level, Groups(level), NEW w, level.field = "date" => w = level.width,
           NEW d, NEW v
    PROVE  IsOf(d, level.field, v, w) <=> Keyed(d, level) /\ KeyOf(d, level) = v
BY DEF IsOf, Has, Groups, Keyed, KeyOf

\* Rows that count the documents they are about, each document in one of them.
Counting(rows, docs, w) ==
    /\ \E n \in Nat : rows = [i \in 1..n |-> rows[i]]
    /\ \A i \in DOMAIN rows : rows[i]["count"] = Total({d \in docs : InRow(d, rows[i], w)})
    /\ \A d \in docs : \A i, j \in DOMAIN rows :
          InRow(d, rows[i], w) /\ InRow(d, rows[j], w) => i = j

\* A bucket and the rows of its inner buckets, all with the fields F.
Inner(inner, b, F, w) ==
    /\ b.field \notin {"count", "prefix"} /\ "count" \notin F
    /\ \A d \in b.docs : IsOf(d, b.field, b.key, w)
    /\ Counting(inner, b.docs, w)
    /\ \A i \in DOMAIN inner :
          /\ DOMAIN inner[i] = F \cup {"count"}
          /\ b.field \in F => \E d \in b.docs : InRow(d, inner[i], w)

\* The rows they are parsed to.
Outer(rows, inner, b, F, w) ==
    /\ Counting(rows, b.docs, w)
    /\ rows # <<>>
    /\ \A i \in DOMAIN rows :
          /\ DOMAIN rows[i] = IF inner = <<>> THEN {b.field, "count"}
                              ELSE F \cup {b.field, "count"}
          /\ rows[i][b.field] = b.key
    /\ inner = <<>> => \A i \in DOMAIN rows : \A d \in b.docs : InRow(d, rows[i], w)
    /\ inner # <<>> =>
          /\ DOMAIN rows = DOMAIN inner
          /\ \A i \in DOMAIN rows : \A d \in b.docs :
                InRow(d, rows[i], w) <=> InRow(d, inner[i], w)

\* What parse_aggregation makes of a bucket alone.
Item(bucket) ==
    [f \in {bucket.field, "count"} |->
        IF f = "count" THEN Total(bucket.docs) ELSE bucket.key]

\* The fields of a bucket alone.
LEMMA ItemFields ==
    ASSUME NEW b, b.field # "count"
    PROVE  /\ DOMAIN Item(b) = {b.field, "count"}
           /\ Item(b)[b.field] = b.key
           /\ Item(b)["count"] = Total(b.docs)
BY DEF Item

\* A bucket without inner rows is one row, ...
LEMMA BucketAlone ==
    ASSUME NEW b, NEW F, NEW w, Inner(<<>>, b, F, w)
    PROVE  Outer(ParseBucket(b, <<>>), <<>>, b, F, w)
<1> DEFINE rows == ParseBucket(b, <<>>)
           item == Item(b)
<1>1. b.field # "count" /\ \A d \in b.docs : IsOf(d, b.field, b.key, w)
  BY DEF Inner
<1>2. /\ DOMAIN item = {b.field, "count"}
      /\ item[b.field] = b.key /\ item["count"] = Total(b.docs)
  BY <1>1, ItemFields
<1>3. rows = <<item>>
  BY DEF ParseBucket, Item
<1> HIDE DEF rows, item
<1>4. /\ DOMAIN rows = 1..1 /\ rows = [i \in 1..1 |-> rows[i]] /\ rows # <<>>
      /\ \A i \in DOMAIN rows : i = 1 /\ rows[i] = item
  BY <1>3
<1>5. \A d \in b.docs : InRow(d, item, w)
  BY <1>1, <1>2, RowIsOf
<1>6. {d \in b.docs : InRow(d, item, w)} = b.docs
  BY <1>5
<1>7. Counting(rows, b.docs, w)
  BY <1>2, <1>4, <1>6 DEF Counting
<1>8. QED
  BY <1>2, <1>4, <1>5, <1>7 DEF Outer, rows

\* ... and with inner rows as many as they are, about the same documents.
LEMMA BucketMerged ==
    ASSUME NEW b, NEW F, NEW w, NEW inner, Inner(inner, b, F, w), inner # <<>>
    PROVE  Outer(ParseBucket(b, inner), inner, b, F, w)
<1> DEFINE rows == ParseBucket(b, inner)
           item == Item(b)
           g == b.field
<1>1. /\ g \notin {"count", "prefix"} /\ "count" \notin F
      /\ \A d \in b.docs : IsOf(d, g, b.key, w)
      /\ \A i \in DOMAIN inner :
            /\ DOMAIN inner[i] = F \cup {"count"}
            /\ g \in F => \E d \in b.docs : InRow(d, inner[i], w)
  BY DEF Inner
<1>2. DOMAIN item = {g, "count"} /\ item[g] = b.key
  BY <1>1, ItemFields
<1>3. rows = Merged(item, inner)
  BY DEF ParseBucket, Item
<1>4. PICK n \in Nat : inner = [i \in 1..n |-> inner[i]]
  BY DEF Inner, Counting
<1>5. Len(inner) = n /\ DOMAIN inner = 1..n
  BY <1>4
<1> HIDE DEF rows, item, g
<1>6. IsMerged(rows, item, g, F, inner)
  BY <1>1, <1>2, <1>3, <1>5, MergedRows DEF Mergeable
<1>7. /\ rows = [i \in 1..n |-> rows[i]] /\ DOMAIN rows = 1..n
      /\ \A i \in 1..n : /\ DOMAIN rows[i] = F \cup {g, "count"}
                         /\ g \notin F => rows[i][g] = b.key
                         /\ \A f \in F \cup {"count"} : rows[i][f] = inner[i][f]
  BY <1>2, <1>5, <1>6 DEF IsMerged
<1>8. ASSUME NEW i \in 1..n PROVE rows[i][g] = b.key
  <2>1. CASE g \in F
    <3>1. PICK d \in b.docs : InRow(d, inner[i], w)
      BY <1>1, <1>5, <2>1
    <3>2. IsOf(d, g, inner[i][g], w)
      BY <1>1, <1>5, <2>1, <3>1, RowIsOf
    <3>3. inner[i][g] = b.key
      BY <1>1, <3>2, OneValue
    <3>4. QED
      BY <1>7, <2>1, <3>3
  <2>2. CASE g \notin F
    BY <1>7, <2>2
  <2>3. QED
    BY <2>1, <2>2
<1>9. ASSUME NEW i \in 1..n, NEW d \in b.docs
      PROVE  InRow(d, rows[i], w) <=> InRow(d, inner[i], w)
  <2>1. DOMAIN inner[i] = F \cup {"count"}
    BY <1>1, <1>5
  <2>2. InRow(d, inner[i], w) <=> \A f \in F : IsOf(d, f, inner[i][f], w)
    BY <1>1, <2>1, RowIsOf
  <2>3. InRow(d, rows[i], w) <=> \A f \in F \cup {g} : IsOf(d, f, rows[i][f], w)
    BY <1>1, <1>7, RowIsOf
  <2>4. IsOf(d, g, rows[i][g], w)
    BY <1>1, <1>8
  <2>5. QED
    BY <1>7, <2>2, <2>3, <2>4
<1>10. Counting(rows, b.docs, w)
  <2>1. ASSUME NEW i \in 1..n
        PROVE  rows[i]["count"] = Total({d \in b.docs : InRow(d, rows[i], w)})
    <3>1. {d \in b.docs : InRow(d, rows[i], w)} = {d \in b.docs : InRow(d, inner[i], w)}
      BY <1>9
    <3>2. inner[i]["count"] = Total({d \in b.docs : InRow(d, inner[i], w)})
      BY <1>5 DEF Inner, Counting
    <3>3. QED
      BY <1>7, <3>1, <3>2
  <2>2. ASSUME NEW d \in b.docs, NEW i \in 1..n, NEW j \in 1..n,
               InRow(d, rows[i], w), InRow(d, rows[j], w)
        PROVE  i = j
    BY <1>5, <1>9, <2>2 DEF Inner, Counting
  <2>3. QED
    BY <1>7, <2>1, <2>2 DEF Counting
<1>11. rows # <<>>
  <2>1. n # 0
    BY <1>4
  <2>2. 1 \in DOMAIN rows
    BY <1>7, <2>1
  <2>3. QED
    BY <2>2
<1>12. QED
  BY <1>5, <1>7, <1>8, <1>9, <1>10, <1>11 DEF Outer, rows, g

\* Rows of each bucket that are about its documents only.
Parts(P, docs, level, w) ==
    LET B == Buckets(docs, level)
    IN  /\ P = [k \in DOMAIN B |-> P[k]]
        /\ \A k \in DOMAIN B :
              /\ Counting(P[k], B[k].docs, w)
              /\ \A j \in DOMAIN P[k] : \A d \in docs :
                    InRow(d, P[k][j], w) => d \in B[k].docs

\* The rows of all buckets together.
Whole(R, P) ==
    /\ \A i \in DOMAIN R : \E k \in DOMAIN P : \E j \in DOMAIN P[k] : R[i] = P[k][j]
    /\ \A k \in DOMAIN P : \A j \in DOMAIN P[k] : \E i \in DOMAIN R : R[i] = P[k][j]

\* Rows of buckets that are apart count their documents together.
LEMMA Joined ==
    ASSUME NEW docs, Countable(docs), NEW level, Groups(level), NEW w,
           NEW P, Parts(P, docs, level, w)
    PROVE  Counting(FlattenSeq(P), docs, w) /\ Whole(FlattenSeq(P), P)
<1> DEFINE B == Buckets(docs, level)
           R == FlattenSeq(P)
           X == UNION {{P[i][j] : j \in DOMAIN P[i]} : i \in DOMAIN P}
<1>1. PICK n \in Nat : DOMAIN B = 1..n
  BY BucketsApart
<1>2. /\ \A k \in DOMAIN B :
            B[k].docs = {d \in docs : Keyed(d, level) /\ KeyOf(d, level) = B[k].key}
      /\ \A k, l \in DOMAIN B : B[k].key = B[l].key => k = l
  BY BucketsApart
<1> HIDE DEF B
<1>3. /\ P = [k \in 1..n |-> P[k]]
      /\ \A k \in 1..n : /\ Counting(P[k], B[k].docs, w)
                         /\ \A j \in DOMAIN P[k] : \A d \in docs :
                               InRow(d, P[k][j], w) => d \in B[k].docs
  BY <1>1 DEF Parts, B
<1>4. ASSUME NEW k \in 1..n
      PROVE  P[k] \in Seq(X) /\ Len(P[k]) \in Nat /\ DOMAIN P[k] = 1..Len(P[k])
  <2> DEFINE p == P[k]
  <2>1. PICK m \in Nat : p = [j \in 1..m |-> p[j]]
    BY <1>3 DEF Counting
  <2>2. k \in DOMAIN P
    BY <1>3
  <2>3. \A j \in DOMAIN p : p[j] \in X
    BY <2>2
  <2> HIDE DEF p, X
  <2>4. p \in [1..m -> X]
    BY <2>1, <2>3
  <2>5. p \in Seq(X)
    BY <2>4, SeqDef
  <2>6. QED
    BY <2>5, LenProperties DEF p
<1> HIDE DEF R, X
<1>5. P \in Seq(Seq(X)) /\ Len(P) = n /\ DOMAIN P = 1..n
  <2>1. P \in [1..n -> Seq(X)]
    BY <1>3, <1>4
  <2>2. QED
    BY <2>1, SeqDef
<1>6. R \in Seq(X) /\ \E of, at : Places(R, P, n, of, at)
  BY <1>5, FlattenPlaces DEF R
<1>7. PICK of, at : Places(R, P, n, of, at)
  BY <1>6
<1>8. Len(R) \in Nat /\ DOMAIN R = 1..Len(R) /\ R = [i \in 1..Len(R) |-> R[i]]
  BY <1>6, LenProperties
<1>9. ASSUME NEW i \in 1..Len(R)
      PROVE  of[i] \in 1..n /\ at[i] \in DOMAIN P[of[i]] /\ R[i] = P[of[i]][at[i]]
  <2>1. of[i] \in 1..n /\ at[i] \in 1..Len(P[of[i]]) /\ R[i] = P[of[i]][at[i]]
    BY <1>7 DEF Places
  <2>2. QED
    BY <1>4, <2>1
<1>10. ASSUME NEW i \in 1..Len(R)
       PROVE  R[i]["count"] = Total({d \in docs : InRow(d, R[i], w)})
  <2> DEFINE D == B[of[i]].docs
             p == P[of[i]]
  <2>1. of[i] \in 1..n /\ at[i] \in DOMAIN p /\ R[i] = p[at[i]]
    BY <1>9
  <2>2. D \subseteq docs
    BY <1>1, <1>2, <2>1
  <2>3. Counting(p, D, w) /\ \A d \in docs : InRow(d, R[i], w) => d \in D
    BY <1>3, <2>1
  <2>4. {d \in docs : InRow(d, R[i], w)} = {d \in D : InRow(d, R[i], w)}
    BY <2>2, <2>3
  <2> HIDE DEF p, D
  <2>5. p[at[i]]["count"] = Total({d \in D : InRow(d, p[at[i]], w)})
    BY <2>1, <2>3 DEF Counting
  <2>6. QED
    BY <2>1, <2>4, <2>5
<1>11. ASSUME NEW d \in docs, NEW i \in 1..Len(R), NEW j \in 1..Len(R),
              InRow(d, R[i], w), InRow(d, R[j], w)
       PROVE  i = j
  <2>1. d \in B[of[i]].docs /\ d \in B[of[j]].docs
    BY <1>3, <1>9, <1>11
  <2>2. of[i] \in DOMAIN B /\ of[j] \in DOMAIN B
    BY <1>1, <1>9
  <2>3. B[of[i]].key = B[of[j]].key
    BY <1>2, <2>1, <2>2
  <2>4. of[i] = of[j]
    BY <1>2, <2>2, <2>3
  <2> DEFINE p == P[of[i]]
             D == B[of[i]].docs
  <2>5. /\ Counting(p, D, w) /\ at[i] \in DOMAIN p /\ at[j] \in DOMAIN p
        /\ InRow(d, p[at[i]], w) /\ InRow(d, p[at[j]], w)
    BY <1>3, <1>9, <1>11, <2>4
  <2> HIDE DEF p, D
  <2>6. at[i] = at[j]
    BY <2>1, <2>5 DEF Counting, D
  <2>7. QED
    BY <1>7, <2>4, <2>6 DEF Places
<1>12. Counting(R, docs, w)
  BY <1>8, <1>10, <1>11 DEF Counting
<1>13. ASSUME NEW k \in DOMAIN P, NEW j \in DOMAIN P[k]
       PROVE  \E i \in DOMAIN R : R[i] = P[k][j]
  <2>1. k \in 1..n /\ j \in 1..Len(P[k])
    BY <1>4, <1>5
  <2>2. PICK i \in 1..Len(R) : of[i] = k /\ at[i] = j
    BY <1>7, <2>1 DEF Places
  <2>3. R[i] = P[k][j]
    BY <1>9, <2>2
  <2>4. QED
    BY <1>8, <2>3
<1>14. QED
  BY <1>5, <1>8, <1>9, <1>12, <1>13 DEF Whole, R

------------------------------------------------------------------------------
(* Rows of the levels of an aggregation.                                   *)

\* The levels of a count: a histogram of dates, and fields.
Leveled(levels) ==
    /\ Len(levels) \in Nat \ {0}
    /\ levels[1].field = "date" /\ levels[1].width \in Nat \ {0}
    /\ \A n \in 2..Len(levels) : levels[n].field \notin {"date", "count", "prefix"}

\* The fields of the levels from k on.
FieldsFrom(levels, k) == {levels[l].field : l \in k..Len(levels)}

\* A document with all of them.
HasAll(d, levels, k) == \A l \in k..Len(levels) : levels[l].field \in DOMAIN d.keys

\* Documents that have the inner fields if they have that of level k.
HaveSame(docs, levels, k) ==
    \A d \in docs : \A l \in (k + 1)..Len(levels) :
        levels[k].field \in DOMAIN d.keys => levels[l].field \in DOMAIN d.keys

\* No term is cut off.
FewTerms(docs, levels, k) ==
    \A l \in k..Len(levels) : Cardinality(Terms(docs, levels[l])) <= TermsSize

\* Of a part of the documents there are not more terms.
LEMMA FewerTerms ==
    ASSUME NEW docs, Countable(docs), NEW part \in SUBSET docs, NEW levels, NEW k,
           FewTerms(docs, levels, k)
    PROVE  FewTerms(part, levels, k)
<1> SUFFICES ASSUME NEW l \in k..Len(levels)
             PROVE  Cardinality(Terms(part, levels[l])) <= TermsSize
  BY DEF FewTerms
<1> DEFINE f == levels[l].field
           all == Terms(docs, levels[l])
           some == Terms(part, levels[l])
           have == {e \in docs : f \in DOMAIN e.keys}
           g == [e \in have |-> e.keys[f]]
<1>1. some \in SUBSET all
  BY DEF Terms
<1>2. g \in Surjection(have, all)
  BY DEF Surjection, Terms
<1>3. IsFiniteSet(have)
  BY FS_Subset DEF Countable
<1>4. Cardinality(all) <= TermsSize /\ TermsSize \in Nat
  BY SizesAssumption DEF FewTerms
<1> HIDE DEF all, some, have, g
<1>5. IsFiniteSet(all)
  BY <1>2, <1>3, FS_Surjection
<1>6. /\ Cardinality(some) <= Cardinality(all)
      /\ Cardinality(some) \in Nat /\ Cardinality(all) \in Nat
  BY <1>1, <1>5, FS_Subset, FS_CardinalityType
<1>7. QED
  BY <1>4, <1>6 DEF some

\* The rows of the levels from k on.
RowsOf(rows, docs, levels, k) ==
    LET w == levels[1].width
    IN  /\ Counting(rows, docs, w)
        /\ k > Len(levels) => rows = <<>>
        /\ \A i \in DOMAIN rows :
              /\ DOMAIN rows[i] = FieldsFrom(levels, k) \cup {"count"}
              /\ \E d \in docs : InRow(d, rows[i], w)
        /\ k <= Len(levels) /\ (\E d \in docs : HasAll(d, levels, k)) => rows # <<>>
        /\ k <= Len(levels) /\ FewTerms(docs, levels, k) =>
              \A d \in docs : HasAll(d, levels, k) =>
                  \E i \in DOMAIN rows : InRow(d, rows[i], w)

\* The rows around such rows.
RowsAround(docs, level, inner) ==
    [i \in DOMAIN Buckets(docs, level) |->
        ParseBucket(Buckets(docs, level)[i], inner[Buckets(docs, level)[i].docs])]

\* The rows that are around are right for each bucket.
InnerRows(docs, levels, k, inner) ==
    \A i \in DOMAIN Buckets(docs, levels[k]) :
        RowsOf(inner[Buckets(docs, levels[k])[i].docs], Buckets(docs, levels[k])[i].docs,
               levels, k + 1)

\* Each level groups, the first of them by dates.
LEMMA LevelGroups ==
    ASSUME NEW levels, Leveled(levels), NEW k \in 1..Len(levels)
    PROVE  /\ Groups(levels[k])
           /\ levels[k].field \notin {"count", "prefix"}
           /\ levels[k].field = "date" <=> k = 1
           /\ {"count", "prefix", "date"} \cap FieldsFrom(levels, k + 1) = {}
           /\ FieldsFrom(levels, k) = FieldsFrom(levels, k + 1) \cup {levels[k].field}
<1>1. Len(levels) \in Nat
  BY DEF Leveled
<1>2. /\ k..Len(levels) = {k} \cup ((k + 1)..Len(levels))
      /\ (k + 1)..Len(levels) \subseteq 2..Len(levels)
  BY <1>1
<1>3. k = 1 \/ k \in 2..Len(levels)
  BY <1>1
<1>4. /\ levels[k].field \notin {"count", "prefix"}
      /\ levels[k].field = "date" <=> k = 1
      /\ k = 1 => levels[k].width \in Nat \ {0}
  BY <1>3 DEF Leveled
<1>5. FieldsFrom(levels, k) = FieldsFrom(levels, k + 1) \cup {levels[k].field}
  BY <1>2 DEF FieldsFrom
<1>6. {"count", "prefix", "date"} \cap FieldsFrom(levels, k + 1) = {}
  BY <1>2 DEF FieldsFrom, Leveled
<1>7. QED
  BY <1>4, <1>5, <1>6 DEF Groups

\* Each bucket has its rows, and together they count the documents.
LEMMA AroundJoined ==
    ASSUME NEW docs, Countable(docs), NEW levels, Leveled(levels),
           NEW k \in 1..Len(levels), NEW inner, InnerRows(docs, levels, k, inner)
    PROVE  LET B == Buckets(docs, levels[k])
               P == RowsAround(docs, levels[k], inner)
               w == levels[1].width
           IN  /\ \A i \in DOMAIN B :
                     Outer(P[i], inner[B[i].docs], B[i], FieldsFrom(levels, k + 1), w)
               /\ Counting(FlattenSeq(P), docs, w)
               /\ Whole(FlattenSeq(P), P)
<1> DEFINE level == levels[k]
           B == Buckets(docs, level)
           P == RowsAround(docs, level, inner)
           w == levels[1].width
           F == FieldsFrom(levels, k + 1)
<1>1. /\ Groups(level) /\ level.field \notin {"count", "prefix"}
      /\ level.field = "date" => w = level.width
      /\ "count" \notin F
  BY LevelGroups
<1>2. \A i \in DOMAIN B :
         /\ B[i].field = level.field
         /\ B[i].docs = {d \in docs : Keyed(d, level) /\ KeyOf(d, level) = B[i].key}
  BY <1>1, BucketsApart
<1>3. P = [i \in DOMAIN B |-> ParseBucket(B[i], inner[B[i].docs])]
  BY DEF RowsAround
<1>4. \A i \in DOMAIN B : RowsOf(inner[B[i].docs], B[i].docs, levels, k + 1)
  BY DEF InnerRows
<1> HIDE DEF B, P, F, w, level
<1>5. ASSUME NEW i \in DOMAIN B
      PROVE  Outer(P[i], inner[B[i].docs], B[i], F, w)
  <2> DEFINE b == B[i]
             rows == inner[b.docs]
  <2>1. ASSUME NEW d \in b.docs PROVE IsOf(d, b.field, b.key, w)
    <3>1. b.field = level.field /\ Keyed(d, level) /\ KeyOf(d, level) = b.key
      BY <1>2
    <3>2. IsOf(d, level.field, b.key, w)
      <4> HIDE DEF b
      <4>1. QED
        BY <1>1, <3>1, KeyedIsOf
    <3>3. QED
      BY <3>1, <3>2
  <2>2. RowsOf(rows, b.docs, levels, k + 1) /\ b.field = level.field
    BY <1>2, <1>4
  <2> HIDE DEF b, rows
  <2>3. Inner(rows, b, F, w)
    BY <1>1, <2>1, <2>2 DEF Inner, RowsOf, F, w
  <2>4. Outer(ParseBucket(b, rows), rows, b, F, w)
    BY <2>3, BucketAlone, BucketMerged
  <2>5. QED
    BY <1>3, <2>4 DEF b, rows
<1>6. ASSUME NEW i \in DOMAIN B, NEW j \in DOMAIN P[i], NEW d \in docs, InRow(d, P[i][j], w)
      PROVE  d \in B[i].docs
  <2> DEFINE row == P[i][j]
  <2>1. level.field \in DOMAIN row \ {"count"} /\ row[level.field] = B[i].key
    BY <1>1, <1>2, <1>5 DEF Outer
  <2> HIDE DEF row
  <2>2. IsOf(d, level.field, row[level.field], w)
    BY <1>6, <2>1, RowIsOf DEF row
  <2>3. Keyed(d, level) /\ KeyOf(d, level) = B[i].key
    BY <1>1, <2>1, <2>2, KeyedIsOf
  <2>4. QED
    BY <1>2, <2>3
<1>7. Parts(P, docs, level, w)
  <2>1. P = [i \in DOMAIN B |-> P[i]]
    BY <1>3
  <2>2. \A i \in DOMAIN B : Counting(P[i], B[i].docs, w)
    BY <1>5 DEF Outer
  <2>3. QED
    BY <1>6, <2>1, <2>2 DEF Parts, B
<1>8. Counting(FlattenSeq(P), docs, w) /\ Whole(FlattenSeq(P), P)
  BY <1>1, <1>7, Joined
<1>9. QED
  BY <1>5, <1>8 DEF B, P, F, w, level

\* From the rows of the inner levels to those of a level of a field.
LEMMA FieldRows ==
    ASSUME NEW docs, Countable(docs), NEW levels, Leveled(levels),
           NEW k \in 2..Len(levels), NEW inner, InnerRows(docs, levels, k, inner),
           HaveSame(docs, levels, k)
    PROVE  RowsOf(FlattenSeq(RowsAround(docs, levels[k], inner)), docs, levels, k)
<1> DEFINE level == levels[k]
           f == level.field
           B == Buckets(docs, level)
           P == RowsAround(docs, level, inner)
           R == FlattenSeq(P)
           w == levels[1].width
           F == FieldsFrom(levels, k + 1)
           L == Len(levels)
<1>1. L \in Nat /\ k \in 1..L /\ k # 1
  BY DEF Leveled
<1>2. /\ Groups(level) /\ f \notin {"count", "prefix", "date"}
      /\ FieldsFrom(levels, k) = F \cup {f}
  BY <1>1, LevelGroups
<1>3. /\ \A i \in DOMAIN B :
            /\ B[i].field = f
            /\ B[i].docs = {d \in docs : Keyed(d, level) /\ KeyOf(d, level) = B[i].key}
            /\ B[i].docs # {}
      /\ Cardinality(Terms(docs, level)) <= TermsSize =>
            \A d \in docs : Keyed(d, level) => \E i \in DOMAIN B : B[i].key = KeyOf(d, level)
      /\ (\E d \in docs : Keyed(d, level)) => DOMAIN B # {}
  BY <1>2, BucketsApart
<1>4. \A d : Keyed(d, level) <=> f \in DOMAIN d.keys
  BY <1>2 DEF Keyed
<1>5. /\ \A i \in DOMAIN B : Outer(P[i], inner[B[i].docs], B[i], F, w)
      /\ Counting(R, docs, w) /\ Whole(R, P)
  BY <1>1, AroundJoined
<1>6. \A i \in DOMAIN B : RowsOf(inner[B[i].docs], B[i].docs, levels, k + 1)
  BY DEF InnerRows
<1>7. DOMAIN P = DOMAIN B
  BY DEF RowsAround
<1>8. k + 1 > L => F = {}
  BY <1>1 DEF FieldsFrom
<1> HIDE DEF B, P, R, F, w
<1>9. ASSUME NEW i \in DOMAIN B, NEW d \in B[i].docs
      PROVE  d \in docs /\ HasAll(d, levels, k) /\ HasAll(d, levels, k + 1)
  <2>1. d \in docs /\ f \in DOMAIN d.keys
    BY <1>3, <1>4
  <2>2. \A l \in (k + 1)..L : levels[l].field \in DOMAIN d.keys
    BY <2>1 DEF HaveSame
  <2>3. \A l \in k..L : l = k \/ l \in (k + 1)..L
    BY <1>1
  <2>4. QED
    BY <2>1, <2>2, <2>3 DEF HasAll
<1>10. ASSUME NEW i \in DOMAIN B
       PROVE  inner[B[i].docs] = <<>> <=> k + 1 > L
  <2> DEFINE rows == inner[B[i].docs]
             D == B[i].docs
  <2>1. PICK d \in D : HasAll(d, levels, k + 1)
    BY <1>3, <1>9
  <2>2. RowsOf(rows, D, levels, k + 1)
    BY <1>6
  <2> HIDE DEF rows, D
  <2>3. (k + 1 > L => rows = <<>>) /\ (k + 1 <= L => rows # <<>>)
    BY <2>1, <2>2 DEF RowsOf
  <2>4. QED
    BY <1>1, <2>3 DEF rows, D
<1>11. ASSUME NEW i \in DOMAIN B, NEW j \in DOMAIN P[i]
       PROVE  /\ DOMAIN P[i][j] = F \cup {f, "count"}
              /\ \E d \in docs : InRow(d, P[i][j], w)
  <2> DEFINE rows == inner[B[i].docs]
             D == B[i].docs
             p == P[i]
  <2>1. Outer(p, rows, B[i], F, w) /\ B[i].field = f /\ D # {} /\ D \subseteq docs
    BY <1>3, <1>5
  <2>2. RowsOf(rows, D, levels, k + 1)
    BY <1>6
  <2>3. rows = <<>> => F = {}
    BY <1>8, <1>10
  <2>4. DOMAIN p[j] = F \cup {f, "count"}
    <3> HIDE DEF p, rows, D
    <3>1. j \in DOMAIN p
      BY DEF p
    <3>2. QED
      BY <2>1, <2>3, <3>1 DEF Outer
  <2>5. \E d \in D : InRow(d, p[j], w)
    <3>1. CASE rows = <<>>
      BY <2>1, <3>1 DEF Outer
    <3>2. CASE rows # <<>>
      <4>1. j \in DOMAIN rows /\ \A d \in D : InRow(d, p[j], w) <=> InRow(d, rows[j], w)
        BY <2>1, <3>2 DEF Outer
      <4>2. \E d \in D : InRow(d, rows[j], w)
        <5> HIDE DEF rows, D
        <5>1. QED
          BY <2>2, <4>1 DEF RowsOf, w
      <4>3. QED
        BY <4>1, <4>2
    <3>3. QED
      BY <3>1, <3>2
  <2>6. QED
    BY <2>1, <2>4, <2>5
<1>12. ASSUME NEW i \in DOMAIN R
       PROVE  /\ DOMAIN R[i] = FieldsFrom(levels, k) \cup {"count"}
              /\ \E d \in docs : InRow(d, R[i], w)
  <2>1. PICK a \in DOMAIN B : \E b \in DOMAIN P[a] : R[i] = P[a][b]
    BY <1>5, <1>7 DEF Whole
  <2>2. PICK b \in DOMAIN P[a] : R[i] = P[a][b]
    BY <2>1
  <2>3. QED
    BY <1>2, <1>11, <2>2
<1>13. ASSUME NEW d \in docs, HasAll(d, levels, k) PROVE R # <<>>
  <2>1. Keyed(d, level)
    BY <1>1, <1>4, <1>13 DEF HasAll
  <2>2. PICK i \in DOMAIN B : TRUE
    BY <1>3, <2>1
  <2>3. P[i] # <<>> /\ \E n \in Nat : P[i] = [m \in 1..n |-> P[i][m]]
    BY <1>5 DEF Outer, Counting
  <2>4. PICK j \in DOMAIN P[i] : TRUE
    <3> DEFINE p == P[i]
    <3>1. PICK n \in Nat : p = [m \in 1..n |-> p[m]]
      BY <2>3
    <3> HIDE DEF p
    <3>2. n # 0
      BY <2>3, <3>1 DEF p
    <3>3. 1 \in DOMAIN p
      BY <3>1, <3>2
    <3>4. QED
      BY <3>3 DEF p
  <2>5. DOMAIN R # {}
    BY <1>5, <1>7, <2>2, <2>4 DEF Whole
  <2>6. QED
    BY <2>5
<1>14. ASSUME FewTerms(docs, levels, k), NEW d \in docs, HasAll(d, levels, k)
       PROVE  \E i \in DOMAIN R : InRow(d, R[i], w)
  <2>1. Keyed(d, level) /\ Cardinality(Terms(docs, level)) <= TermsSize
    BY <1>1, <1>4, <1>14 DEF HasAll, FewTerms
  <2>2. PICK a \in DOMAIN B : B[a].key = KeyOf(d, level)
    BY <1>3, <2>1
  <2>3. d \in B[a].docs /\ B[a].docs \in SUBSET docs
    BY <1>3, <2>1, <2>2
  <2> DEFINE D == B[a].docs
             rows == inner[D]
             p == P[a]
  <2>4. Outer(p, rows, B[a], F, w) /\ RowsOf(rows, D, levels, k + 1)
    BY <1>5, <1>6
  <2>5. HasAll(d, levels, k + 1)
    BY <1>9, <2>3
  <2>6. FewTerms(D, levels, k + 1)
    <3>1. FewTerms(docs, levels, k + 1)
      <4>1. (k + 1)..L \subseteq k..L
        BY <1>1
      <4>2. QED
        BY <1>14, <4>1 DEF FewTerms
    <3>2. QED
      BY <2>3, <3>1, FewerTerms
  <2> HIDE DEF D, p, rows
  <2>7. \E j \in DOMAIN p : InRow(d, p[j], w)
    <3>1. CASE rows = <<>>
      <4>1. p # <<>> /\ \E n \in Nat : p = [m \in 1..n |-> p[m]]
        BY <2>4 DEF Outer, Counting
      <4>2. PICK n \in Nat : p = [m \in 1..n |-> p[m]]
        BY <4>1
      <4>3. n # 0
        BY <4>1, <4>2
      <4>4. 1 \in DOMAIN p
        BY <4>2, <4>3
      <4>5. InRow(d, p[1], w)
        BY <2>3, <2>4, <3>1, <4>4 DEF Outer, D
      <4>6. QED
        BY <4>4, <4>5
    <3>2. CASE rows # <<>>
      <4>1. k + 1 <= L
        BY <1>1, <1>10, <3>2 DEF rows, D
      <4>2. PICK j \in DOMAIN rows : InRow(d, rows[j], w)
        BY <2>3, <2>4, <2>5, <2>6, <4>1 DEF RowsOf, D, w
      <4>3. j \in DOMAIN p /\ InRow(d, p[j], w)
        BY <2>3, <2>4, <3>2, <4>2 DEF Outer, D
      <4>4. QED
        BY <4>3
    <3>3. QED
      BY <3>1, <3>2
  <2>8. PICK j \in DOMAIN p : InRow(d, p[j], w)
    BY <2>7
  <2>9. \E i \in DOMAIN R : R[i] = p[j]
    BY <1>5, <1>7, <2>8 DEF Whole, p
  <2>10. QED
    BY <2>8, <2>9
<1>15. RowsOf(R, docs, levels, k)
  <2>1. ~(k > Len(levels))
    BY <1>1
  <2>2. Counting(R, docs, w)
    BY <1>5
  <2>3. QED
    BY <2>1, <2>2, <1>12, <1>13, <1>14 DEF RowsOf, w
<1>16. QED
  BY <1>15 DEF R, P

------------------------------------------------------------------------------
(* Rows of an aggregation.                                                 *)

\* What CountsAreExact and EachCountedOnce say of the rows for some documents.
Right(rows, docs, levels) ==
    LET width == levels[1].width
    IN  /\ Counting(rows, docs, width)
        /\ FewTerms(docs, levels, 2) =>
              \A d \in docs : HasAll(d, levels, 2) =>
                  \E i \in DOMAIN rows : InRow(d, rows[i], width)

\* The histogram around rows of fields is right.
LEMMA HistogramRight ==
    ASSUME NEW docs, Countable(docs), NEW levels, Leveled(levels),
           NEW inner, InnerRows(docs, levels, 1, inner)
    PROVE  Right(FlattenSeq(RowsAround(docs, levels[1], inner)), docs, levels)
<1> DEFINE level == levels[1]
           B == Buckets(docs, level)
           P == RowsAround(docs, level, inner)
           R == FlattenSeq(P)
           w == level.width
           F == FieldsFrom(levels, 2)
           L == Len(levels)
<1>1. L \in Nat /\ 1 \in 1..L
  BY DEF Leveled
<1>2. Groups(level) /\ level.field = "date"
  BY <1>1, LevelGroups
<1>3. /\ \A i \in DOMAIN B :
            B[i].docs = {d \in docs : Keyed(d, level) /\ KeyOf(d, level) = B[i].key}
      /\ \A d \in docs : Keyed(d, level) => \E i \in DOMAIN B : B[i].key = KeyOf(d, level)
  BY <1>2, BucketsApart
<1>4. /\ \A i \in DOMAIN B : Outer(P[i], inner[B[i].docs], B[i], F, w)
      /\ Counting(R, docs, w) /\ Whole(R, P)
  <2>1. InnerRows(docs, levels, 1, inner) /\ 1 + 1 = 2
    OBVIOUS
  <2>2. QED
    BY <1>1, <2>1, AroundJoined
<1>5. \A i \in DOMAIN B : RowsOf(inner[B[i].docs], B[i].docs, levels, 2)
  <2>1. 1 + 1 = 2
    OBVIOUS
  <2>2. QED
    BY <2>1 DEF InnerRows
<1>6. DOMAIN P = DOMAIN B
  BY DEF RowsAround
<1> HIDE DEF B, P, R, F, w
<1>7. ASSUME FewTerms(docs, levels, 2), NEW d \in docs, HasAll(d, levels, 2)
      PROVE  \E i \in DOMAIN R : InRow(d, R[i], w)
  <2>1. Keyed(d, level)
    BY <1>2 DEF Keyed
  <2>2. PICK a \in DOMAIN B : B[a].key = KeyOf(d, level)
    BY <1>3, <2>1
  <2>3. d \in B[a].docs /\ B[a].docs \in SUBSET docs
    BY <1>3, <2>1, <2>2
  <2> DEFINE D == B[a].docs
             rows == inner[D]
             p == P[a]
  <2>4. Outer(p, rows, B[a], F, w) /\ RowsOf(rows, D, levels, 2)
    BY <1>4, <1>5
  <2>5. FewTerms(D, levels, 2)
    BY <1>7, <2>3, FewerTerms
  <2> HIDE DEF D, p, rows
  <2>6. PICK j \in DOMAIN p : InRow(d, p[j], w)
    <3>1. CASE rows = <<>>
      <4>1. p # <<>> /\ \E n \in Nat : p = [m \in 1..n |-> p[m]]
        BY <2>4 DEF Outer, Counting
      <4>2. PICK n \in Nat : p = [m \in 1..n |-> p[m]]
        BY <4>1
      <4>3. n # 0
        BY <4>1, <4>2
      <4>4. 1 \in DOMAIN p
        BY <4>2, <4>3
      <4>5. InRow(d, p[1], w)
        BY <2>3, <2>4, <3>1, <4>4 DEF Outer, D
      <4>6. QED
        BY <4>4, <4>5
    <3>2. CASE rows # <<>>
      <4>1. 2 <= L
        BY <1>1, <2>4, <3>2 DEF RowsOf
      <4>2. PICK j \in DOMAIN rows : InRow(d, rows[j], w)
        BY <1>7, <2>3, <2>4, <2>5, <4>1 DEF RowsOf, D, w
      <4>3. j \in DOMAIN p /\ InRow(d, p[j], w)
        BY <2>3, <2>4, <3>2, <4>2 DEF Outer, D
      <4>4. QED
        BY <4>3
    <3>3. QED
      BY <3>1, <3>2
  <2>7. \E i \in DOMAIN R : R[i] = p[j]
    BY <1>4, <1>6, <2>6 DEF Whole, p
  <2>8. QED
    BY <2>6, <2>7
<1>8. QED
  BY <1>4, <1>7 DEF Right, R, P, w

\* A solution of the recursion of Parse: the rows of the n innermost levels.
RowsUpTo(g, n, docs, levels) ==
    g = [m \in 0..n |->
            [within \in SUBSET docs |->
                IF m = 0 THEN <<>>
                ELSE FlattenSeq(RowsAround(within, levels[Len(levels) - m + 1], g[m - 1]))]]

\* The rows that Parse chooses are the rows of each number of levels.
LEMMA ParseEquation ==
    ASSUME NEW docs, NEW levels, Len(levels) \in Nat
    PROVE  \E rows : /\ RowsUpTo(rows, Len(levels), docs, levels)
                     /\ Parse(docs, levels) = rows[Len(levels)][docs]
<1> DEFINE L == Len(levels)
           Solves(g) ==
               g = [n \in 0..L |->
                       [within \in SUBSET docs |->
                           LET buckets == Buckets(within, levels[L - n + 1])
                           IN  IF n = 0 THEN <<>>
                               ELSE FlattenSeq([i \in DOMAIN buckets |->
                                       ParseBucket(buckets[i], g[n - 1][buckets[i].docs])])]]
           rows == CHOOSE g : Solves(g)
           T == {n \in Nat : \E g : RowsUpTo(g, n, docs, levels)}
<1>1. Parse(docs, levels) = rows[L][docs]
  BY DEF Parse
<1>2. \A g : Solves(g) <=> RowsUpTo(g, L, docs, levels)
  BY DEF RowsUpTo, RowsAround
<1> HIDE DEF Solves
<1>3. 0 \in T
  <2>1. RowsUpTo([m \in 0..0 |-> [within \in SUBSET docs |-> <<>>]], 0, docs, levels)
    BY DEF RowsUpTo
  <2>2. QED
    BY <2>1
<1>4. ASSUME NEW n \in Nat, n \in T PROVE n + 1 \in T
  <2>1. PICK g : RowsUpTo(g, n, docs, levels)
    BY <1>4
  <2> DEFINE Row(m, h) ==
                 [within \in SUBSET docs |->
                     IF m = 0 THEN <<>>
                     ELSE FlattenSeq(RowsAround(within, levels[L - m + 1], h[m - 1]))]
             h == [m \in 0..(n + 1) |-> IF m = n + 1 THEN Row(n + 1, g) ELSE g[m]]
  <2>2. \A m \in 0..n : g[m] = Row(m, g)
    BY <2>1 DEF RowsUpTo
  <2>3. \A m \in Nat : \A u, v : m # 0 /\ u[m - 1] = v[m - 1] => Row(m, u) = Row(m, v)
    OBVIOUS
  <2>4. \A u, v : Row(0, u) = Row(0, v)
    OBVIOUS
  <2> HIDE DEF Row
  <2>5. ASSUME NEW m \in 0..(n + 1) PROVE h[m] = Row(m, h)
    <3>1. CASE m = n + 1
      <4>1. m # 0 /\ m - 1 \in 0..n /\ h[m - 1] = g[m - 1] /\ h[m] = Row(m, g)
        BY <3>1
      <4>2. QED
        BY <2>3, <4>1
    <3>2. CASE m # n + 1
      <4>1. m \in 0..n /\ h[m] = g[m]
        BY <3>2
      <4>2. m # 0 => h[m - 1] = g[m - 1]
        BY <4>1
      <4> HIDE DEF h
      <4>3. Row(m, h) = Row(m, g)
        BY <2>3, <2>4, <4>1, <4>2
      <4>4. QED
        BY <2>2, <4>1, <4>3
    <3>3. QED
      BY <3>1, <3>2
  <2>6. h = [m \in 0..(n + 1) |-> h[m]]
    OBVIOUS
  <2> HIDE DEF h
  <2>7. RowsUpTo(h, n + 1, docs, levels)
    BY <2>5, <2>6 DEF RowsUpTo, Row
  <2>8. QED
    BY <2>7
<1>5. L \in T
  <2> HIDE DEF T
  <2>1. QED
    BY <1>3, <1>4, Inductive
<1>6. \E g : Solves(g)
  BY <1>2, <1>5
<1>7. Solves(rows)
  BY <1>6
<1> HIDE DEF rows
<1>8. QED
  BY <1>1, <1>2, <1>7

\* Grouped by dates and any fields.
LEMMA ParseRight ==
    ASSUME NEW docs, Countable(docs), NEW levels, Leveled(levels), HaveSame(docs, levels, 2)
    PROVE  Right(Parse(docs, levels), docs, levels)
<1> DEFINE L == Len(levels)
<1>1. L \in Nat \ {0}
  BY DEF Leveled
<1>2. PICK rows : /\ RowsUpTo(rows, L, docs, levels)
                  /\ Parse(docs, levels) = rows[L][docs]
  BY <1>1, ParseEquation
<1>3. /\ \A within \in SUBSET docs : rows[0][within] = <<>>
      /\ \A n \in 1..L : \A within \in SUBSET docs :
            rows[n][within] = FlattenSeq(RowsAround(within, levels[L - n + 1], rows[n - 1]))
  <2> DEFINE Row(m) ==
                 [within \in SUBSET docs |->
                     IF m = 0 THEN <<>>
                     ELSE FlattenSeq(RowsAround(within, levels[L - m + 1], rows[m - 1]))]
  <2>1. \A m \in 0..L : rows[m] = Row(m)
    BY <1>2 DEF RowsUpTo
  <2>2. \A within \in SUBSET docs :
           /\ Row(0)[within] = <<>>
           /\ \A m \in Nat : m # 0 =>
                 Row(m)[within] = FlattenSeq(RowsAround(within, levels[L - m + 1], rows[m - 1]))
    OBVIOUS
  <2> HIDE DEF Row
  <2>3. 0 \in 0..L /\ \A n \in 1..L : n \in 0..L /\ n \in Nat /\ n # 0
    BY <1>1
  <2>4. QED
    BY <2>1, <2>2, <2>3
<1> DEFINE Good(n) ==
               \A within \in SUBSET docs : HaveSame(within, levels, L - n + 1) =>
                  RowsOf(rows[n][within], within, levels, L - n + 1)
           T == {n \in Nat : n < L => Good(n)}
<1>4. 0 \in T
  <2>1. ASSUME NEW within \in SUBSET docs PROVE RowsOf(<<>>, within, levels, L + 1)
    <3>1. Counting(<<>>, within, levels[1].width)
      <4>1. <<>> = [i \in 1..0 |-> <<>>[i]]
        OBVIOUS
      <4>2. QED
        BY <4>1 DEF Counting
    <3>2. ~(L + 1 <= L)
      BY <1>1
    <3>3. QED
      BY <3>1, <3>2 DEF RowsOf
  <2>2. L - 0 + 1 = L + 1
    BY <1>1
  <2>3. QED
    BY <1>3, <2>1, <2>2
<1> HIDE DEF Good
<1>5. ASSUME NEW n \in Nat, n < L, n \in T, NEW within \in SUBSET docs,
             L - n = 1 \/ HaveSame(within, levels, L - n)
      PROVE  InnerRows(within, levels, L - n, rows[n])
  <2> DEFINE k == L - n
             B == Buckets(within, levels[k])
  <2>1. k \in 1..L /\ L - n + 1 = k + 1
    BY <1>1, <1>5
  <2>2. Groups(levels[k]) /\ (levels[k].field = "date" <=> k = 1)
    BY <2>1, LevelGroups
  <2>3. \A i \in DOMAIN B :
           B[i].docs = {d \in within : Keyed(d, levels[k]) /\ KeyOf(d, levels[k]) = B[i].key}
    <3>1. Countable(within)
      BY FS_Subset DEF Countable
    <3>2. QED
      BY <2>2, <3>1, BucketsApart
  <2>4. Good(n)
    BY <1>5
  <2> HIDE DEF B, k, T
  <2>5. ASSUME NEW i \in DOMAIN B
        PROVE  RowsOf(rows[n][B[i].docs], B[i].docs, levels, k + 1)
    <3> DEFINE D == B[i].docs
    <3>1. D \in SUBSET within /\ D \in SUBSET docs
      BY <2>3
    <3>2. HaveSame(D, levels, k + 1)
      <4>1. CASE k = 1
        BY <3>1, <4>1 DEF HaveSame
      <4>2. CASE k # 1
        <5>1. HaveSame(within, levels, k)
          BY <1>5, <4>2 DEF k
        <5>2. \A d \in D : levels[k].field \in DOMAIN d.keys
          BY <2>2, <2>3, <4>2 DEF Keyed
        <5>3. \A l \in ((k + 1) + 1)..L : l \in (k + 1)..L
          BY <1>1, <2>1
        <5>4. QED
          BY <3>1, <5>1, <5>2, <5>3 DEF HaveSame
      <4>3. QED
        BY <4>1, <4>2
    <3>3. QED
      BY <2>1, <2>4, <3>1, <3>2 DEF Good
  <2>6. QED
    BY <2>5 DEF InnerRows, B, k
<1>6. ASSUME NEW n \in Nat, n \in T PROVE n + 1 \in T
  <2> SUFFICES ASSUME n + 1 < L, NEW within \in SUBSET docs,
                      HaveSame(within, levels, L - (n + 1) + 1)
               PROVE  RowsOf(rows[n + 1][within], within, levels, L - (n + 1) + 1)
    BY DEF Good
  <2> DEFINE k == L - n
  <2>1. L - (n + 1) + 1 = k /\ k \in 2..L /\ k # 1 /\ n < L /\ n + 1 \in 1..L /\ n + 1 - 1 = n
    BY <1>1
  <2>2. InnerRows(within, levels, k, rows[n])
    BY <1>5, <1>6, <2>1
  <2>3. rows[n + 1][within] = FlattenSeq(RowsAround(within, levels[k], rows[n]))
    <3> HIDE DEF k, T
    <3>1. rows[n + 1][within]
            = FlattenSeq(RowsAround(within, levels[L - (n + 1) + 1], rows[n + 1 - 1]))
      BY <1>3, <2>1
    <3>2. L - (n + 1) + 1 = k /\ n + 1 - 1 = n
      BY <2>1
    <3>3. QED
      BY <3>1, <3>2
  <2>4. Countable(within)
    BY FS_Subset DEF Countable
  <2> HIDE DEF k
  <2>5. QED
    BY <2>1, <2>2, <2>3, <2>4, FieldRows
<1>7. L - 1 \in T
  <2> HIDE DEF T
  <2>1. L - 1 \in Nat
    BY <1>1
  <2>2. QED
    BY <1>4, <1>6, <2>1, Inductive
<1>8. InnerRows(docs, levels, 1, rows[L - 1])
  <2>1. L - (L - 1) = 1 /\ L - 1 < L /\ L - 1 \in Nat
    BY <1>1
  <2> HIDE DEF T
  <2>2. InnerRows(docs, levels, L - (L - 1), rows[L - 1])
    BY <1>5, <1>7, <2>1
  <2>3. QED
    BY <2>1, <2>2
<1>9. rows[L][docs] = FlattenSeq(RowsAround(docs, levels[1], rows[L - 1]))
  <2>1. L \in 1..L /\ L - L + 1 = 1 /\ docs \in SUBSET docs
    BY <1>1
  <2>2. rows[L][docs] = FlattenSeq(RowsAround(docs, levels[L - L + 1], rows[L - 1]))
    BY <1>3, <2>1
  <2>3. QED
    BY <2>1, <2>2
<1>10. QED
  BY <1>2, <1>8, <1>9, HistogramRight

------------------------------------------------------------------------------
(* What a query asks for.                                                  *)

\* A query with filters.
FilterAsk(q) == q.filterBy = None \/ q.filterBy \in Seq(ToSet(q.filterBy))

\* A query of the count service.
CountAsk(q) ==
    /\ q.path = "count"
    /\ FilterAsk(q)
    /\ q.groupBy = None \/ q.groupBy \in Seq(ToSet(q.groupBy))

\* Documents that Spark writes: with a collection.
CountDocs(docs) ==
    /\ Countable(docs)
    /\ \A d \in docs : "collection" \in DOMAIN d.keys

\* The fields to filter and group by are names of keyword fields.
LEMMA FieldNames ==
    /\ DOMAIN CountGroup \subseteq DOMAIN CountField
    /\ "date.from" \notin DOMAIN CountField /\ "date.to" \notin DOMAIN CountField
    /\ \A p \in DOMAIN CountField : CountField[p] \notin {"date", "count", "prefix"}
    /\ \A g \in DOMAIN CountGroup : CountGroup[g] \notin {"date", "count", "prefix"}
<1>1. DOMAIN CountGroup \subseteq DOMAIN CountField
  BY DEF CountGroup
<1>2. "date.from" \notin DOMAIN CountField /\ "date.to" \notin DOMAIN CountField
  BY DEF CountField
<1>3. ASSUME NEW p \in DOMAIN CountField
      PROVE  CountField[p] \notin {"date", "count", "prefix"}
  BY DEF CountField
<1>4. \A g \in DOMAIN CountGroup : CountGroup[g] = CountField[g]
  BY DEF CountGroup
<1>5. QED
  BY <1>1, <1>2, <1>3, <1>4

\* The levels of an aggregation: the histogram, then fields.
LEMMA LevelsOf ==
    ASSUME NEW groups, groups \in Seq(ToSet(groups))
    PROVE  Leveled(CountLevels(groups))
<1> DEFINE P == {i \in DOMAIN groups : groups[i] \in DOMAIN CountGroup}
           fields == AtPositions(groups, P)
           first == [field |-> "date", width |-> Width[Interval(groups)]]
           rest == [i \in DOMAIN fields |-> [field |-> CountGroup[fields[i]], width |-> 0]]
           levels == CountLevels(groups)
<1>1. levels = <<first>> \o rest
  BY DEF CountLevels
<1>2. Len(groups) \in Nat /\ DOMAIN groups = 1..Len(groups)
  BY LenProperties
<1>3. ASSUME NEW S, S \subseteq DOMAIN groups PROVE IsFiniteSet(S) /\ S \subseteq Int
  <2>1. IsFiniteSet(1..Len(groups))
    BY <1>2, FS_Interval
  <2>2. QED
    BY <1>2, <1>3, <2>1, FS_Subset
<1>4. first.width \in Nat \ {0} /\ first.field = "date"
  <2> DEFINE named == {i \in DOMAIN groups : groups[i] \in DOMAIN Intervals}
  <2>1. IsFiniteSet(named) /\ named \subseteq Int
    BY <1>3
  <2>2. \A g \in DOMAIN Intervals : Intervals[g] \in {"hour", "month", "year"}
    BY DEF Intervals
  <2>3. named # {} => Max(named) \in named
    <3> HIDE DEF named
    <3>1. QED
      BY <2>1, Extremes
  <2>4. Interval(groups) = IF named = {} THEN "day" ELSE Intervals[groups[Max(named)]]
    BY DEF Interval
  <2>5. Interval(groups) \in {"hour", "day", "month", "year"}
    BY <2>2, <2>3, <2>4
  <2>6. QED
    BY <2>5, WidthAssumption
<1> DEFINE N == Cardinality(P)
<1>5. N \in Nat /\ \E at \in [1..N -> P] : fields = [n \in 1..N |-> groups[at[n]]]
  <2>1. IsFiniteSet(P) /\ P \subseteq Int
    BY <1>3
  <2> HIDE DEF P
  <2>2. /\ Cardinality(P) \in Nat
        /\ \E at \in [1..Cardinality(P) -> P] :
              /\ fields = [n \in 1..Cardinality(P) |-> groups[at[n]]]
              /\ \A p \in P : \E n \in 1..Cardinality(P) : at[n] = p
              /\ \A m, n \in 1..Cardinality(P) : m < n => at[m] < at[n]
    BY <2>1, PositionsInOrder
  <2>3. QED
    BY <2>2
<1> HIDE DEF N
<1>6. rest \in [1..N -> {[field |-> CountGroup[g], width |-> 0] : g \in DOMAIN CountGroup}]
  BY <1>5
<1> DEFINE Y == {[field |-> CountGroup[g], width |-> 0] : g \in DOMAIN CountGroup}
           X == {first} \cup Y
<1> HIDE DEF rest, first, Y
<1>7. rest \in Seq(X) /\ Len(rest) = N
  <2>1. rest \in [1..N -> Y]
    BY <1>6 DEF Y
  <2>2. rest \in [1..N -> X]
    BY <2>1
  <2> HIDE DEF X
  <2>3. QED
    BY <1>5, <2>2, SeqDef
<1>8. <<first>> \in Seq(X) /\ Len(<<first>>) = 1 /\ <<first>>[1] = first
  OBVIOUS
<1> HIDE DEF X, levels
<1>9. /\ Len(levels) = 1 + N
      /\ \A i \in 1..(1 + N) : levels[i] = IF i <= 1 THEN <<first>>[i] ELSE rest[i - 1]
  BY <1>1, <1>7, <1>8, ConcatProperties
<1>10. levels[1] = first
  BY <1>5, <1>8, <1>9
<1>11. ASSUME NEW n \in 2..Len(levels) PROVE levels[n].field \notin {"date", "count", "prefix"}
  <2>1. n - 1 \in 1..N /\ levels[n] = rest[n - 1]
    BY <1>5, <1>9
  <2>2. PICK g \in DOMAIN CountGroup : rest[n - 1] = [field |-> CountGroup[g], width |-> 0]
    BY <1>6, <2>1
  <2>3. QED
    BY <2>1, <2>2, FieldNames
<1>12. QED
  BY <1>4, <1>5, <1>9, <1>10, <1>11 DEF levels, Leveled

\* The places of filters.
LEMMA FilterPlaces ==
    ASSUME NEW q, FilterAsk(q)
    PROVE  /\ DOMAIN Filters(q) \subseteq Int
           /\ ToSet(Filters(q)) = {Filters(q)[i] : i \in DOMAIN Filters(q)}
<1>1. CASE q.filterBy = None
  BY <1>1 DEF Filters, OrElse, ToSet
<1>2. CASE q.filterBy # None
  BY <1>2, LenProperties DEF Filters, OrElse, ToSet, FilterAsk
<1>3. QED
  BY <1>1, <1>2

\* The bounds that stay are those that no later filter overwrote.
LEMMA BoundsMeant ==
    ASSUME NEW filters, DOMAIN filters \subseteq Int, NEW d
    PROVE  /\ (\A v \in LastFiltered(filters, "date.from", "gte") : d.date >= v) /\
              (\A v \in LastFiltered(filters, "date.to", "lte") : d.date <= v)
              <=> \A i \in DOMAIN filters :
                     Overwritten(filters, i) \/ AdmitsDate(filters[i], d)
<1>1. ASSUME NEW p \in {"date.from", "date.to"}, NEW op, NEW v
      PROVE  v \in LastFiltered(filters, p, op) <=>
               \E i \in DOMAIN filters :
                  /\ filters[i].prop = p /\ filters[i].operator = op
                  /\ ~Overwritten(filters, i) /\ v = filters[i].value
  BY <1>1 DEF LastFiltered, Overwritten
<1>2. (\A v \in LastFiltered(filters, "date.from", "gte") : d.date >= v) <=>
         \A i \in DOMAIN filters :
            filters[i].prop = "date.from" /\ filters[i].operator = "gte" =>
               Overwritten(filters, i) \/ d.date >= filters[i].value
  BY <1>1
<1>3. (\A v \in LastFiltered(filters, "date.to", "lte") : d.date <= v) <=>
         \A i \in DOMAIN filters :
            filters[i].prop = "date.to" /\ filters[i].operator = "lte" =>
               Overwritten(filters, i) \/ d.date <= filters[i].value
  BY <1>1
<1>4. QED
  BY <1>2, <1>3 DEF AdmitsDate

\* The query that filters are merged into asks for what each of them says.
LEMMA QueryMeant ==
    ASSUME NEW q, CountAsk(q), CountDocs(index["count"])
    PROVE  Match(index["count"], CountQuery(q)) = Meant(q)
<1> DEFINE filters == Filters(q)
           query == CountQuery(q)
           docs == index["count"]
           TermsOf(op) == UNION {{<<CountField[p], v>> : v \in Filtered(filters, p, op)} :
                                   p \in DOMAIN CountField}
<1>1. DOMAIN filters \subseteq Int /\ ToSet(filters) = {filters[i] : i \in DOMAIN filters}
  BY FilterPlaces DEF CountAsk
<1>2. /\ query.must = {<<"collection", q.collection>>} \cup TermsOf("eq")
      /\ query.mustNot = TermsOf("ne")
      /\ query.from = LastFiltered(filters, "date.from", "gte")
      /\ query.to = LastFiltered(filters, "date.to", "lte")
  BY DEF CountQuery, DateQuery, Filters
<1>3. Meant(q) = {d \in docs :
                    /\ d.keys["collection"] = q.collection
                    /\ \A i \in DOMAIN filters :
                          Overwritten(filters, i) \/ Admits(filters[i], d)}
  BY DEF Meant
<1>4. Match(docs, query) = {d \in docs : /\ \A t \in query.must : Has(d, t)
                                         /\ \A t \in query.mustNot : ~Has(d, t)
                                         /\ \A v \in query.from : d.date >= v
                                         /\ \A v \in query.to : d.date <= v}
  BY DEF Match
<1> HIDE DEF filters, query, docs
<1>5. ASSUME NEW op, NEW t
      PROVE  t \in TermsOf(op) <=>
               \E i \in DOMAIN filters : /\ filters[i].prop \in DOMAIN CountField
                                         /\ filters[i].operator = op
                                         /\ t = <<CountField[filters[i].prop], filters[i].value>>
  BY <1>1 DEF Filtered
<1>6. ASSUME NEW d \in docs
      PROVE  Has(d, <<"collection", q.collection>>) <=> d.keys["collection"] = q.collection
  BY DEF Has, docs, CountDocs
<1>7. \A i \in DOMAIN filters : filters[i].prop \in DOMAIN CountField => ~Overwritten(filters, i)
  BY FieldNames DEF Overwritten
<1> HIDE DEF TermsOf
<1>8. ASSUME NEW d \in docs
      PROVE  /\ (\A t \in query.must : Has(d, t)) <=>
                  /\ d.keys["collection"] = q.collection
                  /\ \A i \in DOMAIN filters :
                        filters[i].prop \in DOMAIN CountField /\ filters[i].operator = "eq" =>
                           Has(d, <<CountField[filters[i].prop], filters[i].value>>)
             /\ (\A t \in query.mustNot : ~Has(d, t)) <=>
                  \A i \in DOMAIN filters :
                        filters[i].prop \in DOMAIN CountField /\ filters[i].operator = "ne" =>
                           ~Has(d, <<CountField[filters[i].prop], filters[i].value>>)
             /\ (\A v \in query.from : d.date >= v) /\ (\A v \in query.to : d.date <= v) <=>
                  \A i \in DOMAIN filters :
                     Overwritten(filters, i) \/ AdmitsDate(filters[i], d)
  <2>1. (\A t \in query.must : Has(d, t)) <=>
             Has(d, <<"collection", q.collection>>) /\ \A t \in TermsOf("eq") : Has(d, t)
    BY <1>2
  <2>2. (\A t \in TermsOf("eq") : Has(d, t)) <=>
             \A i \in DOMAIN filters :
                filters[i].prop \in DOMAIN CountField /\ filters[i].operator = "eq" =>
                   Has(d, <<CountField[filters[i].prop], filters[i].value>>)
    BY <1>5
  <2>3. (\A t \in TermsOf("ne") : ~Has(d, t)) <=>
             \A i \in DOMAIN filters :
                filters[i].prop \in DOMAIN CountField /\ filters[i].operator = "ne" =>
                   ~Has(d, <<CountField[filters[i].prop], filters[i].value>>)
    BY <1>5
  <2>4. (\A v \in query.from : d.date >= v) /\ (\A v \in query.to : d.date <= v) <=>
             \A i \in DOMAIN filters : Overwritten(filters, i) \/ AdmitsDate(filters[i], d)
    BY <1>1, <1>2, BoundsMeant
  <2>5. QED
    BY <1>2, <1>6, <2>1, <2>2, <2>3, <2>4
<1>9. ASSUME NEW d \in docs, NEW i \in DOMAIN filters
      PROVE  (Overwritten(filters, i) \/ Admits(filters[i], d)) <=>
                /\ filters[i].prop \in DOMAIN CountField /\ filters[i].operator = "eq" =>
                      Has(d, <<CountField[filters[i].prop], filters[i].value>>)
                /\ filters[i].prop \in DOMAIN CountField /\ filters[i].operator = "ne" =>
                      ~Has(d, <<CountField[filters[i].prop], filters[i].value>>)
                /\ Overwritten(filters, i) \/ AdmitsDate(filters[i], d)
  BY <1>7 DEF Admits
<1>10. ASSUME NEW d \in docs PROVE d \in Match(docs, query) <=> d \in Meant(q)
  BY <1>3, <1>4, <1>8, <1>9
<1>11. Match(docs, query) \subseteq docs /\ Meant(q) \subseteq docs
  BY <1>3, <1>4
<1>12. QED
  BY <1>10, <1>11 DEF docs, query

\* The same of a sum, which dates alone filter.
LEMMA SumMeant ==
    ASSUME NEW q, FilterAsk(q), CountDocs(index["count"])
    PROVE  Match(index["count"], SumQuery(q)) = MeantSum(q)
<1> DEFINE filters == Filters(q)
<1>1. DOMAIN filters \subseteq Int
  BY FilterPlaces
<1>2. /\ SumQuery(q).must = {<<"collection", q.collection>>} /\ SumQuery(q).mustNot = {}
      /\ SumQuery(q).from = LastFiltered(filters, "date.from", "gte")
      /\ SumQuery(q).to = LastFiltered(filters, "date.to", "lte")
  BY DEF SumQuery, DateQuery, Filters
<1>3. MeantSum(q) = {d \in index["count"] :
                       /\ d.keys["collection"] = q.collection
                       /\ \A i \in DOMAIN filters :
                             Overwritten(filters, i) \/ AdmitsDate(filters[i], d)}
  BY DEF MeantSum
<1> HIDE DEF filters
<1>4. ASSUME NEW d \in index["count"]
      PROVE  Has(d, <<"collection", q.collection>>) <=> d.keys["collection"] = q.collection
  BY DEF Has, CountDocs
<1>5. ASSUME NEW d \in index["count"]
      PROVE  d \in Match(index["count"], SumQuery(q)) <=> d \in MeantSum(q)
  <2>1. d \in Match(index["count"], SumQuery(q)) <=>
             /\ Has(d, <<"collection", q.collection>>)
             /\ (\A v \in LastFiltered(filters, "date.from", "gte") : d.date >= v) /\
                (\A v \in LastFiltered(filters, "date.to", "lte") : d.date <= v)
    BY <1>2 DEF Match
  <2>2. QED
    BY <1>1, <1>3, <1>4, <2>1, BoundsMeant
<1>6. Match(index["count"], SumQuery(q)) \subseteq index["count"]
  BY DEF Match
<1>7. QED
  BY <1>3, <1>5, <1>6

\* And of users.
LEMMA UsersMeant ==
    ASSUME NEW q, FilterAsk(q)
    PROVE  Match(index["user"], UserQuery(q)) = MeantUsers(q)
<1> DEFINE filters == Filters(q)
           query == UserQuery(q)
           docs == index["user"]
           named == {<<"user", v>> : v \in Filtered(filters, "user", "eq")}
           begun == {<<"prefix", v>> : v \in Filtered(filters, "user", "contains")}
<1>1. DOMAIN filters \subseteq Int /\ ToSet(filters) = {filters[i] : i \in DOMAIN filters}
  BY FilterPlaces
<1>2. /\ query.must = named \cup begun /\ query.mustNot = {}
      /\ query.from = LastFiltered(filters, "date.from", "gte")
      /\ query.to = LastFiltered(filters, "date.to", "lte")
  BY DEF UserQuery, DateQuery, Filters
<1>3. MeantUsers(q) = {d \in docs :
                         \A i \in DOMAIN filters :
                            Overwritten(filters, i) \/ AdmitsUser(filters[i], d)}
  BY DEF MeantUsers
<1>4. Match(docs, query) = {d \in docs : /\ \A t \in query.must : Has(d, t)
                                         /\ \A t \in query.mustNot : ~Has(d, t)
                                         /\ \A v \in query.from : d.date >= v
                                         /\ \A v \in query.to : d.date <= v}
  BY DEF Match
<1> HIDE DEF filters, query, docs
<1>5. ASSUME NEW d
      PROVE  /\ (\A t \in named : Has(d, t)) <=>
                  \A i \in DOMAIN filters :
                     filters[i].prop = "user" /\ filters[i].operator = "eq" =>
                        Has(d, <<"user", filters[i].value>>)
             /\ (\A t \in begun : Has(d, t)) <=>
                  \A i \in DOMAIN filters :
                     filters[i].prop = "user" /\ filters[i].operator = "contains" =>
                        <<filters[i].value, d.keys["user"]>> \in PrefixOf
  <2>1. \A v : Has(d, <<"prefix", v>>) <=> <<v, d.keys["user"]>> \in PrefixOf
    BY DEF Has
  <2>2. ASSUME NEW op, NEW v
        PROVE  v \in Filtered(filters, "user", op) <=>
                 \E i \in DOMAIN filters : /\ filters[i].prop = "user"
                                           /\ filters[i].operator = op
                                           /\ v = filters[i].value
    BY <1>1 DEF Filtered
  <2>3. (\A t \in named : Has(d, t)) <=>
           \A v \in Filtered(filters, "user", "eq") : Has(d, <<"user", v>>)
    OBVIOUS
  <2>4. (\A t \in begun : Has(d, t)) <=>
           \A v \in Filtered(filters, "user", "contains") : Has(d, <<"prefix", v>>)
    OBVIOUS
  <2> HIDE DEF named, begun
  <2>5. (\A t \in named : Has(d, t)) <=>
           \A i \in DOMAIN filters :
              filters[i].prop = "user" /\ filters[i].operator = "eq" =>
                 Has(d, <<"user", filters[i].value>>)
    BY <2>2, <2>3
  <2>6. (\A t \in begun : Has(d, t)) <=>
           \A i \in DOMAIN filters :
              filters[i].prop = "user" /\ filters[i].operator = "contains" =>
                 <<filters[i].value, d.keys["user"]>> \in PrefixOf
    <3>1. (\A t \in begun : Has(d, t)) <=>
             \A v \in Filtered(filters, "user", "contains") :
                <<v, d.keys["user"]>> \in PrefixOf
      BY <2>1, <2>4
    <3>2. QED
      BY <2>2, <3>1
  <2>7. QED
    BY <2>5, <2>6
<1> HIDE DEF named, begun
<1>6. ASSUME NEW d, NEW i \in DOMAIN filters
      PROVE  (Overwritten(filters, i) \/ AdmitsUser(filters[i], d)) <=>
                /\ filters[i].prop = "user" /\ filters[i].operator = "eq" =>
                      Has(d, <<"user", filters[i].value>>)
                /\ filters[i].prop = "user" /\ filters[i].operator = "contains" =>
                      <<filters[i].value, d.keys["user"]>> \in PrefixOf
                /\ Overwritten(filters, i) \/ AdmitsDate(filters[i], d)
  BY DEF AdmitsUser, Overwritten
<1>7. ASSUME NEW d \in docs PROVE d \in Match(docs, query) <=> d \in MeantUsers(q)
  <2>1. d \in Match(docs, query) <=>
           /\ \A t \in named : Has(d, t)
           /\ \A t \in begun : Has(d, t)
           /\ \A i \in DOMAIN filters : Overwritten(filters, i) \/ AdmitsDate(filters[i], d)
    BY <1>1, <1>2, <1>4, BoundsMeant
  <2>2. QED
    BY <1>3, <1>5, <1>6, <2>1
<1>8. Match(docs, query) \subseteq docs /\ MeantUsers(q) \subseteq docs
  BY <1>3, <1>4
<1>9. QED
  BY <1>7, <1>8 DEF docs, query

------------------------------------------------------------------------------
(* Answers of the count service.                                           *)

\* The operation and the documents of a query by its path.
LEMMA QueryService ==
    ASSUME NEW q
    PROVE  /\ Operation(q) \in {"count", "grouped", "sum"} => Service(q) = "count"
           /\ Operation(q) = "user-count" => Service(q) = "user"
BY DEF Service, ServiceOf

\* What a routed path asks for.
LEMMA Operations ==
    ASSUME NEW q, q.path \in Paths
    PROVE  /\ Operation(q) = "count" <=> q.path = "count" /\ q.groupBy = None
           /\ Operation(q) = "grouped" <=> q.path = "count" /\ q.groupBy # None
           /\ Operation(q) = "sum" <=> q.path = "sum"
           /\ Operation(q) = "user-count" => q.path = "user-count"
           /\ Operation(q) = "similarities" <=> q.path = "similarities"
BY DEF Operation, Paths

\* What is known of a request that was answered with what was found.
LEMMA Asked ==
    ASSUME IInv, NEW r \in Requests, Found(r)
    PROVE  LET q == requests[r].query
           IN  /\ q \in Asks[r] /\ q.path \in Paths
               /\ q.path \in {"count", "sum", "user-count"} => FilterAsk(q)
               /\ q.path = "count" => CountAsk(q)
               /\ CountDocs(index["count"])
               /\ requests[r].answer \in Results(q)
<1> DEFINE q == requests[r].query
<1>1. q \in Asks[r]
  BY UnderWayForm DEF Found, Form
<1>2. /\ q.path \in Paths
      /\ q.path \in {"count", "sum", "user-count"} => FilterAsk(q)
      /\ q.path = "count" => CountAsk(q)
  BY <1>1, AsksAssumption DEF CountAsk, FilterAsk
<1>3. index \in Indexes
  BY DEF IInv, TypeOK
<1>4. CountDocs(index["count"])
  BY <1>3, IndexesAssumption DEF CountDocs, Countable
<1>5. QED
  BY <1>1, <1>2, <1>4 DEF IInv, Truthful

\* The documents a query is about can be counted.
LEMMA MeantCountable ==
    ASSUME NEW q, CountDocs(index["count"]) PROVE Countable(Meant(q))
<1>1. Meant(q) \in SUBSET index["count"]
  BY DEF Meant
<1>2. IsFiniteSet(Meant(q))
  BY <1>1, FS_Subset DEF CountDocs, Countable
<1>3. QED
  BY <1>1, <1>2 DEF CountDocs, Countable

\* A grouped count has the right rows.
LEMMA GroupedRight ==
    ASSUME NEW q, CountAsk(q), q.groupBy # None, CountDocs(index["count"]), SameKeys(q)
    PROVE  Right(Grouped(index["count"], q), Meant(q), Levels(q))
<1>1. Leveled(Levels(q))
  BY LevelsOf DEF Levels, CountAsk
<1>2. Countable(Meant(q))
  BY MeantCountable
<1>3. HaveSame(Meant(q), Levels(q), 2)
  <2>1. 2 + 1 = 3
    OBVIOUS
  <2>2. QED
    BY <2>1 DEF HaveSame, SameKeys
<1>4. Grouped(index["count"], q) = Parse(Meant(q), Levels(q))
  BY QueryMeant DEF Grouped, Levels
<1>5. QED
  BY <1>1, <1>2, <1>3, <1>4, ParseRight

\* A found count is exact.
LEMMA ExactFromInv == IInv => CountsAreExact
<1> SUFFICES ASSUME IInv, NEW r \in Requests, Found(r)
             PROVE  LET q == requests[r].query
                        answer == requests[r].answer
                    IN  /\ Operation(q) = "count" => answer = Total(Meant(q))
                        /\ Operation(q) = "sum" => answer = Revenue(MeantSum(q))
                        /\ Operation(q) = "user-count" => answer = Total(MeantUsers(q))
                        /\ Operation(q) = "grouped" /\ SameKeys(q) =>
                              RowsExact(q, answer)
  BY DEF CountsAreExact
<1> DEFINE q == requests[r].query
           answer == requests[r].answer
<1>1. /\ q.path \in Paths /\ (q.path = "count" => CountAsk(q))
      /\ q.path \in {"count", "sum", "user-count"} => FilterAsk(q)
      /\ CountDocs(index["count"]) /\ answer \in Results(q)
  BY Asked
<1> HIDE DEF q, answer
<1>2. CASE Operation(q) = "count"
  <2>1. Results(q) = {Count(index["count"], q)}
    BY <1>2, QueryService DEF Results
  <2>2. CountAsk(q)
    BY <1>1, <1>2, Operations
  <2>3. answer = Total(Meant(q))
    BY <1>1, <2>1, <2>2, QueryMeant DEF Count
  <2>4. QED
    BY <1>2, <2>3 DEF q, answer
<1>3. CASE Operation(q) = "grouped" /\ SameKeys(q)
  <2>1. Results(q) = {Grouped(index["count"], q)}
    BY <1>3, QueryService DEF Results
  <2>2. CountAsk(q) /\ q.groupBy # None
    BY <1>1, <1>3, Operations
  <2>3. Right(answer, Meant(q), Levels(q))
    BY <1>1, <1>3, <2>1, <2>2, GroupedRight
  <2>4. RowsExact(q, answer)
    BY <2>3 DEF Right, Counting, RowsExact
  <2>5. QED
    BY <1>3, <2>4 DEF q, answer
<1>4. CASE Operation(q) = "sum"
  <2>1. Results(q) = {Sum(index["count"], q)}
    BY <1>4, QueryService DEF Results
  <2>2. FilterAsk(q)
    BY <1>1, <1>4, Operations
  <2>3. answer = Revenue(MeantSum(q))
    BY <1>1, <2>1, <2>2, SumMeant DEF Sum
  <2>4. QED
    BY <1>4, <2>3 DEF q, answer
<1>5. CASE Operation(q) = "user-count"
  <2>1. Results(q) = {UserCount(index["user"], q)}
    BY <1>5, QueryService DEF Results
  <2>2. FilterAsk(q)
    BY <1>1, <1>5, Operations
  <2>3. answer = Total(MeantUsers(q))
    BY <1>1, <2>1, <2>2, UsersMeant DEF UserCount
  <2>4. QED
    BY <1>5, <2>3 DEF q, answer
<1>6. QED
  BY <1>2, <1>3, <1>4, <1>5 DEF q, answer

\* A found count has each document once.
LEMMA OnceFromInv == IInv => EachCountedOnce
<1> SUFFICES ASSUME IInv, NEW r \in Requests, Found(r),
                    Operation(requests[r].query) = "grouped",
                    SameKeys(requests[r].query),
                    NEW d \in Meant(requests[r].query)
             PROVE  LET q == requests[r].query
                        rows == requests[r].answer
                        in == {i \in DOMAIN rows : InRow(d, rows[i], Levels(q)[1].width)}
                        all == \A l \in 2..Len(Levels(q)) :
                                 Cardinality({e.keys[Levels(q)[l].field] :
                                    e \in {x \in Meant(q) :
                                             Levels(q)[l].field \in DOMAIN x.keys}})
                                 <= TermsSize
                    IN  /\ Cardinality(in) <= 1
                        /\ all /\ (\A l \in 2..Len(Levels(q)) :
                                      Levels(q)[l].field \in DOMAIN d.keys) => in # {}
  BY DEF EachCountedOnce
<1> DEFINE q == requests[r].query
           rows == requests[r].answer
           in == {i \in DOMAIN rows : InRow(d, rows[i], Levels(q)[1].width)}
           all == FewTerms(Meant(q), Levels(q), 2)
<1>1. /\ q.path \in Paths /\ (q.path = "count" => CountAsk(q))
      /\ CountDocs(index["count"]) /\ rows \in Results(q)
  BY Asked
<1>2. Results(q) = {Grouped(index["count"], q)}
  BY QueryService DEF Results
<1>3. CountAsk(q) /\ q.groupBy # None
  BY <1>1, Operations
<1>4. Right(rows, Meant(q), Levels(q))
  <2> HIDE DEF rows
  <2>1. QED
    BY <1>1, <1>2, <1>3, GroupedRight
<1>5. \A i, j \in in : i = j
  BY <1>4 DEF Right, Counting
<1>6. Cardinality(in) <= 1
  <2> HIDE DEF in
  <2>1. CASE in = {}
    BY <2>1, FS_EmptySet
  <2>2. CASE in # {}
    <3>1. PICK i \in in : TRUE
      BY <2>2
    <3>2. in = {i}
      BY <1>5, <3>1
    <3>3. Cardinality({i}) = 1
      BY FS_Singleton
    <3>4. QED
      BY <3>2, <3>3
  <2>3. QED
    BY <2>1, <2>2
<1>7. ASSUME all, \A l \in 2..Len(Levels(q)) : Levels(q)[l].field \in DOMAIN d.keys
      PROVE  in # {}
  BY <1>4, <1>7 DEF Right, HasAll
<1>8. QED
  BY <1>6, <1>7 DEF FewTerms, Terms

------------------------------------------------------------------------------
(* Similar items.                                                          *)

\* Items that are apart and can be sorted.
Sortable(items) ==
    /\ IsFiniteSet(items)
    /\ \A x \in items : x.id \in Int /\ x.item \in Int /\ x.score \in Int
    /\ \A x, y \in items : x.id = y.id => x = y

\* The best of the items by score, all of them without a limit: one with a
\* higher score than one of them is one of them.
LEMMA BestFirst ==
    ASSUME NEW items, Sortable(items), NEW limit, limit = None \/ limit \in Nat
    PROVE  LET top == Sorted(items, "score")
               best == ToSet(IF limit = None THEN top ELSE Take(top, limit))
           IN  /\ best \in SUBSET items
               /\ \A x \in items, h \in best : x.score > h.score => x \in best
<1> DEFINE before == {p \in items \X items :
                        \/ p[1]["score"] > p[2]["score"]
                        \/ p[1]["score"] = p[2]["score"] /\ p[1].id < p[2].id}
           top == Sorted(items, "score")
           taken == IF limit = None THEN top ELSE Take(top, limit)
           N == Cardinality(items)
<1>1. StrictOrder(items, before)
  BY DEF StrictOrder, Sortable
<1>2. \A x, y \in items : <<x, y>> \in before => x.score >= y.score
  BY DEF Sortable
<1>3. top = InOrder(items, before)
  BY DEF Sorted
<1> HIDE DEF before, top
<1>4. /\ N \in Nat
      /\ top \in [1..N -> items]
      /\ \A x \in items : \E n \in 1..N : top[n] = x
      /\ \A m, n \in 1..N : m < n => <<top[m], top[n]>> \in before
  BY <1>1, <1>3, InOrderSorts DEF Sortable
<1> HIDE DEF N
<1>5. top \in Seq(items) /\ Len(top) = N /\ DOMAIN top = 1..N
  BY <1>4
<1>6. PICK M \in Nat : /\ M <= N /\ DOMAIN taken = 1..M
                       /\ \A n \in 1..M : taken[n] = top[n]
  <2>1. CASE limit = None
    BY <1>4, <1>5, <2>1
  <2>2. CASE limit # None
    <3>1. limit \in Nat /\ taken = Take(top, limit)
      BY <2>2
    <3>2. PICK M \in Nat : /\ M <= N /\ Len(taken) = M /\ taken \in Seq(items)
                           /\ \A n \in 1..M : taken[n] = top[n]
      BY <1>5, <3>1, TakeFirst
    <3> HIDE DEF taken
    <3>3. DOMAIN taken = 1..M
      BY <3>2
    <3>4. QED
      BY <3>2, <3>3
  <2>3. QED
    BY <2>1, <2>2
<1> HIDE DEF taken
<1>7. ToSet(taken) = {top[n] : n \in 1..M}
  BY <1>6 DEF ToSet
<1>8. ToSet(taken) \in SUBSET items
  BY <1>4, <1>6, <1>7
<1>9. ASSUME NEW x \in items, NEW h \in ToSet(taken), x.score > h.score
      PROVE  x \in ToSet(taken)
  <2>1. PICK j \in 1..M : h = top[j]
    BY <1>7
  <2>2. PICK i \in 1..N : top[i] = x
    BY <1>4
  <2>3. j \in 1..N /\ h \in items
    BY <1>4, <1>6, <2>1
  <2>4. ~(j < i)
    <3>1. ASSUME j < i PROVE h.score >= x.score
      BY <1>2, <1>4, <2>1, <2>2, <2>3, <3>1
    <3>2. h.score \in Int /\ x.score \in Int
      BY <2>3 DEF Sortable
    <3>3. QED
      BY <1>9, <3>1, <3>2
  <2>5. i \in 1..M
    BY <1>4, <1>6, <2>4
  <2>6. QED
    BY <1>7, <2>2, <2>5
<1>10. QED
  BY <1>8, <1>9 DEF taken, top

\* Items sorted by item and then by score, of which dedup() keeps the first of
\* each item: each item once, with its best score.
LEMMA FirstOfEachItem ==
    ASSUME NEW hits, Sortable(hits)
    PROVE  LET sorted == InOrder(hits, {p \in hits \X hits :
                     \/ p[1].item > p[2].item
                     \/ p[1].item = p[2].item /\ p[1].score > p[2].score
                     \/ p[1].item = p[2].item /\ p[1].score = p[2].score /\ p[1].id < p[2].id})
               once == Dedup(sorted)
           IN  /\ \A n \in DOMAIN once : once[n] \in hits
               /\ \A m, n \in DOMAIN once : once[m].item = once[n].item => m = n
               /\ \A n \in DOMAIN once : \A x \in hits :
                     x.item = once[n].item => x.score <= once[n].score
<1> DEFINE before == {p \in hits \X hits :
                     \/ p[1].item > p[2].item
                     \/ p[1].item = p[2].item /\ p[1].score > p[2].score
                     \/ p[1].item = p[2].item /\ p[1].score = p[2].score /\ p[1].id < p[2].id}
           sorted == InOrder(hits, before)
           N == Cardinality(hits)
           P == {n \in 1..N : n = 1 \/ sorted[n].item # sorted[n - 1].item}
           once == Dedup(sorted)
<1>1. StrictOrder(hits, before)
  BY DEF StrictOrder, Sortable
<1>2. \A x, y \in hits : <<x, y>> \in before =>
         x.item >= y.item /\ (x.item = y.item => x.score >= y.score)
  BY DEF Sortable
<1> HIDE DEF before
<1>3. /\ N \in Nat
      /\ sorted \in [1..N -> hits]
      /\ \A x \in hits : \E n \in 1..N : sorted[n] = x
      /\ \A m, n \in 1..N : m < n => <<sorted[m], sorted[n]>> \in before
  BY <1>1, InOrderSorts DEF Sortable
<1> HIDE DEF sorted, N
<1>4. \A n \in 1..N : sorted[n] \in hits /\ sorted[n].item \in Int /\ sorted[n].score \in Int
  BY <1>3 DEF Sortable
<1>5. ASSUME NEW m \in 1..N, NEW n \in 1..N, m <= n
      PROVE  /\ sorted[m].item >= sorted[n].item
             /\ sorted[m].item = sorted[n].item => sorted[m].score >= sorted[n].score
  <2>1. CASE m = n
    BY <1>4, <2>1
  <2>2. CASE m # n
    <3>1. m < n
      BY <1>3, <1>5, <2>2
    <3>2. <<sorted[m], sorted[n]>> \in before
      BY <1>3, <3>1
    <3>3. QED
      BY <1>2, <1>4, <3>2
  <2>3. QED
    BY <2>1, <2>2
<1>6. ASSUME NEW p \in P, NEW n \in 1..N, sorted[n].item = sorted[p].item
      PROVE  p <= n
  <2>1. SUFFICES ASSUME n < p PROVE FALSE
    BY <1>3
  <2>2. p - 1 \in 1..N /\ n <= p - 1 /\ p - 1 <= p /\ p \in 1..N /\ p # 1
    BY <1>3, <2>1
  <2>3. sorted[n].item >= sorted[p - 1].item /\ sorted[p - 1].item >= sorted[p].item
    BY <1>5, <2>2
  <2>4. sorted[p - 1].item = sorted[p].item
    BY <1>4, <1>6, <2>2, <2>3
  <2>5. QED
    BY <2>2, <2>4
<1>7. P \subseteq Int /\ IsFiniteSet(P) /\ P \subseteq 1..N
  <2>1. P \in SUBSET (1..N) /\ IsFiniteSet(1..N)
    BY <1>3, FS_Interval
  <2>2. QED
    BY <2>1, <1>3, FS_Subset
<1>8. once = AtPositions(sorted, P)
  <2>1. DOMAIN sorted = 1..N
    BY <1>3
  <2>2. QED
    BY <2>1 DEF Dedup
<1> HIDE DEF P, once
<1>9. PICK at \in [1..Cardinality(P) -> P] :
         /\ once = [n \in 1..Cardinality(P) |-> sorted[at[n]]]
         /\ \A m, n \in 1..Cardinality(P) : m < n => at[m] < at[n]
  BY <1>7, <1>8, PositionsInOrder
<1>10. Cardinality(P) \in Nat
  BY <1>7, FS_CardinalityType
<1>11. DOMAIN once = 1..Cardinality(P) /\
       \A n \in DOMAIN once : at[n] \in P /\ at[n] \in 1..N /\ once[n] = sorted[at[n]]
  BY <1>7, <1>9
<1>12. \A n \in DOMAIN once : once[n] \in hits
  BY <1>4, <1>11
<1>13. ASSUME NEW m \in DOMAIN once, NEW n \in DOMAIN once, once[m].item = once[n].item
       PROVE  m = n
  <2>1. at[m] <= at[n] /\ at[n] <= at[m]
    BY <1>6, <1>11, <1>13
  <2>2. at[m] \in Int /\ at[n] \in Int
    BY <1>7, <1>11
  <2>3. m \in Int /\ n \in Int
    BY <1>10, <1>11
  <2>4. ~(m < n) /\ ~(n < m)
    BY <1>9, <1>11, <2>1, <2>2
  <2>5. QED
    BY <2>3, <2>4
<1>14. ASSUME NEW n \in DOMAIN once, NEW x \in hits, x.item = once[n].item
       PROVE  x.score <= once[n].score
  <2>1. PICK k \in 1..N : sorted[k] = x
    BY <1>3
  <2>2. at[n] <= k
    BY <1>6, <1>11, <1>14, <2>1
  <2>3. sorted[at[n]].score >= sorted[k].score
    BY <1>5, <1>11, <1>14, <2>1, <2>2
  <2>4. QED
    BY <1>4, <1>11, <2>1, <2>3
<1>15. QED
  BY <1>12, <1>13, <1>14 DEF once, sorted, before

\* A found answer has each similar item once.
LEMMA SimilarFromInv == IInv => EachSimilarOnce
<1> SUFFICES ASSUME IInv, NEW r \in Requests, Found(r),
                    Operation(requests[r].query) = "similarities"
             PROVE  LET q == requests[r].query
                        answer == requests[r].answer
                        nested == UNION {d.items : d \in
                                     {e \in InCollection(index["similarity"], q) :
                                        e.keys["item"] \in q.items}}
                    IN  \A n \in DOMAIN answer :
                          /\ \A m \in DOMAIN answer : answer[m].item = answer[n].item => m = n
                          /\ \E x \in nested : x.item = answer[n].item /\ x.score = answer[n].score
                          /\ \A x \in nested : x.item = answer[n].item => x.score <= answer[n].score
  BY DEF EachSimilarOnce
<1> DEFINE q == requests[r].query
           answer == requests[r].answer
           docs == index["similarity"]
           nested == UNION {d.items : d \in {e \in InCollection(docs, q) :
                                                e.keys["item"] \in q.items}}
           top == Sorted(nested, "score")
           hits == ToSet(IF q.limit = None THEN top ELSE Take(top, q.limit))
           once == Dedup(InOrder(hits, {p \in hits \X hits :
                     \/ p[1].item > p[2].item
                     \/ p[1].item = p[2].item /\ p[1].score > p[2].score
                     \/ p[1].item = p[2].item /\ p[1].score = p[2].score /\ p[1].id < p[2].id}))
<1>1. q \in Asks[r] /\ q.path \in Paths /\ answer \in Results(q)
  BY Asked
<1>2. q.limit = None \/ q.limit \in Nat
  <2>1. q.path = "similarities"
    BY <1>1, Operations
  <2>2. QED
    BY <1>1, <2>1, AsksAssumption
<1>3. answer = [n \in DOMAIN once |-> [item |-> once[n].item, score |-> once[n].score]]
  <2>1. Service(q) = "similarity"
    BY DEF Service, ServiceOf
  <2>2. Results(q) = {Similarities(docs, q)}
    BY <2>1 DEF Results
  <2>3. answer = Similarities(docs, q)
    BY <1>1, <2>2
  <2> HIDE DEF answer, docs, q
  <2>4. QED
    BY <2>3 DEF Similarities
<1>4. Sortable(nested)
  <2> DEFINE items == UNION {d.items : d \in docs}
  <2>1. index \in Indexes
    BY DEF IInv, TypeOK
  <2>2. IsFiniteSet(items) /\ (\A x \in items : {x.id, x.item, x.score} \subseteq Int)
        /\ \A x, y \in items : x.id = y.id => x = y
    BY <2>1, IndexesAssumption
  <2>3. nested \in SUBSET items
    BY DEF InCollection
  <2> HIDE DEF items, nested
  <2>4. IsFiniteSet(nested)
    BY <2>2, <2>3, FS_Subset
  <2>5. QED
    BY <2>2, <2>3, <2>4 DEF Sortable
<1> HIDE DEF q, answer, nested
<1>5. /\ hits \in SUBSET nested
      /\ \A x \in nested, h \in hits : x.score > h.score => x \in hits
  BY <1>2, <1>4, BestFirst
<1> HIDE DEF hits
<1>6. Sortable(hits)
  <2>1. IsFiniteSet(hits)
    BY <1>4, <1>5, FS_Subset DEF Sortable
  <2>2. QED
    BY <1>4, <1>5, <2>1 DEF Sortable
<1>7. /\ \A n \in DOMAIN once : once[n] \in hits
      /\ \A m, n \in DOMAIN once : once[m].item = once[n].item => m = n
      /\ \A n \in DOMAIN once : \A x \in hits :
            x.item = once[n].item => x.score <= once[n].score
  BY <1>6, FirstOfEachItem
<1> HIDE DEF once
<1>8. DOMAIN answer = DOMAIN once /\
      \A n \in DOMAIN answer : answer[n].item = once[n].item /\ answer[n].score = once[n].score
  BY <1>3
<1>9. ASSUME NEW n \in DOMAIN answer, NEW x \in nested, x.item = answer[n].item
      PROVE  x.score <= answer[n].score
  <2>1. once[n] \in hits /\ once[n] \in nested
    BY <1>5, <1>7, <1>8
  <2>2. x.score \in Int /\ once[n].score \in Int
    BY <1>4, <2>1 DEF Sortable
  <2>3. CASE x \in hits
    BY <1>7, <1>8, <1>9, <2>3
  <2>4. CASE x \notin hits
    <3>1. ~(x.score > once[n].score)
      BY <1>5, <2>1, <2>4
    <3>2. QED
      BY <1>8, <2>2, <3>1
  <2>5. QED
    BY <2>3, <2>4
<1>10. ASSUME NEW n \in DOMAIN answer
       PROVE  \E x \in nested : x.item = answer[n].item /\ x.score = answer[n].score
  <2>1. once[n] \in nested
    BY <1>5, <1>7, <1>8
  <2>2. QED
    BY <1>8, <2>1
<1>11. ASSUME NEW m \in DOMAIN answer, NEW n \in DOMAIN answer,
              answer[m].item = answer[n].item
       PROVE  m = n
  BY <1>7, <1>8, <1>11
<1>12. QED
  BY <1>9, <1>10, <1>11 DEF q, answer, nested

------------------------------------------------------------------------------
(* What every answer is.                                                   *)

\* Every count that is found, plain or in a row by date and any fields, every sum and
\* every number of users is that over the documents for which each filter of the
\* caller holds and which have the values of the row (src/blah-count/serving/src/
\* count.rs: filter_by, group_by; src/blah-count/serving/src/util.rs:
\* parse_aggregation; src/blah-count/serving/src/sum.rs: filter_by;
\* src/blah-user/serving/src/repo.rs: filter_by).
THEOREM CountsExact == Spec => []CountsAreExact
<1>1. Spec => []IInv
  BY Invariance
<1>2. IInv => CountsAreExact
  BY ExactFromInv
<1>3. QED
  BY <1>1, <1>2, PTL

\* No document is counted in two rows of such an answer, and every one with the
\* field is in a row unless there are more terms than the aggregation returns
\* (src/blah-count/serving/src/count.rs: group_by).
THEOREM CountedOnce == Spec => []EachCountedOnce
<1>1. Spec => []IInv
  BY Invariance
<1>2. IInv => EachCountedOnce
  BY OnceFromInv
<1>3. QED
  BY <1>1, <1>2, PTL

\* Similar items are found once each, with the best score of all documents that
\* were asked for (src/blah-similarity/serving/src/repo.rs:
\* parse_elastic_response).
THEOREM SimilarOnce == Spec => []EachSimilarOnce
<1>1. Spec => []IInv
  BY Invariance
<1>2. IInv => EachSimilarOnce
  BY SimilarFromInv
<1>3. QED
  BY <1>1, <1>2, PTL
==============================================================================
