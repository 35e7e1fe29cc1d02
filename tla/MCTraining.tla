------------------------------ MODULE MCTraining ------------------------------
(* An instance of Training for TLC.                                           *)
EXTENDS Training

\* An anonymous visit, two purchases by a user with different addresses and from
\* different places, and another with a malformed price and an empty address.
Visit(user, item, price, email, ip) ==
    [user |-> user, item |-> item, price |-> price, email |-> email, ip |-> ip]

Story ==
    <<Visit(None, None, None, None, None),
      Visit("ann", "plan", 10, "old", "home"),
      Visit("ann", "team", 20, "new", "office"),
      Visit("ann", "plan", Malformed, Empty, None)>>

\* The two purchases have the same hash.
Hash(group) == IF group.price = None THEN "seen" ELSE "sold"

Places ==
    [ip \in {"home", "office"} |->
        IF ip = "home" THEN [country |-> "CH", zip |-> 8000]
        ELSE [country |-> "DE", zip |-> None]]

\* A behaviour has two runs of the batch job, or one and a failure; two messages are
\* on their way at a time.
MaxMishaps == 2
Bounded == failures + runs <= MaxMishaps /\ Cardinality(coming) <= 2

MayCrash == failures < MaxFailures /\ failures + runs < MaxMishaps

\* States that go on alike within these bounds.  The rows that the batch job has read
\* matter while it has something to write; where messages are in the share, and what
\* is committed, while the job can still crash; of what is extra or lost, how many
\* there are.
View ==
    <<job, stored, coming, batch, todo, index, rest, sure, ordered, failures, runs,
      IF rest = {} THEN 0 ELSE table,
      IF MayCrash THEN <<share, position, committed>>
      ELSE <<{share[i] : i \in (position + 1)..Len(share)}>>,
      [k \in sure |-> <<Cardinality(extra[k]), Cardinality(lost[k])>>]>>
==============================================================================
