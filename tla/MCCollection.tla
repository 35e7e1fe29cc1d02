---------------------------- MODULE MCCollection ----------------------------
(* Instances of Collection for TLC. *)
EXTENDS Collection, TLC

CONSTANTS e1, e2, e3, k1, k2

\* Two events of different collections or seconds, and a third.
OneEach == e1 :> k1 @@ e2 :> k2
TwoAndOne == e1 :> k1 @@ e2 :> k1 @@ e3 :> k2

\* History that only CountedOnce reads is no reason to tell states apart.
WithoutCounts ==
    <<storeVars, topic, consumerVars, streamingVars, index, batchVars, raceVars, crashes>>

\* At most two of the events are stored.  If they share a document there are two
\* runs of the batch, or one and a crash; if they do not, so that a bulk may exceed
\* the buffer, there is one of these.
Bounded ==
    /\ Cardinality(table) <= 2
    /\ runs + crashes + Cardinality({KeyOf[e] : e \in table}) <= 3

\* Renaming events together with their keys changes nothing.
Symmetry ==
    {f \in Permutations(Events \cup Keys) :
        \A e \in Events : f[e] \in Events /\ KeyOf[f[e]] = f[KeyOf[e]]}
=============================================================================
