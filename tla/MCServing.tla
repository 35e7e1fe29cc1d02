------------------------------ MODULE MCServing ------------------------------
(* Instances of Serving for TLC: small indexes and the queries that the      *)
(* widgets and the callers of the API make.                                  *)
EXTENDS Serving, TLC

CONSTANTS r1, r2

\* An hour, and a day, month and year of two, four and eight hours.
Lengths == "hour" :> 1 @@ "day" :> 2 @@ "month" :> 4 @@ "year" :> 8

\* The names 1 and 12 begin with 1.
NamePrefixes == {<<1, 1>>, <<1, 12>>, <<2, 2>>, <<12, 12>>}

Shop == 1
Blog == 2

Counted(date, count, price, keys) ==
    [date |-> date, count |-> count, price |-> price, keys |-> "collection" :> Shop @@ keys]

\* Visits: by an agent with a version, by one without, by none, which all have
\* a platform, and one of another collection.
Visits ==
    {Counted(0, 2, 3, "item" :> 1 @@ "platform" :> 1 @@ "osFamily" :> 2 @@ "browserMajor" :> 1),
     Counted(1, 1, 0, "item" :> 2 @@ "platform" :> 1 @@ "osFamily" :> 3),
     Counted(1, 1, 2, "item" :> 2 @@ "platform" :> 2 @@ "osFamily" :> 1 @@ "browserMajor" :> 1),
     Counted(5, 3, 1, "item" :> 1 @@ "platform" :> 1 @@ "osFamily" :> 2 @@ "browserMajor" :> 2),
     Counted(5, 1, 0, "item" :> 3 @@ "platform" :> 1),
     [date |-> 0, count |-> 5, price |-> 1,
      keys |-> "collection" :> Blog @@ "item" :> 1 @@ "platform" :> 1]}

User(name, date, keys) ==
    [id |-> name, date |-> date, count |-> 1, keys |-> "user" :> name @@ keys]

Rest ==
    "user" :> {User(1, 3, "country" :> 1), User(2, 5, "country" :> 1), User(12, 4, <<>>)} @@
    "collection" :> {[id |-> n, keys |-> "name" :> Shop] : n \in 1..3} @@
    "funnel" :> {[id |-> n, keys |-> "name" :> n] : n \in 1..2} @@
    "referrer" :> {[id |-> n, count |-> n] : n \in 1..3} @@
    "recommendation" :>
        {[keys |-> "user" :> 1 @@ "collection" :> c,
          items |-> {[id |-> 2 * c + n, item |-> n, score |-> c + n] : n \in 1..2}] :
            c \in {Shop, Blog}} @@
    "similarity" :>
        {[keys |-> "item" :> n @@ "collection" :> Shop,
          items |-> {[id |-> 3 * n + m, item |-> m, score |-> n * m] : m \in 1..3}] :
            n \in 1..2}

SmallIndexes == {"count" :> visits @@ Rest : visits \in SUBSET Visits}

Is(prop, operator, value) == [prop |-> prop, operator |-> operator, value |-> value]

Major == "user_agent.browser.major"
System == "user_agent.os.family"

CountOf(filterBy, groupBy) ==
    [path |-> "count", collection |-> Shop, filterBy |-> filterBy, groupBy |-> groupBy]

\* What the count and segmentation widgets ask: dates and at most one field.
CountQueries ==
    {CountOf(None, None),
     CountOf(<<Is("item", "ne", 2), Is("date.from", "gte", 5), Is("item", "ne", 3),
               Is("date.from", "gte", 1)>>, None),
     CountOf(<<Is(Major, "eq", 1), Is("", "", 0), Is("date.to", "lte", 2)>>, <<>>),
     CountOf(None, <<"date.hour">>),
     CountOf(None, <<Major, "date.month">>),
     CountOf(<<Is(Major, "gte", 2)>>, <<"date.year", System>>)}

\* What only other callers of the API may ask: several fields.
TwoGroups == CountOf(None, <<"date.year", System, Major>>)

OtherQueries ==
    {[path |-> "sum", collection |-> Shop, filterBy |-> <<Is("date.from", "gte", 1)>>],
     [path |-> "most-viewed", collection |-> Shop, limit |-> 2],
     [path |-> "most-viewed", collection |-> Shop, limit |-> None],
     [path |-> "users", filterBy |-> <<Is("user", "contains", 1)>>, groupBy |-> None],
     [path |-> "user-count", filterBy |-> <<Is("date.from", "gte", 4)>>, groupBy |-> None],
     [path |-> "user-count", filterBy |-> None, groupBy |-> <<"country">>],
     [path |-> "user-count", filterBy |-> <<>>, groupBy |-> <<>>],
     [path |-> "collections", name |-> Shop],
     [path |-> "funnels", name |-> 2],
     [path |-> "referrers", limit |-> None],
     [path |-> "recommendations", user |-> 1, collection |-> None],
     [path |-> "similarities", items |-> {1, 2}, collection |-> Shop, limit |-> 4],
     [path |-> "similarities", items |-> {1, 2}, collection |-> None, limit |-> None]}

\* One request of any kind beside a plain one of the same or another program.
AnyBesidePlain ==
    r1 :> (CountQueries \cup OtherQueries \cup {TwoGroups}) @@
    r2 :> {CountOf(None, None), [path |-> "user-count", filterBy |-> None, groupBy |-> None]}

TwoGroupsOnly == r1 :> {TwoGroups}
==============================================================================
