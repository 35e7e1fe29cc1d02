-------------------------------- MODULE Search --------------------------------
(***************************************************************************)
(* What the serving programs ask of Elasticsearch and make of its answers  *)
(* (the directories serving of blah-count, blah-user, blah-collection,     *)
(* blah-funnel, blah-referrer, blah-recommendation and blah-similarity).   *)
(*                                                                         *)
(* A document is a record with a date, a count, a price, a score and keys: *)
(* a function from the names of the keyword fields it has to their values. *)
(* A query of a caller is a record too; its filterBy is a sequence of      *)
(* [prop, operator, value] and its groupBy a sequence of groups or None.   *)
(***************************************************************************)
EXTENDS Integers, Sequences, FiniteSets, SequencesExt, FiniteSetsExt

CONSTANTS
    None,           \* an absent option
    Width,          \* length of "hour", "day", "month" and "year"
    TermsSize,      \* buckets of a terms aggregation (100)
    HitsSize,       \* hits of a plain search (100)
    UsersSize,      \* users of a search (50)
    PrefixOf        \* pairs of values, the first a prefix of the second

ASSUME WidthAssumption ==
    \A i \in {"hour", "day", "month", "year"} : Width[i] \in Nat \ {0}
ASSUME SizesAssumption == {TermsSize, HitsSize, UsersSize} \subseteq Nat \ {0}

------------------------------------------------------------------------------
(* Sets in an order, and functions over others.                            *)

\* The elements of a set, in the order of a relation: an element has its place
\* by the number of those before it.
InOrder(S, before) ==
    [n \in 1..Cardinality(S) |->
        CHOOSE x \in S : Cardinality({y \in S : <<y, x>> \in before}) = n - 1]

\* The elements of a sequence at some positions.
AtPositions(s, positions) ==
    LET at == InOrder(positions, {p \in positions \X positions : p[1] < p[2]})
    IN  [n \in DOMAIN at |-> s[at[n]]]

\* f, and g where f has no value.
Over(f, g) ==
    [x \in DOMAIN f \cup DOMAIN g |-> IF x \in DOMAIN f THEN f[x] ELSE g[x]]

------------------------------------------------------------------------------
(* Queries.                                                                *)

OrElse(option, default) == IF option = None THEN default ELSE option

\* The fields that the count service filters and groups by, by their names in
\* the queries of its callers.
CountField ==
    [p \in {"item", "user_agent.device.family", "user_agent.browser.family",
            "user_agent.browser.major", "user_agent.os.family", "user_agent.os.major",
            "user_agent.platform"} |->
        CASE p = "item" -> "item"
          [] p = "user_agent.device.family" -> "deviceFamily"
          [] p = "user_agent.browser.family" -> "browserFamily"
          [] p = "user_agent.browser.major" -> "browserMajor"
          [] p = "user_agent.os.family" -> "osFamily"
          [] p = "user_agent.os.major" -> "osMajor"
          [] p = "user_agent.platform" -> "platform"]

CountGroup ==
    [g \in DOMAIN CountField \ {"item", "user_agent.os.major"} |-> CountField[g]]

\* The values of the filters with a property and an operator.
Filtered(filters, prop, operator) ==
    {f.value : f \in {g \in ToSet(filters) : g.prop = prop /\ g.operator = operator}}

\* The value of the last of them, if there is one: merge() overwrites.
LastFiltered(filters, prop, operator) ==
    LET at == {i \in DOMAIN filters :
                  filters[i].prop = prop /\ filters[i].operator = operator}
    IN  {filters[i].value : i \in {i \in at : \A j \in at : j <= i}}

\* A bool query: terms that a document must have, or must not have, and bounds
\* for its date.  Filters the service does not know are ignored.
DateQuery(must, mustNot, filters) ==
    [must |-> must, mustNot |-> mustNot,
     from |-> LastFiltered(filters, "date.from", "gte"),
     to |-> LastFiltered(filters, "date.to", "lte")]

\* Mutant of CountQuery: merge() overwrites the terms as it does the bounds.
CountQueryLast(q) ==
    LET filters == OrElse(q.filterBy, <<>>)
        terms(operator) ==
            UNION {{<<CountField[p], v>> : v \in LastFiltered(filters, p, operator)} :
                      p \in DOMAIN CountField}
    IN  DateQuery({<<"collection", q.collection>>} \cup terms("eq"), terms("ne"),
                  filters)

CountQuery(q) ==
    LET filters == OrElse(q.filterBy, <<>>)
        terms(operator) ==
            UNION {{<<CountField[p], v>> : v \in Filtered(filters, p, operator)} :
                      p \in DOMAIN CountField}
    IN  DateQuery({<<"collection", q.collection>>} \cup terms("eq"), terms("ne"),
                  filters)

\* A sum is filtered by dates only.
SumQuery(q) ==
    DateQuery({<<"collection", q.collection>>}, {}, OrElse(q.filterBy, <<>>))

\* Users by name, by a prefix of it and by date; no filter matches all.
UserQuery(q) ==
    LET filters == OrElse(q.filterBy, <<>>)
    IN  DateQuery({<<"user", v>> : v \in Filtered(filters, "user", "eq")} \cup
                  {<<"prefix", v>> : v \in Filtered(filters, "user", "contains")},
                  {}, filters)

\* The levels of the aggregation for groupBy, outermost first.  The histogram
\* of dates comes first whatever the order of the groups, by day if they name
\* no length, and by the last one they name.
Intervals ==
    [g \in {"date.hour", "date.month", "date.year"} |->
        CASE g = "date.hour" -> "hour"
          [] g = "date.month" -> "month"
          [] g = "date.year" -> "year"]

Interval(groups) ==
    LET named == {i \in DOMAIN groups : groups[i] \in DOMAIN Intervals}
    IN  IF named = {} THEN "day" ELSE Intervals[groups[Max(named)]]

CountLevels(groups) ==
    LET fields == AtPositions(groups, {i \in DOMAIN groups : groups[i] \in DOMAIN CountGroup})
    IN  <<[field |-> "date", width |-> Width[Interval(groups)]]>> \o
        [i \in DOMAIN fields |-> [field |-> CountGroup[fields[i]], width |-> 0]]

UserLevels(groups) ==
    LET known == {i \in DOMAIN groups : groups[i] = "country"}
    IN  [i \in 1..Cardinality(known) |-> [field |-> "country", width |-> 0]]

------------------------------------------------------------------------------
(* Elasticsearch.                                                          *)

Has(doc, term) ==
    IF term[1] = "prefix"
    THEN <<term[2], doc.keys["user"]>> \in PrefixOf
    ELSE term[1] \in DOMAIN doc.keys /\ doc.keys[term[1]] = term[2]

Match(docs, query) ==
    {d \in docs : /\ \A t \in query.must : Has(d, t)
                  /\ \A t \in query.mustNot : ~Has(d, t)
                  /\ \A v \in query.from : d.date >= v
                  /\ \A v \in query.to : d.date <= v}

Total(docs) == MapThenSumSet(LAMBDA d : d.count, docs)

\* The script of a sum, over the price, which is what the widget asks for.
Revenue(docs) == MapThenSumSet(LAMBDA d : d.price * d.count, docs)

\* The first n elements of a sequence.
Take(s, n) == SubSeq(s, 1, IF n < Len(s) THEN n ELSE Len(s))

\* Keys and their documents at one level of an aggregation: buckets of the
\* histogram without a gap, or the most frequent terms.
DocsIn(docs, level, key) ==
    IF level.field = "date"
    THEN {d \in docs : d.date - (d.date % level.width) = key}
    ELSE {d \in docs : Has(d, <<level.field, key>>)}

KeysOf(docs, level) ==
    IF level.field = "date"
    THEN LET starts == {d.date - (d.date % level.width) : d \in docs}
         IN  [i \in 1..((Max(starts) - Min(starts)) \div level.width + 1) |->
                 Min(starts) + (i - 1) * level.width]
    ELSE LET terms == {d.keys[level.field] :
                          d \in {e \in docs : level.field \in DOMAIN e.keys}}
             freq(t) == Cardinality(DocsIn(docs, level, t))
         IN  Take(InOrder(terms, {p \in terms \X terms :
                      \/ freq(p[1]) > freq(p[2])
                      \/ freq(p[1]) = freq(p[2]) /\ p[1] < p[2]}), TermsSize)

\* The buckets of one level of an aggregation; no document, no bucket.
Buckets(docs, level) ==
    IF docs = {} THEN <<>>
    ELSE LET keys == KeysOf(docs, level)
         IN  [i \in DOMAIN keys |->
                 [field |-> level.field, key |-> keys[i], docs |-> DocsIn(docs, level, keys[i])]]

------------------------------------------------------------------------------
(* Answers.                                                                *)

\* Mutant of Merged: the inner rows are lost.
MergedOuter(item, inner) == [i \in DOMAIN inner |-> item]

\* Each inner row merged into the same item: the item keeps what the rows
\* before it had.
Merged(item, inner) ==
    LET merged[i \in 0..Len(inner)] ==
            IF i = 0 THEN item ELSE Over(inner[i], merged[i - 1])
    IN  [i \in DOMAIN inner |-> merged[i]]

\* The rows of a bucket, of which the inner ones are parsed.
ParseBucket(bucket, inner) ==
    LET item == [f \in {bucket.field, "count"} |->
                    IF f = "count" THEN Total(bucket.docs) ELSE bucket.key]
    IN  IF inner = <<>> THEN <<item>> ELSE Merged(item, inner)

\* parse_aggregation: the tree of buckets as flat rows, from the innermost level.
Parse(docs, levels) ==
    LET rows[n \in 0..Len(levels)] ==
            [within \in SUBSET docs |->
                LET buckets == Buckets(within, levels[Len(levels) - n + 1])
                IN  IF n = 0 THEN <<>>
                    ELSE FlattenSeq([i \in DOMAIN buckets |->
                            ParseBucket(buckets[i], rows[n - 1][buckets[i].docs])])]
    IN  rows[Len(levels)][docs]

\* POST /count and /user-count with groups.
Grouped(docs, q) ==
    Parse(Match(docs, CountQuery(q)), CountLevels(q.groupBy))
UsersGrouped(docs, q) ==
    Parse(Match(docs, UserQuery(q)), UserLevels(q.groupBy))

\* POST /count and /user-count without groups, and /sum.
Count(docs, q) == Total(Match(docs, CountQuery(q)))
UserCount(docs, q) == Total(Match(docs, UserQuery(q)))
Sum(docs, q) == Revenue(Match(docs, SumQuery(q)))

\* POST /most-viewed: items by the sum of their counts.
MostViewed(docs, q) ==
    LET found == {d \in docs : Has(d, <<"collection", q.collection>>)}
        items == {d.keys["item"] : d \in {e \in found : "item" \in DOMAIN e.keys}}
        count(i) == Total({d \in found : Has(d, <<"item", i>>)})
        sorted == InOrder(items, {p \in items \X items :
                     \/ count(p[1]) > count(p[2])
                     \/ count(p[1]) = count(p[2]) /\ p[1] < p[2]})
        taken == IF q.limit = None THEN sorted ELSE Take(sorted, q.limit)
    IN  [n \in DOMAIN taken |-> [item |-> taken[n], count |-> count(taken[n])]]

\* Documents sorted by a field, the greatest first.
Sorted(docs, field) ==
    InOrder(docs, {p \in docs \X docs :
        \/ p[1][field] > p[2][field]
        \/ p[1][field] = p[2][field] /\ p[1].id < p[2].id})

\* POST /users and /referrers: the first documents in an order.
Users(docs, q) ==
    Take(Sorted(Match(docs, UserQuery(q)), "date"), UsersSize)
Referrers(docs, q) ==
    Take(Sorted(docs, "count"), OrElse(q.limit, HitsSize))

\* The documents of a name, of which a search without an order returns some.
Named(docs, q) == {d \in docs : Has(d, <<"name", q.name>>)}

\* POST /collections and /funnels: as many of them as a search returns.
Hits(docs) ==
    kSubset(IF Cardinality(docs) < HitsSize THEN Cardinality(docs) ELSE HitsSize, docs)

\* A term for the collection, if the caller gave one.
InCollection(docs, q) ==
    {d \in docs : q.collection = None \/ Has(d, <<"collection", q.collection>>)}

\* POST /recommendations: the items of one document of the user, best first.
Recommendations(docs, q) ==
    LET found == {d \in InCollection(docs, q) : Has(d, <<"user", q.user>>)}
    IN  IF found = {} THEN {<<>>} ELSE {Sorted(d.items, "score") : d \in found}

\* Mutant of Dedup: only equal rows are dropped.
DedupEqual(s) == AtPositions(s, {n \in DOMAIN s : n = 1 \/ s[n] # s[n - 1]})

\* dedup(): of neighbours with the same item the first one stays.
Dedup(s) == AtPositions(s, {n \in DOMAIN s : n = 1 \/ s[n].item # s[n - 1].item})

\* POST /similarities: the best similarities of any of the items, sorted by item
\* and then by score, each item once.
Similarities(docs, q) ==
    LET found == {d \in InCollection(docs, q) : d.keys["item"] \in q.items}
        top == Sorted(UNION {d.items : d \in found}, "score")
        hits == ToSet(IF q.limit = None THEN top ELSE Take(top, q.limit))
        sorted == InOrder(hits, {p \in hits \X hits :
                     \/ p[1].item > p[2].item
                     \/ p[1].item = p[2].item /\ p[1].score > p[2].score
                     \/ p[1].item = p[2].item /\ p[1].score = p[2].score /\ p[1].id < p[2].id})
        once == Dedup(sorted)
    IN  [n \in DOMAIN once |-> [item |-> once[n].item, score |-> once[n].score]]
==============================================================================
