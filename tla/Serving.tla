------------------------------- MODULE Serving -------------------------------
(***************************************************************************)
(* The serving programs (src/blah-*/serving): the process that takes a     *)
(* request, asks Elasticsearch once and answers.  They have one skeleton:  *)
(* a single thread, futures for the body of the request and the answer of  *)
(* Elasticsearch, and an unwrap() on what the answer is parsed to.         *)
(***************************************************************************)
EXTENDS Search

CONSTANTS
    Requests,       \* requests that may be under way at once
    Asks,           \* the queries that each of them may carry
    Indexes,        \* contents of Elasticsearch: documents by index
    MaxFailures     \* bound: bad bodies and answers, lost connections

\* The paths that are routed.
Paths == {"count", "sum", "most-viewed", "users", "user-count", "collections",
          "funnels", "referrers", "recommendations", "similarities"}

ASSUME FailuresAssumption == MaxFailures \in Nat

\* What the documents that Spark writes have: a date and a collection to count
\* by, and items apart from each other.  Values are numbers, for their order.
ASSUME IndexesAssumption ==
    \A i \in Indexes :
        LET items == UNION {d.items : d \in i["similarity"]}
        IN  /\ IsFiniteSet(i["count"])
            /\ \A d \in i["count"] :
                  /\ d.date \in Int
                  /\ "collection" \in DOMAIN d.keys
                  /\ \A f \in DOMAIN d.keys : d.keys[f] \in Int
            /\ IsFiniteSet(items)
            /\ \A x \in items : {x.id, x.item, x.score} \subseteq Int
            /\ \A x, y \in items : x.id = y.id => x = y

\* What a body must have to be a query: JSON lists, and limits without a sign.
ASSUME AsksAssumption ==
    \A r \in Requests : \A q \in Asks[r] :
        /\ q.path \in Paths
        /\ q.path \in {"count", "sum", "users", "user-count"} =>
              q.filterBy = None \/ q.filterBy \in Seq(ToSet(q.filterBy))
        /\ q.path = "count" => q.groupBy = None \/ q.groupBy \in Seq(ToSet(q.groupBy))
        /\ q.path = "similarities" => q.limit = None \/ q.limit \in Nat

VARIABLES
    index,          \* contents of Elasticsearch
    up,             \* the programs that run
    requests,
    failures

vars == <<index, up, requests, failures>>

\* The program, or the index, that an operation belongs to.
ServiceOf ==
    [o \in {"count", "grouped", "sum", "most-viewed", "users", "user-count",
            "user-grouped", "collections", "funnels", "referrers", "recommendations",
            "similarities"} |->
        CASE o \in {"count", "grouped", "sum", "most-viewed"} -> "count"
          [] o \in {"users", "user-count", "user-grouped"} -> "user"
          [] o = "collections" -> "collection"
          [] o = "funnels" -> "funnel"
          [] o = "referrers" -> "referrer"
          [] o = "recommendations" -> "recommendation"
          [] o = "similarities" -> "similarity"]

Services == {ServiceOf[o] : o \in DOMAIN ServiceOf}

\* The operation for a path and a query: counts are grouped when groupBy is
\* there, be it empty.
Operation(q) ==
    CASE q.path = "count" /\ q.groupBy # None -> "grouped"
      [] q.path = "user-count" /\ q.groupBy # None -> "user-grouped"
      [] OTHER -> q.path

Service(q) == ServiceOf[Operation(q)]

Idle == [stage |-> "none"]

\* A request: "body" until its body is read, "asked" until Elasticsearch has
\* answered, then "answered" or "reset".  failed: Elasticsearch answered with an
\* error (history).
TypeOK ==
    /\ index \in Indexes
    /\ up \subseteq Services
    /\ \A r \in Requests :
          \/ requests[r] = Idle
          \/ /\ requests[r].stage \in {"body", "asked", "answered", "refused", "reset"}
             /\ requests[r].query \in Asks[r]
             /\ requests[r].failed \in BOOLEAN
    /\ failures \in 0..MaxFailures

Init ==
    /\ index \in Indexes
    /\ up = Services
    /\ requests = [r \in Requests |-> Idle]
    /\ failures = 0

Failure == failures < MaxFailures /\ failures' = failures + 1

Becomes(r, stage) == requests' = [requests EXCEPT ![r].stage = stage]

------------------------------------------------------------------------------
\* What the parsed answer can be.  The order of documents without a sort is
\* Elasticsearch's choice.
Results(q) ==
    LET docs == index[Service(q)]
    IN  CASE Operation(q) = "count" -> {Count(docs, q)}
          [] Operation(q) = "grouped" -> {Grouped(docs, q)}
          [] Operation(q) = "sum" -> {Sum(docs, q)}
          [] Operation(q) = "most-viewed" -> {MostViewed(docs, q)}
          [] Operation(q) = "users" -> {Users(docs, q)}
          [] Operation(q) = "user-count" -> {UserCount(docs, q)}
          [] Operation(q) = "user-grouped" -> {UsersGrouped(docs, q)}
          [] Operation(q) = "referrers" -> {Referrers(docs, q)}
          [] Operation(q) = "recommendations" -> Recommendations(docs, q)
          [] Operation(q) = "similarities" -> {Similarities(docs, q)}
          [] OTHER -> Hits(Named(docs, q))

\* What an error of Elasticsearch in JSON is parsed to.
Empty(q) ==
    CASE Operation(q) \in {"count", "sum", "user-count"} -> 0
      [] Operation(q) \in {"collections", "funnels"} -> {}
      [] OTHER -> <<>>

\* call(): the body of the request is still to come.
Call(r, q) ==
    /\ requests[r].stage = "none"
    /\ Service(q) \in up
    /\ requests' = [requests EXCEPT ![r] =
                      [stage |-> "body", query |-> q, answer |-> Empty(q),
                       failed |-> FALSE]]
    /\ UNCHANGED <<index, up, failures>>

\* The body is no query: 400, "Invalid JSON body".
BadBody(r) ==
    /\ requests[r].stage = "body"
    /\ Failure
    /\ Becomes(r, "refused")
    /\ UNCHANGED <<index, up>>

Ask(r) ==
    /\ requests[r].stage = "body"
    /\ Becomes(r, "asked")
    /\ UNCHANGED <<index, up, failures>>

Reply(r) ==
    /\ requests[r].stage = "asked"
    /\ \E a \in Results(requests[r].query) :
          requests' = [requests EXCEPT ![r].stage = "answered", ![r].answer = a]
    /\ UNCHANGED <<index, up, failures>>

\* Elasticsearch answers with an error in JSON: the caller gets nothing found.
ReplyError(r) ==
    /\ requests[r].stage = "asked"
    /\ Failure
    /\ requests' = [requests EXCEPT ![r].stage = "answered", ![r].failed = TRUE,
                                    ![r].answer = Empty(requests[r].query)]
    /\ UNCHANGED <<index, up>>

\* It answers with something that is not JSON: a plain user count is 0, ...
GarbageCounted(r) ==
    /\ requests[r].stage = "asked"
    /\ Operation(requests[r].query) = "user-count"
    /\ Failure
    /\ requests' = [requests EXCEPT ![r].stage = "answered", ![r].failed = TRUE,
                                    ![r].answer = 0]
    /\ UNCHANGED <<index, up>>

\* ... and everything else panics: the program ends, with all its requests.
Garbage(r) ==
    /\ requests[r].stage = "asked"
    /\ Operation(requests[r].query) # "user-count"
    /\ Failure
    /\ up' = up \ {Service(requests[r].query)}
    /\ requests' = [s \in Requests |->
                      IF /\ requests[s].stage \in {"body", "asked"}
                         /\ Service(requests[s].query) = Service(requests[r].query)
                      THEN [requests[s] EXCEPT !.stage = "reset"] ELSE requests[s]]
    /\ UNCHANGED index

\* The request to Elasticsearch fails: the connection of the caller is closed.
AskFails(r) ==
    /\ requests[r].stage = "asked"
    /\ Failure
    /\ Becomes(r, "reset")
    /\ UNCHANGED <<index, up>>

\* Mutant of Leave: what belongs to the request is not dropped with it.
LeaveKeeps(r) ==
    /\ requests[r].stage # "none"
    /\ Becomes(r, "none")
    /\ UNCHANGED <<index, up, failures>>

\* The caller has its answer, or goes away before.
Leave(r) ==
    /\ requests[r].stage # "none"
    /\ requests' = [requests EXCEPT ![r] = Idle]
    /\ UNCHANGED <<index, up, failures>>

Restart(s) ==
    /\ s \notin up
    /\ up' = up \cup {s}
    /\ UNCHANGED <<index, requests, failures>>

Next ==
    \/ \E r \in Requests :
          \/ \E q \in Asks[r] : Call(r, q)
          \/ BadBody(r)
          \/ Ask(r)
          \/ Reply(r)
          \/ ReplyError(r)
          \/ GarbageCounted(r)
          \/ Garbage(r)
          \/ AskFails(r)
          \/ Leave(r)
    \/ \E s \in Services : Restart(s)

Spec == Init /\ [][Next]_vars

------------------------------------------------------------------------------
(* Properties.                                                             *)

\* A request that was answered with what Elasticsearch found.
Found(r) == requests[r].stage = "answered" /\ ~requests[r].failed

\* One filter of a caller, taken by itself: a bound for the date, which all of
\* count, sum and user have, and the terms of count and of user.
AdmitsDate(f, d) ==
    /\ f.prop = "date.from" /\ f.operator = "gte" => d.date >= f.value
    /\ f.prop = "date.to" /\ f.operator = "lte" => d.date <= f.value

Admits(f, d) ==
    /\ f.prop \in DOMAIN CountField /\ f.operator = "eq" =>
          Has(d, <<CountField[f.prop], f.value>>)
    /\ f.prop \in DOMAIN CountField /\ f.operator = "ne" =>
          ~Has(d, <<CountField[f.prop], f.value>>)
    /\ AdmitsDate(f, d)

AdmitsUser(f, d) ==
    /\ f.prop = "user" /\ f.operator = "eq" => Has(d, <<"user", f.value>>)
    /\ f.prop = "user" /\ f.operator = "contains" =>
          <<f.value, d.keys["user"]>> \in PrefixOf
    /\ AdmitsDate(f, d)

\* Of two bounds of one kind the later one counts, all other filters hold
\* together.
Overwritten(filters, i) ==
    /\ filters[i].prop \in {"date.from", "date.to"}
    /\ \E j \in DOMAIN filters :
          /\ j > i
          /\ filters[j].prop = filters[i].prop
          /\ filters[j].operator = filters[i].operator

Filters(q) == OrElse(q.filterBy, <<>>)

\* The documents that a count, a sum and a query for users are about.
Meant(q) ==
    {d \in index["count"] :
        /\ d.keys["collection"] = q.collection
        /\ \A i \in DOMAIN Filters(q) :
              Overwritten(Filters(q), i) \/ Admits(Filters(q)[i], d)}

MeantSum(q) ==
    {d \in index["count"] :
        /\ d.keys["collection"] = q.collection
        /\ \A i \in DOMAIN Filters(q) :
              Overwritten(Filters(q), i) \/ AdmitsDate(Filters(q)[i], d)}

MeantUsers(q) ==
    {d \in index["user"] :
        \A i \in DOMAIN Filters(q) :
            Overwritten(Filters(q), i) \/ AdmitsUser(Filters(q)[i], d)}

\* The documents a row of a grouped count is about.
InRow(d, row, width) ==
    \A f \in DOMAIN row \ {"count"} :
        IF f = "date" THEN d.date - (d.date % width) = row.date
        ELSE Has(d, <<f, row[f]>>)

Levels(q) == CountLevels(q.groupBy)

\* The documents that have the first field of a grouped count have them all: no
\* row lacks a key that the row before it has.
SameKeys(q) ==
    \A d \in Meant(q) : \A l \in 3..Len(Levels(q)) :
        Levels(q)[2].field \in DOMAIN d.keys => Levels(q)[l].field \in DOMAIN d.keys

RowsExact(q, rows) ==
    \A i \in DOMAIN rows :
        rows[i].count = Total({d \in Meant(q) : InRow(d, rows[i], Levels(q)[1].width)})

\* A count, plain or in a row, and a sum are those over the documents for which
\* every filter of the caller holds and which have the values of the row, though
\* filters are merged into one query and the row is put together from a tree of
\* buckets.  Grouped by several fields this takes documents with the same keys
\* (src/blah-count/serving/src/count.rs: filter_by, group_by;
\* src/blah-count/serving/src/sum.rs and src/blah-user/serving/src/repo.rs:
\* filter_by; src/blah-count/serving/src/util.rs: parse_aggregation).
CountsAreExact ==
    \A r \in Requests :
        Found(r) =>
        LET q == requests[r].query
            answer == requests[r].answer
        IN  /\ Operation(q) = "count" => answer = Total(Meant(q))
            /\ Operation(q) = "sum" => answer = Revenue(MeantSum(q))
            /\ Operation(q) = "user-count" => answer = Total(MeantUsers(q))
            /\ Operation(q) = "grouped" /\ SameKeys(q) => RowsExact(q, answer)

\* The rows of such a grouped count are apart: no document is counted in two of
\* them, and each document that has the fields is counted, unless a value of one
\* was cut off as one too many (src/blah-count/serving/src/count.rs: group_by, the
\* size of the terms).
EachCountedOnce ==
    \A r \in Requests :
        Found(r) /\ Operation(requests[r].query) = "grouped"
                 /\ SameKeys(requests[r].query) =>
        LET q == requests[r].query
            rows == requests[r].answer
            in(d) == {i \in DOMAIN rows : InRow(d, rows[i], Levels(q)[1].width)}
            all == \A l \in 2..Len(Levels(q)) :
                     Cardinality({d.keys[Levels(q)[l].field] :
                        d \in {e \in Meant(q) : Levels(q)[l].field \in DOMAIN e.keys}})
                     <= TermsSize
        IN  \A d \in Meant(q) :
              /\ Cardinality(in(d)) <= 1
              /\ all /\ (\A l \in 2..Len(Levels(q)) : Levels(q)[l].field \in DOMAIN d.keys)
                   => in(d) # {}

\* The same of any documents.  test_parse_nested_aggregation
\* (src/blah-count/serving/src/util.rs:116) expects of every row the keys of its
\* own buckets.
RowsKeepTheirKeys ==
    \A r \in Requests :
        Found(r) /\ Operation(requests[r].query) = "grouped" =>
            RowsExact(requests[r].query, requests[r].answer)

\* Similar items are found once each, with their best score, although an item
\* is similar to several of those asked for (src/blah-similarity/serving/src/
\* repo.rs: parse_elastic_response).
EachSimilarOnce ==
    \A r \in Requests :
        Found(r) /\ Operation(requests[r].query) = "similarities" =>
        LET q == requests[r].query
            answer == requests[r].answer
            nested == UNION {d.items : d \in {e \in InCollection(index["similarity"], q) :
                                               e.keys["item"] \in q.items}}
        IN  \A n \in DOMAIN answer :
              /\ \A m \in DOMAIN answer : answer[m].item = answer[n].item => m = n
              /\ \E x \in nested : x.item = answer[n].item /\ x.score = answer[n].score
              /\ \A x \in nested : x.item = answer[n].item => x.score <= answer[n].score
==============================================================================
