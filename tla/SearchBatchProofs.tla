--------------------------- MODULE SearchBatchProofs ---------------------------
(***************************************************************************)
(* The tasks of a batch, for any number of queries, any limit and any      *)
(* backends: how many run at once, what is left of them, and in which      *)
(* order each query turns to the backends.                                 *)
(***************************************************************************)
EXTENDS BatchRefinement, FiniteSetTheorems, SequenceTheorems, TLAPS

\* The type of what the two properties depend on.
Shape ==
    /\ verdict \in [Query -> {"queued", "routing", "crashed", "cancelled"} \cup Success \cup Failure]
    /\ page \in [Query -> {"none", "queued", "fetching", "read", "failed", "crashed", "cancelled"}]
    /\ stage \in {"queries", "pages", "summaries"} \cup Ended

\* No page is on its way while queries are, and a batch that is past a gather, or was
\* cancelled, has none of its tasks on the way.
Settled ==
    /\ stage = "queries" => \A q \in Query : page[q] = "none"
    /\ stage \in {"pages", "summaries", "returned", "cancelled"} =>
           \A q \in Query : verdict[q] \notin {"queued", "routing"}
    /\ stage \in {"summaries", "returned", "cancelled"} =>
           \A q \in Query : page[q] \notin {"queued", "fetching"}

IInv == Shape /\ Settled /\ NeverAboveLimit

-------------------------------------------------------------------------------
LEMMA QueriesFinite == IsFiniteSet(Query)
BY FS_Interval, SearchBatchAssumption

\* A set of queries that gains at most one member when it is below the limit stays within it.
LEMMA OneMore ==
    ASSUME NEW S \in SUBSET Query, NEW T, NEW q \in Query,
           T \subseteq S \cup {q}, Cardinality(S) < Limit
    PROVE  Cardinality(T) <= Limit
<1>1. IsFiniteSet(S) /\ Cardinality(S) \in Nat
    BY QueriesFinite, FS_Subset, FS_CardinalityType
<1>2. IsFiniteSet(S \cup {q}) /\ Cardinality(S \cup {q}) <= Cardinality(S) + 1
    BY <1>1, FS_AddElement
<1>3. IsFiniteSet(T) /\ Cardinality(T) <= Cardinality(S \cup {q})
    BY <1>2, FS_Subset
<1>4. Cardinality(T) \in Nat /\ Cardinality(S \cup {q}) \in Nat
    BY <1>2, <1>3, FS_CardinalityType
<1>5. QED
    BY <1>1, <1>2, <1>3, <1>4, SearchBatchAssumption

\* One that gains none stays within it.
LEMMA NoMore ==
    ASSUME NEW S \in SUBSET Query, NEW T, T \subseteq S, Cardinality(S) <= Limit
    PROVE  Cardinality(T) <= Limit
<1>1. IsFiniteSet(S)
    BY QueriesFinite, FS_Subset
<1>2. IsFiniteSet(T) /\ Cardinality(T) <= Cardinality(S)
    BY <1>1, FS_Subset
<1>3. Cardinality(T) \in Nat /\ Cardinality(S) \in Nat
    BY <1>1, <1>2, FS_CardinalityType
<1>4. QED
    BY <1>2, <1>3, SearchBatchAssumption

LEMMA InitIInv == Init => IInv
<1> SUFFICES ASSUME Init PROVE IInv
    OBVIOUS
<1>1. Shape /\ Settled
    BY DEF Init, RouterInit, Shape, Settled
<1>2. Searching = {} /\ Fetching = {}
    BY DEF Init, RouterInit, Searching, Fetching
<1>3. NeverAboveLimit
    BY <1>2, FS_EmptySet, SearchBatchAssumption DEF NeverAboveLimit
<1>4. QED
    BY <1>1, <1>3 DEF IInv

\* What a turn of the router does to the verdicts: a query that is routed goes on or ends.
LEMMA RouteStepVerdict ==
    ASSUME Shape, NEW q \in Query, RouteStep(q)
    PROVE  /\ verdict[q] = "routing"
           /\ verdict' \in [Query -> {"queued", "routing", "crashed", "cancelled"}
                                     \cup Success \cup Failure]
           /\ \A p \in Query \ {q} : verdict'[p] = verdict[p]
           /\ verdict'[q] \in {"routing", "crashed"} \cup Success \cup Failure
           /\ verdict'[q] # "queued"
<1>1. verdict[q] = "routing"
    BY DEF RouteStep, Skipped, Failed, Answered, AnsweredEmpty, Raised
<1>2. PICK how \in {"routing", "crashed"} \cup Success \cup Failure :
         verdict' = [verdict EXCEPT ![q] = how]
    <2>1. CASE Continue(q)
        BY <1>1, <2>1 DEF Continue, Failure, Shape
    <2>2. CASE \E how \in {"results", "filtered", "empty", "error", "crashed"} : Leave(q, how)
        BY <2>2 DEF Leave, Success, Failure
    <2>3. QED
        BY <2>1, <2>2 DEF RouteStep, Skipped, Failed, Answered, AnsweredEmpty, Raised
<1>3. how # "queued"
    BY DEF Success, Failure
<1>4. QED
    BY <1>1, <1>2, <1>3 DEF Shape

LEMMA StartQueryIInv ==
    ASSUME IInv, NEW q \in Query, StartQuery(q) PROVE IInv'
<1>1. /\ verdict[q] = "queued" /\ verdict' = [verdict EXCEPT ![q] = "routing"]
      /\ UNCHANGED <<stage, page>> /\ Cardinality(Searching) < Limit
    BY DEF StartQuery, BeginSearch
<1>2. Shape' /\ Settled'
    BY <1>1 DEF IInv, Shape, Settled
<1>3. Searching' \subseteq Searching \cup {q} /\ Searching \in SUBSET Query /\ Fetching' = Fetching
    BY <1>1 DEF IInv, Shape, Searching, Fetching
<1>4. NeverAboveLimit'
    BY <1>1, <1>3, OneMore DEF IInv, NeverAboveLimit
<1>5. QED
    BY <1>2, <1>4 DEF IInv

LEMMA RouteQueryIInv ==
    ASSUME IInv, NEW q \in Query, RouteQuery(q) PROVE IInv'
<1>1. /\ verdict[q] = "routing"
      /\ verdict' \in [Query -> {"queued", "routing", "crashed", "cancelled"}
                                \cup Success \cup Failure]
      /\ \A p \in Query \ {q} : verdict'[p] = verdict[p]
    BY RouteStepVerdict DEF IInv, RouteQuery
<1>2. stage' \in {stage, "raised"} /\ UNCHANGED page
    BY DEF RouteQuery
<1>3. stage \in {"queries", "raised"}
    BY <1>1 DEF IInv, Shape, Settled, Ended
<1>4. Shape' /\ Settled'
    BY <1>1, <1>2, <1>3 DEF IInv, Shape, Settled, Ended
<1>5. Searching' \subseteq Searching /\ Searching \in SUBSET Query /\ Fetching' = Fetching
    BY <1>1, <1>2 DEF Searching, Fetching
<1>6. NeverAboveLimit'
    BY <1>5, NoMore DEF IInv, NeverAboveLimit
<1>7. QED
    BY <1>4, <1>6 DEF IInv

\* A gather is done, and the batch goes on.
LEMMA GatheredIInv ==
    ASSUME IInv, QueriesDone \/ PagesDone \/ Summarise \/ Return PROVE IInv'
<1>1. verdict' = verdict
    BY DEF QueriesDone, PagesDone, Summarise, Return, routerVars
<1>2. ASSUME QueriesDone PROVE Shape' /\ Settled'
    <2>1. \A q \in Query : verdict[q] \in Success \cup Failure
        BY <1>2 DEF QueriesDone, Gathered
    <2>2. \A q \in Query : verdict[q] \notin {"queued", "routing"}
        BY <2>1 DEF Success, Failure
    <2>3. \A q \in Query : page[q] = "none"
        BY <1>2 DEF QueriesDone, IInv, Settled
    <2>4. \/ stage' = "summaries" /\ page' = page
          \/ stage' = "pages" /\ page' = [q \in Query |-> IF q \in Found THEN "queued" ELSE "none"]
        BY <1>2 DEF QueriesDone
    <2>5. QED
        BY <1>1, <2>2, <2>3, <2>4 DEF IInv, Shape, Settled, Ended
<1>3. ASSUME PagesDone PROVE Shape' /\ Settled'
    <2>1. \A q \in Query : page[q] \in {"none", "read", "failed"}
        BY <1>3 DEF PagesDone, Gathered
    <2>2. stage = "pages" /\ stage' = "summaries" /\ page' = page
        BY <1>3 DEF PagesDone
    <2>3. QED
        BY <1>1, <2>1, <2>2 DEF IInv, Shape, Settled, Ended
<1>4. ASSUME Summarise \/ Return PROVE Shape' /\ Settled'
    <2>1. stage = "summaries" /\ stage' \in {"summaries", "raised", "returned"} /\ page' = page
        BY <1>4 DEF Summarise, Return
    <2>2. QED
        BY <1>1, <2>1 DEF IInv, Shape, Settled, Ended
<1>5. Shape' /\ Settled'
    BY <1>2, <1>3, <1>4
<1>6. Searching' = Searching /\ Searching \in SUBSET Query
    BY <1>1 DEF Searching
<1>7. Fetching' \subseteq Fetching /\ Fetching \in SUBSET Query
    <2>1. \/ page' = page
          \/ page' = [q \in Query |-> IF q \in Found THEN "queued" ELSE "none"]
        BY DEF QueriesDone, PagesDone, Summarise, Return
    <2>2. QED
        BY <2>1 DEF Fetching
<1>8. NeverAboveLimit'
    BY <1>6, <1>7, NoMore DEF IInv, NeverAboveLimit
<1>9. QED
    BY <1>5, <1>8 DEF IInv

LEMMA FetchIInv ==
    ASSUME IInv, NEW q \in Query, StartFetch(q) \/ EndFetch(q) PROVE IInv'
<1>1. UNCHANGED verdict /\ Searching' = Searching /\ Fetching \in SUBSET Query
    BY DEF StartFetch, EndFetch, routerVars, Searching, Fetching
<1>2. CASE StartFetch(q)
    <2>1. Shape' /\ Settled'
        BY <1>1, <1>2 DEF StartFetch, IInv, Shape, Settled
    <2>2. Fetching' \subseteq Fetching \cup {q} /\ Cardinality(Fetching) < Limit
        BY <1>2 DEF StartFetch, IInv, Shape, Fetching
    <2>3. NeverAboveLimit'
        BY <1>1, <2>2, OneMore DEF IInv, NeverAboveLimit
    <2>4. QED
        BY <2>1, <2>3 DEF IInv
<1>3. CASE EndFetch(q)
    <2>1. PICK how \in {"read", "failed", "crashed"} :
             /\ page' = [page EXCEPT ![q] = how]
             /\ stage' = IF stage = "pages" /\ how = "crashed" THEN "raised" ELSE stage
        BY <1>3 DEF EndFetch
    <2>2. Shape' /\ Settled'
        BY <1>1, <1>3, <2>1 DEF EndFetch, IInv, Shape, Settled, Ended
    <2>3. Fetching' \subseteq Fetching
        BY <2>1 DEF IInv, Shape, Fetching
    <2>4. NeverAboveLimit'
        BY <1>1, <2>3, NoMore DEF IInv, NeverAboveLimit
    <2>5. QED
        BY <2>2, <2>4 DEF IInv
<1>4. QED
    BY <1>2, <1>3

LEMMA CancelBatchIInv ==
    ASSUME IInv, CancelBatch PROVE IInv'
<1>1. Shape' /\ Settled'
    BY DEF CancelBatch, IInv, Shape, Settled, Ended
<1>2. Searching' = {} /\ Fetching' = {}
    BY <1>1 DEF CancelBatch, Settled, Searching, Fetching
<1>3. NeverAboveLimit'
    BY <1>2, FS_EmptySet, SearchBatchAssumption DEF NeverAboveLimit
<1>4. QED
    BY <1>1, <1>3 DEF IInv

LEMMA NextIInv == IInv /\ [Next]_vars => IInv'
<1> SUFFICES ASSUME IInv, [Next]_vars PROVE IInv'
    OBVIOUS
<1>1. ASSUME NEW q \in Query,
             StartQuery(q) \/ RouteQuery(q) \/ StartFetch(q) \/ EndFetch(q)
      PROVE  IInv'
    BY <1>1, StartQueryIInv, RouteQueryIInv, FetchIInv
<1>2. CASE QueriesDone \/ PagesDone \/ Summarise \/ Return
    BY <1>2, GatheredIInv
<1>3. CASE CancelBatch
    BY <1>3, CancelBatchIInv
<1>4. CASE UNCHANGED vars
    BY <1>4 DEF vars, routerVars, IInv, Shape, Settled, NeverAboveLimit, Searching, Fetching
<1>5. QED
    BY <1>1, <1>2, <1>3, <1>4 DEF Next, Progress

LEMMA AlwaysIInv == Spec => []IInv
<1>1. QED
    BY InitIInv, NextIInv, PTL DEF Spec

-------------------------------------------------------------------------------
\* At most Limit tasks of a batch search or fetch at once, not even when it has raised
\* (concurrency.py, bounded_gather).
THEOREM AlwaysWithinLimit == Spec => []NeverAboveLimit
<1>1. IInv => NeverAboveLimit
    BY DEF IInv
<1>2. QED
    BY AlwaysIInv, <1>1, PTL

\* A batch that returned or was cancelled has no task running and none still to start
\* (concurrency.py, bounded_gather; pipelines.py, run_search).
THEOREM NeverATaskLeftBehind == Spec => []NoTaskLeftBehind
<1>1. IInv => NoTaskLeftBehind
    BY DEF IInv, Settled, NoTaskLeftBehind
<1>2. QED
    BY AlwaysIInv, <1>1, PTL

-------------------------------------------------------------------------------
\* The order in which a query turns to the backends.

N == Len(Backends)

\* The backends in that order.
Full == Ordered(FirstChoice)

Passed == {"skipped", "failed", "empty"}

\* A query has passed the first n backends and has not asked the others.
Reached(q, n) ==
    \A i \in 1 .. N : outcome[q][Full[i]] \in IF i <= n THEN Passed ELSE {"unasked"}

\* The types of what the two properties depend on.
RouterShape ==
    /\ order \in [Query -> Seq(Backend)]
    /\ attempted \in [Query -> Nat]
    /\ outcome \in [Query -> [Backend -> Passed \cup {"unasked", "results", "raised"}]]

\* A query that is routed has passed n backends, asking at most those, and still has the
\* others before it.
OnItsWay(q, n) ==
    /\ Len(order[q]) = N - n
    /\ \A i \in 1 .. N - n : order[q][i] = Full[n + i]
    /\ Reached(q, n)
    /\ attempted[q] <= n

Routed ==
    \A q \in Query :
        /\ verdict[q] = "queued" => Reached(q, 0) /\ attempted[q] = 0
        /\ verdict[q] = "routing" => \E n \in 0 .. N - 1 : OnItsWay(q, n)

\* Wherever its search stands, a query has passed the backends before some place and has
\* not asked those after it.
Ordering(q) ==
    \E n \in 0 .. N : \A i \in 1 .. N :
        /\ i < n => outcome[q][Full[i]] \in Passed
        /\ i > n => outcome[q][Full[i]] = "unasked"

\* A search that ends with nothing found has passed them all, and an empty answer is the
\* last one's.
NothingFound ==
    \A q \in Query :
        /\ verdict[q] \in {"empty", "unavailable"} => \A b \in Backend : outcome[q][b] \in Passed
        /\ verdict[q] = "empty" => outcome[q][Full[N]] = "empty"

RInv ==
    /\ RouterShape /\ Routed
    /\ \A q \in Query : Ordering(q)
    /\ NothingFound

-------------------------------------------------------------------------------
\* F holds every backend once.
IsAnOrder(F) ==
    /\ F \in Seq(Backend) /\ Len(F) = N
    /\ \A i, j \in 1 .. N : F[i] = F[j] => i = j
    /\ \A b \in Backend : \E i \in 1 .. N : F[i] = b

\* The others than name are in F in the deployment's order.
KeepsOrder(F, name) ==
    \A i, j \in 1 .. N :
        i < j /\ Backends[i] # name /\ Backends[j] # name =>
            \E x, y \in 1 .. N : x < y /\ F[x] = Backends[i] /\ F[y] = Backends[j]

\* The named backend first and the others in the deployment's order: every backend is
\* there, once, and none that stands before another in Backends comes after it, the named
\* one apart.
LEMMA OrderedIsAnOrder ==
    ASSUME NEW name, NEW F, F = Ordered(name)
    PROVE  /\ IsAnOrder(F)
           /\ name \in Backend => F[1] = name
           /\ KeepsOrder(F, name)
<1>1. /\ Backends \in Seq(Backend) /\ N \in Nat /\ DOMAIN Backends = 1 .. N
      /\ \A i, j \in 1 .. N : Backends[i] = Backends[j] => i = j
      /\ \A i \in 1 .. N : Backends[i] \in Backend
      /\ \A b \in Backend : \E i \in 1 .. N : Backends[i] = b
    BY SearchRouterAssumption DEF N, Backend, ToSet, IsInjective
<1>2. CASE name \notin Backend
    <2>1. F = Backends
        BY <1>2 DEF Ordered
    <2>2. QED
        BY <1>1, <1>2, <2>1 DEF IsAnOrder, KeepsOrder
<1>3. CASE name \in Backend
    <2>1. PICK k \in 1 .. N : Backends[k] = name
        BY <1>1, <1>3
    <2> DEFINE I == {i \in 1 .. Len(Backends) : Backends[i] = name}
               front == SubSeq(Backends, 1, k - 1)
               rest == SubSeq(Backends, k + 1, Len(Backends))
    <2>2. I = {k}
        BY <1>1, <2>1 DEF N
    <2>3. SelectInSeq(Backends, LAMBDA v : v = name) = k
        <3>1. SelectInSeq(Backends, LAMBDA v : v = name) = CHOOSE x \in I : \A y \in I : x <= y
            BY <2>2 DEF SelectInSeq, Min
        <3> HIDE DEF I
        <3>2. QED
            BY <2>1, <2>2, <3>1
    <2>4. RemoveFirst(Backends, name) = front \o rest
        BY <2>1, <2>3 DEF RemoveFirst, RemoveAt, N
    <2>5. /\ front \in Seq(Backend) /\ Len(front) = k - 1
          /\ \A i \in 1 .. k - 1 : front[i] = Backends[i]
        BY <1>1, <2>1 DEF N
    <2>6. /\ rest \in Seq(Backend) /\ Len(rest) = N - k
          /\ \A i \in 1 .. N - k : rest[i] = Backends[k + i]
        <3>1. /\ k + 1 \in Int /\ N \in Int /\ N - (k + 1) + 1 = N - k
              /\ N - k = IF k + 1 <= N THEN N - (k + 1) + 1 ELSE 0
            BY <1>1, <2>1
        <3>2. \A i \in k + 1 .. N : Backends[i] \in Backend
            BY <1>1, <2>1
        <3>3. rest = SubSeq(Backends, k + 1, N)
            BY DEF N
        <3> HIDE DEF rest
        <3>4. /\ rest \in Seq(Backend)
              /\ Len(rest) = IF k + 1 <= N THEN N - (k + 1) + 1 ELSE 0
              /\ \A i \in 1 .. N - (k + 1) + 1 : rest[i] = Backends[(k + 1) + i - 1]
            BY <3>1, <3>2, <3>3, SubSeqProperties
        <3>5. \A i \in 1 .. N - k : (k + 1) + i - 1 = k + i
            BY <1>1, <2>1
        <3>6. QED
            BY <3>1, <3>4, <3>5
    <2> HIDE DEF front, rest
    <2>7. /\ front \o rest \in Seq(Backend) /\ Len(front \o rest) = N - 1
          /\ \A i \in 1 .. k - 1 : (front \o rest)[i] = Backends[i]
          /\ \A i \in k .. N - 1 : (front \o rest)[i] = Backends[i + 1]
        <3>1. front \o rest \in Seq(Backend) /\ Len(front \o rest) = N - 1
            BY <1>1, <2>1, <2>5, <2>6
        <3>2. \A i \in 1 .. k - 1 : (front \o rest)[i] = Backends[i]
            BY <1>1, <2>1, <2>5, <2>6
        <3>3. \A i \in k .. N - 1 : (front \o rest)[i] = rest[i - (k - 1)]
            BY <1>1, <2>1, <2>5, <2>6
        <3>4. \A i \in k .. N - 1 : i - (k - 1) \in 1 .. N - k /\ k + (i - (k - 1)) = i + 1
            BY <1>1, <2>1
        <3>5. QED
            BY <2>6, <3>1, <3>2, <3>3, <3>4
    <2>8. F = <<name>> \o (front \o rest)
        BY <1>3, <2>4 DEF Ordered
    <2> DEFINE others == front \o rest
    <2> HIDE DEF others
    <2>9. /\ F \in Seq(Backend) /\ Len(F) = N /\ F[1] = name
          /\ \A i \in 2 .. N : F[i] = others[i - 1]
        <3>1. others \in Seq(Backend) /\ Len(others) = N - 1 /\ <<name>> \in Seq(Backend)
            BY <1>3, <2>7 DEF others
        <3>2. F = <<name>> \o others
            BY <2>8 DEF others
        <3>3. F \in Seq(Backend) /\ Len(F) = N
            BY <1>1, <3>1, <3>2
        <3>4. F[1] = name /\ \A i \in 2 .. N : F[i] = others[i - 1]
            BY <1>1, <3>1, <3>2
        <3>5. QED
            BY <3>3, <3>4
    <2> DEFINE at(m) == IF m = k THEN 1 ELSE IF m < k THEN m + 1 ELSE m
               from(i) == IF i = 1 THEN k ELSE IF i <= k THEN i - 1 ELSE i
    <2>10. \A i \in 1 .. N : from(i) \in 1 .. N /\ F[i] = Backends[from(i)]
        <3>1. ASSUME NEW i \in 2 .. N
              PROVE  others[i - 1] = Backends[from(i)]
            <4>1. CASE i <= k
                <5>1. i - 1 \in 1 .. k - 1 /\ i # 1
                    BY <1>1, <2>1, <4>1
                <5>2. others[i - 1] = Backends[i - 1]
                    BY <2>7, <5>1 DEF others
                <5>3. QED
                    BY <4>1, <5>1, <5>2
            <4>2. CASE i > k
                <5>1. i - 1 \in k .. N - 1 /\ (i - 1) + 1 = i
                    BY <1>1, <2>1, <4>2
                <5>2. others[i - 1] = Backends[i]
                    BY <2>7, <5>1 DEF others
                <5>3. QED
                    BY <2>1, <4>2, <5>2
            <4>3. QED
                BY <1>1, <2>1, <4>1, <4>2
        <3>2. \A i \in 1 .. N : from(i) \in 1 .. N
            BY <1>1, <2>1
        <3>3. QED
            BY <1>1, <2>1, <2>9, <3>1, <3>2
    <2>11. \A m \in 1 .. N : at(m) \in 1 .. N /\ from(at(m)) = m
        BY <1>1, <2>1
    <2>12. \A i, j \in 1 .. N : from(i) = from(j) => i = j
        BY <1>1, <2>1
    <2>13. \A i, j \in 1 .. N : i < j /\ i # k /\ j # k => at(i) < at(j)
        BY <1>1, <2>1
    <2> HIDE DEF at, from
    <2>14. \A i, j \in 1 .. N : F[i] = F[j] => i = j
        BY <1>1, <2>10, <2>12
    <2>15. \A m \in 1 .. N : F[at(m)] = Backends[m]
        BY <2>10, <2>11
    <2>16. \A b \in Backend : \E i \in 1 .. N : F[i] = b
        BY <1>1, <2>11, <2>15
    <2>17. KeepsOrder(F, name)
        BY <2>1, <2>11, <2>13, <2>15 DEF KeepsOrder
    <2>18. QED
        BY <2>9, <2>14, <2>16, <2>17 DEF IsAnOrder
<1>4. QED
    BY <1>2, <1>3

\* What follows of it for the order every query takes.
LEMMA FullIsAnOrder ==
    /\ N \in Nat \ {0}
    /\ Full \in Seq(Backend) /\ Len(Full) = N
    /\ \A i \in 1 .. N : Full[i] \in Backend
    /\ \A i, j \in 1 .. N : Full[i] = Full[j] => i = j
    /\ \A b \in Backend : \E i \in 1 .. N : Full[i] = b
<1>1. N \in Nat \ {0}
    BY SearchRouterAssumption DEF N
<1>2. IsAnOrder(Full)
    BY OrderedIsAnOrder DEF Full
<1>3. QED
    BY <1>1, <1>2 DEF IsAnOrder

LEMMA InitRInv == Init => RInv
<1> SUFFICES ASSUME Init PROVE RInv
    OBVIOUS
<1>1. \A q \in Query : /\ verdict[q] = "queued" /\ attempted[q] = 0
                       /\ \A b \in Backend : outcome[q][b] = "unasked"
    BY DEF Init, RouterInit
<1>2. RouterShape
    BY DEF Init, RouterInit, RouterShape
<1>3. \A q \in Query : Reached(q, 0)
    BY <1>1, FullIsAnOrder DEF Reached
<1>4. Routed
    BY <1>1, <1>3 DEF Routed
<1>5. \A q \in Query : Ordering(q)
    <2>1. 0 \in 0 .. N
        BY FullIsAnOrder
    <2>2. QED
        BY <1>1, <2>1, FullIsAnOrder DEF Ordering
<1>6. NothingFound
    BY <1>1 DEF NothingFound
<1>7. QED
    BY <1>2, <1>4, <1>5, <1>6 DEF RInv

\* What is true of a query stays true of it as long as nothing of it changes.
LEMMA OthersStay ==
    ASSUME RInv, UNCHANGED <<preferred>>, NEW p \in Query,
           verdict'[p] = verdict[p], order'[p] = order[p], attempted'[p] = attempted[p],
           outcome'[p] = outcome[p]
    PROVE  /\ verdict'[p] = "queued" => Reached(p, 0)' /\ attempted'[p] = 0
           /\ verdict'[p] = "routing" => \E n \in 0 .. N - 1 : OnItsWay(p, n)'
           /\ Ordering(p)'
<1>1. Full' = Full
    BY DEF Full, Ordered, FirstChoice
<1>2. \A n : Reached(p, n)' <=> Reached(p, n)
    BY <1>1 DEF Reached
<1>3. \A n : OnItsWay(p, n)' <=> OnItsWay(p, n)
    BY <1>1, <1>2 DEF OnItsWay
<1>4. Ordering(p)'
    BY <1>1 DEF RInv, Ordering
<1>5. QED
    BY <1>2, <1>3, <1>4 DEF RInv, Routed

\* A query begins with every backend before it.
LEMMA StartQueryRInv ==
    ASSUME IInv, RInv, NEW q \in Query, StartQuery(q)
    PROVE  RInv'
<1>1. /\ verdict \in [Query -> {"queued", "routing", "crashed", "cancelled"} \cup Success \cup Failure]
      /\ verdict[q] = "queued" /\ verdict' = [verdict EXCEPT ![q] = "routing"]
      /\ order' = [order EXCEPT ![q] = Full]
      /\ UNCHANGED <<preferred, attempted, outcome>>
      /\ RouterShape /\ Routed /\ NothingFound
    BY DEF StartQuery, BeginSearch, Full, FirstChoice, IInv, Shape, RInv
<1>2. Full' = Full
    BY <1>1 DEF Full, Ordered, FirstChoice
<1>3. RouterShape'
    BY <1>1, FullIsAnOrder DEF RouterShape
<1>4. order'[q] = Full /\ verdict'[q] = "routing"
    BY <1>1 DEF RouterShape
<1>5. OnItsWay(q, 0)'
    <2>1. Reached(q, 0) /\ attempted[q] = 0
        BY <1>1 DEF Routed
    <2>2. Reached(q, 0)'
        BY <1>1, <1>2, <2>1 DEF Reached
    <2>3. \A i \in 1 .. N - 0 : order'[q][i] = Full'[0 + i]
        BY <1>2, <1>4
    <2>4. Len(order'[q]) = N - 0
        BY <1>4, FullIsAnOrder
    <2>5. QED
        BY <1>1, <2>1, <2>2, <2>3, <2>4 DEF OnItsWay
<1>6. 0 \in 0 .. N - 1
    BY FullIsAnOrder
<1>7. \A p \in Query \ {q} : verdict'[p] = verdict[p] /\ order'[p] = order[p]
    BY <1>1 DEF RouterShape
<1>8. Routed'
    BY <1>1, <1>4, <1>5, <1>6, <1>7, OthersStay DEF Routed
<1>9. \A p \in Query : Ordering(p)'
    BY <1>1, <1>2 DEF RInv, Ordering
<1>10. NothingFound'
    <2>1. \A p \in Query : verdict'[p] \in {"empty", "unavailable"} =>
                              verdict'[p] = verdict[p] /\ outcome'[p] = outcome[p]
        BY <1>1, <1>4
    <2>2. QED
        BY <1>1, <1>2, <2>1 DEF NothingFound
<1>11. QED
    BY <1>3, <1>8, <1>9, <1>10 DEF RInv

\* What the turn of the router for a query is: the backend it has reached is noted, and the
\* query goes on to the next one or its search ends.
LEMMA RouteStepKinds ==
    ASSUME RouterShape, NEW q \in Query, RouteStep(q)
    PROVE  /\ UNCHANGED preferred
           /\ \E w \in Passed \cup {"results", "raised"} :
                 /\ Note(q, w)
                 /\ \/ /\ w \in Passed /\ Continue(q)
                       /\ attempted' = [attempted EXCEPT ![q] = IF w = "skipped" THEN @ ELSE @ + 1]
                    \/ /\ w = "empty" /\ Leave(q, "empty")
                       /\ attempted' = [attempted EXCEPT ![q] = @ + 1]
                       /\ ~(attempted[q] + 1 < N)
                    \/ /\ \E how \in {"results", "filtered", "error", "crashed"} : Leave(q, how)
                       /\ \E more \in Nat : attempted' = [attempted EXCEPT ![q] = more]
<1>1. attempted \in [Query -> Nat] /\ attempted[q] \in Nat
    BY DEF RouterShape
<1>2. UNCHANGED preferred
    BY DEF RouteStep, Skipped, Failed, Answered, AnsweredEmpty, Raised
<1>3. CASE Skipped(q)
    <2>1. attempted' = [attempted EXCEPT ![q] = IF "skipped" = "skipped" THEN @ ELSE @ + 1]
        BY <1>1, <1>3 DEF Skipped
    <2>2. Note(q, "skipped") /\ Continue(q)
        BY <1>3 DEF Skipped
    <2>3. QED
        BY <1>2, <2>1, <2>2 DEF Passed
<1>4. CASE Failed(q)
    BY <1>2, <1>4 DEF Failed, Passed
<1>5. CASE Answered(q)
    <2>1. attempted[q] + 1 \in Nat /\ attempted' = [attempted EXCEPT ![q] = attempted[q] + 1]
        BY <1>1, <1>5 DEF Answered
    <2>2. QED
        BY <1>2, <1>5, <2>1 DEF Answered
<1>6. CASE AnsweredEmpty(q)
    <2>1. attempted' = [attempted EXCEPT ![q] = @ + 1] /\ attempted'[q] = attempted[q] + 1
        BY <1>1, <1>6 DEF AnsweredEmpty
    <2>2. QED
        BY <1>2, <1>6, <2>1 DEF AnsweredEmpty, Passed, N
<1>7. CASE Raised(q)
    <2>1. attempted' = [attempted EXCEPT ![q] = attempted[q]]
        BY <1>1, <1>7 DEF Raised
    <2>2. QED
        BY <1>1, <1>2, <1>7, <2>1 DEF Raised
<1>8. QED
    BY <1>3, <1>4, <1>5, <1>6, <1>7 DEF RouteStep

\* A turn of the router passes the backend the query has reached, or ends the search there.
LEMMA RouteQueryRInv ==
    ASSUME IInv, RInv, NEW q \in Query, RouteQuery(q)
    PROVE  RInv'
<1>1. /\ RouterShape /\ Routed /\ NothingFound /\ Shape /\ RouteStep(q)
      /\ verdict[q] = "routing"
    BY RouteStepVerdict DEF IInv, RInv, RouteQuery
<1>2. PICK n \in 0 .. N - 1 : OnItsWay(q, n)
    BY <1>1 DEF Routed
<1>3. UNCHANGED preferred /\ Full' = Full
    BY <1>1, RouteStepKinds DEF Full, Ordered, FirstChoice
<1> DEFINE cur == Full[n + 1]
<1>4. /\ order[q] \in Seq(Backend) /\ Len(order[q]) = N - n /\ Len(order[q]) >= 1
      /\ n + 1 \in 1 .. N /\ n \in Nat /\ cur \in Backend /\ Current(q) = cur
    <2>1. n + 1 \in 1 .. N /\ n \in Nat /\ N - n >= 1 /\ 1 \in 1 .. N - n
        BY FullIsAnOrder
    <2>2. order[q] \in Seq(Backend) /\ Len(order[q]) = N - n /\ order[q][1] = cur
        BY <1>1, <1>2, <2>1 DEF RouterShape, OnItsWay
    <2>3. Head(order[q]) = order[q][1]
        BY <2>1, <2>2
    <2>4. QED
        BY <2>1, <2>2, <2>3, FullIsAnOrder DEF Current
<1> HIDE DEF cur
<1>5. PICK w \in Passed \cup {"results", "raised"} :
         /\ outcome' = [outcome EXCEPT ![q][cur] = w]
         /\ \/ /\ w \in Passed /\ Continue(q)
               /\ attempted' = [attempted EXCEPT ![q] = IF w = "skipped" THEN @ ELSE @ + 1]
            \/ /\ w = "empty" /\ Leave(q, "empty")
               /\ attempted' = [attempted EXCEPT ![q] = @ + 1]
               /\ ~(attempted[q] + 1 < N)
            \/ /\ \E how \in {"results", "filtered", "error", "crashed"} : Leave(q, how)
               /\ \E more \in Nat : attempted' = [attempted EXCEPT ![q] = more]
    BY <1>1, <1>4, RouteStepKinds DEF Note
<1>6. /\ \A b \in Backend : outcome'[q][b] = IF b = cur THEN w ELSE outcome[q][b]
      /\ \A p \in Query \ {q} : outcome'[p] = outcome[p]
      /\ outcome' \in [Query -> [Backend -> Passed \cup {"unasked", "results", "raised"}]]
    BY <1>1, <1>4, <1>5 DEF RouterShape
<1>7. \A i \in 1 .. N : outcome'[q][Full[i]] = IF i = n + 1 THEN w ELSE outcome[q][Full[i]]
    BY <1>4, <1>6, FullIsAnOrder DEF cur
<1>8. \A i \in 1 .. N : /\ i <= n => outcome[q][Full[i]] \in Passed
                        /\ i > n => outcome[q][Full[i]] = "unasked"
    BY <1>2, <1>4 DEF OnItsWay, Reached
<1>9. \A p \in Query \ {q} : verdict'[p] = verdict[p] /\ order'[p] = order[p] /\ attempted'[p] = attempted[p]
    BY <1>1, <1>5 DEF Continue, Leave, RouterShape, Shape
<1>10. RouterShape'
    <2>1. attempted' \in [Query -> Nat]
        BY <1>1, <1>5 DEF RouterShape
    <2>2. Tail(order[q]) \in Seq(Backend)
        BY <1>4
    <2>3. order' \in [Query -> Seq(Backend)]
        <3>1. <<>> \in Seq(Backend) /\ order \in [Query -> Seq(Backend)]
            BY <1>1 DEF RouterShape
        <3>2. order' = [order EXCEPT ![q] = Tail(@)] \/ order' = [order EXCEPT ![q] = <<>>]
            BY <1>5 DEF Continue, Leave
        <3>3. QED
            BY <2>2, <3>1, <3>2
    <2>4. QED
        BY <1>6, <2>1, <2>3 DEF RouterShape
<1>11. Ordering(q)'
    <2>1. n + 1 \in 0 .. N
        BY <1>4
    <2>2. \A i \in 1 .. N : /\ i < n + 1 => outcome'[q][Full[i]] \in Passed
                            /\ i > n + 1 => outcome'[q][Full[i]] = "unasked"
        BY <1>4, <1>7, <1>8
    <2>3. QED
        BY <1>3, <2>1, <2>2 DEF Ordering
<1>12. attempted[q] \in Nat /\ attempted[q] <= n
    BY <1>1, <1>2 DEF OnItsWay, RouterShape
<1> DEFINE Mine ==
        /\ verdict'[q] # "queued"
        /\ verdict'[q] = "routing" => \E m \in 0 .. N - 1 : OnItsWay(q, m)'
        /\ verdict'[q] \in {"empty", "unavailable"} => \A b \in Backend : outcome'[q][b] \in Passed
        /\ verdict'[q] = "empty" => outcome'[q][Full[N]] = "empty"
<1>13. ASSUME /\ w \in Passed /\ Continue(q)
              /\ attempted' = [attempted EXCEPT ![q] = IF w = "skipped" THEN @ ELSE @ + 1]
       PROVE  Mine
    <2>1. \A i \in 1 .. N : /\ i <= n + 1 => outcome'[q][Full[i]] \in Passed
                            /\ i > n + 1 => outcome'[q][Full[i]] = "unasked"
        BY <1>4, <1>7, <1>8, <1>13
    <2>2. CASE Len(order[q]) = 1
        <3>1. verdict'[q] = "unavailable"
            BY <1>1, <1>13, <2>2 DEF Continue, Shape
        <3>2. n + 1 = N
            <4>1. N - n = 1 /\ N \in Nat /\ n \in Nat
                BY <1>4, <2>2, FullIsAnOrder
            <4>2. QED
                BY <4>1
        <3>3. \A b \in Backend : outcome'[q][b] \in Passed
            BY <2>1, <3>2, FullIsAnOrder
        <3>4. QED
            BY <3>1, <3>3
    <2>3. CASE Len(order[q]) # 1
        <3>1. verdict'[q] = "routing" /\ order'[q] = Tail(order[q])
            BY <1>1, <1>13, <2>3 DEF Continue, Shape, RouterShape
        <3>2. n + 1 \in 0 .. N - 1
            BY <1>4, <2>3, FullIsAnOrder
        <3>3. Len(order'[q]) = N - (n + 1)
            BY <1>4, <3>1, FullIsAnOrder
        <3>4. \A i \in 1 .. N - (n + 1) : order'[q][i] = Full[(n + 1) + i]
            <4>1. SUFFICES ASSUME NEW i \in 1 .. N - (n + 1)
                           PROVE  order'[q][i] = Full[(n + 1) + i]
                OBVIOUS
            <4>2. i \in Int /\ i + 1 \in 1 .. N - n /\ n + (i + 1) = (n + 1) + i
                BY <1>4, FullIsAnOrder
            <4>3. Tail(order[q])[i] = order[q][i + 1]
                BY <1>4, <4>2, FullIsAnOrder
            <4>4. order[q][i + 1] = Full[n + (i + 1)]
                BY <1>2, <4>2 DEF OnItsWay
            <4>5. QED
                BY <3>1, <4>2, <4>3, <4>4
        <3>5. Reached(q, n + 1)'
            BY <1>3, <1>4, <2>1 DEF Reached
        <3>6. attempted'[q] = IF w = "skipped" THEN attempted[q] ELSE attempted[q] + 1
            BY <1>1, <1>13 DEF RouterShape
        <3>7. attempted'[q] <= n + 1
            BY <1>4, <1>12, <3>6
        <3>8. OnItsWay(q, n + 1)'
            BY <1>3, <3>3, <3>4, <3>5, <3>7 DEF OnItsWay
        <3>9. QED
            BY <3>1, <3>2, <3>8
    <2>4. QED
        BY <2>2, <2>3
<1>14. ASSUME w = "empty", Leave(q, "empty"), ~(attempted[q] + 1 < N)
       PROVE  Mine
    <2>1. verdict'[q] = "empty"
        BY <1>1, <1>14 DEF Leave, Shape
    <2>2. n + 1 = N /\ attempted[q] = n
        BY <1>4, <1>12, <1>14, FullIsAnOrder
    <2>3. \A i \in 1 .. N : outcome'[q][Full[i]] \in Passed
        BY <1>4, <1>7, <1>8, <1>14, <2>2 DEF Passed
    <2>4. outcome'[q][Full[N]] = "empty"
        BY <1>4, <1>7, <1>14, <2>2
    <2>5. QED
        BY <2>1, <2>3, <2>4, FullIsAnOrder
<1>15. ASSUME NEW how \in {"results", "filtered", "error", "crashed"}, Leave(q, how)
       PROVE  Mine
    <2>1. verdict'[q] \in {"results", "filtered", "error", "crashed"}
        BY <1>1, <1>15 DEF Leave, Shape
    <2>2. QED
        BY <2>1
<1>16. Mine
    BY <1>5, <1>13, <1>14, <1>15
<1> HIDE DEF Mine
<1>17. Routed'
    BY <1>3, <1>6, <1>9, <1>16, OthersStay DEF Routed, Mine
<1>18. \A p \in Query : Ordering(p)'
    BY <1>3, <1>6, <1>9, <1>11, OthersStay
<1>19. NothingFound'
    <2>1. \A p \in Query \ {q} :
             /\ verdict'[p] \in {"empty", "unavailable"} =>
                    \A b \in Backend : outcome'[p][b] \in Passed
             /\ verdict'[p] = "empty" => outcome'[p][Full[N]] = "empty"
        BY <1>1, <1>6, <1>9 DEF NothingFound
    <2>2. QED
        BY <1>3, <1>16, <2>1 DEF NothingFound, Mine
<1>20. QED
    BY <1>10, <1>17, <1>18, <1>19 DEF RInv

\* A cancelled batch ends the searches where they stand.
LEMMA CancelBatchRInv ==
    ASSUME IInv, RInv, CancelBatch
    PROVE  RInv'
<1>1. /\ UNCHANGED <<preferred, order, attempted, outcome>>
      /\ verdict' = [q \in Query |->
                        IF verdict[q] \in {"queued", "routing"} THEN "cancelled" ELSE verdict[q]]
    BY DEF CancelBatch
<1>2. Full' = Full
    BY <1>1 DEF Full, Ordered, FirstChoice
<1>3. \A q \in Query : /\ verdict'[q] \notin {"queued", "routing"}
                       /\ verdict'[q] \in {verdict[q], "cancelled"}
    BY <1>1
<1>4. RouterShape' /\ Routed' /\ \A q \in Query : Ordering(q)'
    BY <1>1, <1>2, <1>3 DEF RInv, RouterShape, Routed, Ordering
<1>5. NothingFound'
    <2>1. \A q \in Query : verdict'[q] \in {"empty", "unavailable"} => verdict'[q] = verdict[q]
        BY <1>3
    <2>2. QED
        BY <1>1, <1>2, <2>1 DEF RInv, NothingFound
<1>6. QED
    BY <1>4, <1>5 DEF RInv

LEMMA NextRInv ==
    ASSUME IInv, RInv, [Next]_vars
    PROVE  RInv'
<1>1. ASSUME NEW q \in Query, StartQuery(q) \/ RouteQuery(q)
      PROVE  RInv'
    BY <1>1, StartQueryRInv, RouteQueryRInv
<1>2. CASE CancelBatch
    BY <1>2, CancelBatchRInv
<1>3. CASE UNCHANGED routerVars
    <2>1. Full' = Full
        BY <1>3 DEF Full, Ordered, FirstChoice, routerVars
    <2>2. RouterShape' /\ NothingFound' /\ \A q \in Query : Ordering(q)'
        BY <1>3, <2>1 DEF RInv, RouterShape, NothingFound, Ordering, routerVars
    <2>3. Routed'
        BY <1>3, OthersStay DEF RInv, Routed, routerVars
    <2>4. QED
        BY <2>2, <2>3 DEF RInv
<1>4. QED
    BY <1>1, <1>2, <1>3
       DEF Next, Progress, StartFetch, EndFetch, QueriesDone, PagesDone, Summarise, Return, vars

LEMMA AlwaysRInv == Spec => []RInv
<1>1. IInv /\ RInv /\ [Next]_vars => RInv'
    BY NextRInv
<1>2. QED
    BY <1>1, InitRInv, AlwaysIInv, PTL DEF Spec

-------------------------------------------------------------------------------
\* Whoever stands before another backend comes earlier in the order of every query.
LEMMA BeforeIsEarlier ==
    ASSUME NEW b \in Backend, NEW c \in Backend, b # c, Before(b, c)
    PROVE  \E i, j \in 1 .. N : i < j /\ Full[i] = b /\ Full[j] = c
<1>1. CASE FirstChoice \in {b, c}
    <2>1. b = FirstChoice /\ Full[1] = b
        BY <1>1, OrderedIsAnOrder DEF Before, Full
    <2>2. PICK j \in 1 .. N : Full[j] = c
        BY FullIsAnOrder
    <2>3. j # 1 /\ 1 \in 1 .. N
        BY <2>1, <2>2, FullIsAnOrder
    <2>4. 1 < j
        BY <2>2, <2>3
    <2>5. QED
        BY <2>1, <2>2, <2>3, <2>4
<1>2. CASE FirstChoice \notin {b, c}
    <2>1. PICK i, j \in DOMAIN Backends : i < j /\ Backends[i] = b /\ Backends[j] = c
        BY <1>2 DEF Before
    <2>2. DOMAIN Backends = 1 .. N
        BY SearchRouterAssumption DEF N
    <2>3. KeepsOrder(Full, FirstChoice)
        BY OrderedIsAnOrder DEF Full
    <2>4. i \in 1 .. N /\ j \in 1 .. N /\ Backends[i] # FirstChoice /\ Backends[j] # FirstChoice
        BY <1>2, <2>1, <2>2
    <2>5. QED
        BY <2>1, <2>3, <2>4 DEF KeepsOrder
<1>3. QED
    BY <1>1, <1>2

\* A backend is left alone until every backend before it, in the order this person and this
\* deployment chose, was skipped, failed or had nothing (router.py, search and _ordered).
THEOREM AlwaysFirstResultsWin == Spec => []FirstResultsWin
<1>1. ASSUME RInv, NEW q \in Query, NEW b \in Backend, NEW c \in Backend,
             b # c, Before(b, c), outcome[q][c] # "unasked"
      PROVE  outcome[q][b] \in {"skipped", "failed", "empty"}
    <2>1. PICK n \in 0 .. N : \A i \in 1 .. N :
              /\ i < n => outcome[q][Full[i]] \in Passed
              /\ i > n => outcome[q][Full[i]] = "unasked"
        BY <1>1 DEF RInv, Ordering
    <2>2. PICK i, j \in 1 .. N : i < j /\ Full[i] = b /\ Full[j] = c
        BY <1>1, BeforeIsEarlier
    <2>3. ~(j > n)
        BY <1>1, <2>1, <2>2
    <2>4. i < n
        BY <2>2, <2>3, FullIsAnOrder
    <2>5. QED
        BY <2>1, <2>2, <2>4 DEF Passed
<1>2. RInv => FirstResultsWin
    BY <1>1 DEF FirstResultsWin
<1>3. QED
    BY <1>2, AlwaysRInv, PTL

\* Of two backends one is before the other.
LEMMA OneIsBefore ==
    ASSUME NEW b \in Backend, NEW c \in Backend, b # c
    PROVE  Before(b, c) \/ Before(c, b)
<1>1. CASE FirstChoice \in {b, c}
    BY <1>1 DEF Before
<1>2. CASE FirstChoice \notin {b, c}
    <2>1. /\ N \in Nat /\ DOMAIN Backends = 1 .. N
          /\ \A d \in Backend : \E i \in 1 .. N : Backends[i] = d
        BY SearchRouterAssumption DEF N, Backend, ToSet
    <2>2. PICK i \in 1 .. N : Backends[i] = b
        BY <2>1
    <2>3. PICK j \in 1 .. N : Backends[j] = c
        BY <2>1
    <2>4. i < j \/ j < i
        BY <2>1, <2>2, <2>3
    <2>5. QED
        BY <1>2, <2>1, <2>2, <2>3, <2>4 DEF Before
<1>3. QED
    BY <1>1, <1>2

\* Every other backend is before the one at the end of the order.
LEMMA AllBeforeTheLast ==
    ASSUME NEW c \in Backend, c # Full[N]
    PROVE  Before(c, Full[N])
<1>1. N \in 1 .. N /\ Full[N] \in Backend
    BY FullIsAnOrder
<1>2. SUFFICES ASSUME Before(Full[N], c) PROVE FALSE
    BY <1>1, OneIsBefore
<1>3. PICK i, j \in 1 .. N : i < j /\ Full[i] = Full[N] /\ Full[j] = c
    BY <1>1, <1>2, BeforeIsEarlier
<1>4. i = N
    BY <1>1, <1>3, FullIsAnOrder
<1>5. QED
    BY <1>1, <1>3, <1>4

\* Nothing found ends a search only when every backend was skipped, failed or had nothing, and
\* an empty answer is that of the last in the order (router.py, search).
THEOREM AlwaysAllTriedWhenNothingFound == Spec => []NothingFoundOnlyWhenAllTried
<1>1. RInv => NothingFoundOnlyWhenAllTried
    <2>1. ASSUME RInv, NEW q \in Query, verdict[q] \in {"empty", "unavailable"}
          PROVE  \A b \in Backend : outcome[q][b] \in {"skipped", "failed", "empty"}
        BY <2>1 DEF RInv, NothingFound, Passed
    <2>2. ASSUME RInv, NEW q \in Query, verdict[q] = "empty"
          PROVE  \E b \in Backend : /\ outcome[q][b] = "empty"
                                    /\ \A c \in Backend \ {b} : Before(c, b)
        <3>1. Full[N] \in Backend
            BY FullIsAnOrder
        <3>2. outcome[q][Full[N]] = "empty"
            BY <2>2 DEF RInv, NothingFound
        <3>3. \A c \in Backend \ {Full[N]} : Before(c, Full[N])
            BY AllBeforeTheLast
        <3>4. QED
            BY <3>1, <3>2, <3>3
    <2>3. QED
        BY <2>1, <2>2 DEF NothingFoundOnlyWhenAllTried
<1>2. QED
    BY <1>1, AlwaysRInv, PTL

-------------------------------------------------------------------------------
\* Each call of bounded_gather, as its abstract specification has it.

\* What the stage of a batch tells about its tasks: none has raised or was cancelled while
\* their call runs, all have their results when it returns, and an exception of a task is
\* what a batch raises, unless its queries and its pages are done.
Told ==
    /\ stage = "queries" => \A q \in Query : verdict[q] \notin {"crashed", "cancelled"}
    /\ stage = "pages" => \A q \in Query : page[q] \notin {"crashed", "cancelled"}
    /\ stage = "pages" => \E q \in Query : page[q] # "none"
    /\ stage \in {"summaries", "returned"} =>
           \A q \in Query : page[q] \in {"none", "read", "failed"}
    /\ stage = "cancelled" => \A q \in Query : verdict[q] # "crashed" /\ page[q] # "crashed"
    /\ stage = "raised" =>
           /\ \A q \in Query : verdict[q] # "cancelled" /\ page[q] # "cancelled"
           /\ \/ \E q \in Query : verdict[q] = "crashed"
              \/ \A q \in Query : verdict[q] \in Success \cup Failure
           /\ \/ \E q \in Query : page[q] = "crashed"
              \/ \A q \in Query : page[q] \in {"none", "read", "failed"}
    /\ stage \in {"pages", "summaries", "returned"} \/ (\E q \in Query : page[q] # "none") =>
           \A q \in Query : verdict[q] \in Success \cup Failure

LEMMA InitTold == Init => Told
BY DEF Init, RouterInit, Told, Ended

\* An answered query is not on its way and has not raised.
LEMMA Answers ==
    ASSUME NEW v \in Success \cup Failure
    PROVE  v \notin {"none", "queued", "routing", "fetching", "crashed", "cancelled"}
BY DEF Success, Failure

LEMMA SearchTold ==
    ASSUME IInv, Told, NEW q \in Query, StartQuery(q) \/ RouteQuery(q)
    PROVE  Told'
<1>1. CASE StartQuery(q)
    <2>1. /\ verdict[q] = "queued" /\ verdict' = [verdict EXCEPT ![q] = "routing"]
          /\ UNCHANGED <<stage, page>>
        BY <1>1 DEF StartQuery, BeginSearch
    <2>2. verdict[q] \notin Success \cup Failure
        BY <2>1, Answers
    <2>3. QED
        BY <2>1, <2>2 DEF IInv, Shape, Told
<1>2. CASE RouteQuery(q)
    <2>1. /\ verdict[q] = "routing"
          /\ \A p \in Query \ {q} : verdict'[p] = verdict[p]
          /\ verdict'[q] \in {"routing", "crashed"} \cup Success \cup Failure
        BY <1>2, RouteStepVerdict DEF IInv, RouteQuery
    <2>2. /\ stage' = IF stage = "queries" /\ verdict'[q] = "crashed" THEN "raised" ELSE stage
          /\ page' = page
        BY <1>2 DEF RouteQuery
    <2>3. verdict[q] \notin Success \cup Failure /\ verdict'[q] # "cancelled"
        BY <2>1, Answers
    <2>4. stage \in {"queries", "raised"} /\ \A p \in Query : page[p] = "none"
        BY <2>1, <2>3 DEF IInv, Shape, Settled, Told, Ended
    <2>5. stage = "raised" => \E p \in Query \ {q} : verdict[p] = "crashed"
        BY <2>1, <2>3 DEF Told
    <2>6. QED
        BY <2>1, <2>2, <2>3, <2>4, <2>5 DEF Told
<1>3. QED
    BY <1>1, <1>2

LEMMA FetchTold ==
    ASSUME IInv, Told, NEW q \in Query, StartFetch(q) \/ EndFetch(q)
    PROVE  Told'
<1>1. verdict' = verdict /\ page[q] \in {"queued", "fetching"}
    BY DEF StartFetch, EndFetch, routerVars
<1>2. CASE StartFetch(q)
    BY <1>1, <1>2 DEF StartFetch, IInv, Shape, Told
<1>3. CASE EndFetch(q)
    <2>1. PICK how \in {"read", "failed", "crashed"} :
             /\ page' = [page EXCEPT ![q] = how]
             /\ stage' = IF stage = "pages" /\ how = "crashed" THEN "raised" ELSE stage
        BY <1>3 DEF EndFetch
    <2>2. stage \in {"pages", "raised"}
        BY <1>1 DEF IInv, Shape, Settled, Ended
    <2>3. \A p \in Query : page'[p] = IF p = q THEN how ELSE page[p]
        BY <2>1 DEF IInv, Shape
    <2>4. stage = "raised" => \E p \in Query \ {q} : page[p] = "crashed"
        BY <1>1 DEF Told
    <2>5. \A p \in Query : verdict[p] \in Success \cup Failure
        BY <1>1 DEF Told
    <2>6. \A p \in Query : verdict[p] # "cancelled"
        BY <2>5, Answers
    <2>7. QED
        BY <1>1, <2>1, <2>2, <2>3, <2>4, <2>5, <2>6 DEF Told
<1>4. QED
    BY <1>2, <1>3

LEMMA GatheredTold ==
    ASSUME IInv, Told, QueriesDone \/ PagesDone \/ Summarise \/ Return \/ CancelBatch
    PROVE  Told'
<1>1. CASE QueriesDone
    <2>1. \A q \in Query : verdict[q] \in Success \cup Failure /\ page[q] = "none"
        BY <1>1 DEF QueriesDone, Gathered, IInv, Settled
    <2>2. verdict' = verdict
        BY <1>1 DEF QueriesDone, routerVars
    <2>3. CASE stage' = "summaries" /\ page' = page
        BY <2>1, <2>2, <2>3 DEF Told
    <2>4. CASE /\ Found # {} /\ stage' = "pages"
               /\ page' = [q \in Query |-> IF q \in Found THEN "queued" ELSE "none"]
        <3>1. \E q \in Query : page'[q] # "none"
            BY <2>4 DEF Found
        <3>2. \A q \in Query : page'[q] \in {"none", "queued"}
            BY <2>4
        <3>3. QED
            BY <2>1, <2>2, <2>4, <3>1, <3>2 DEF Told
    <2>5. QED
        BY <1>1, <2>3, <2>4 DEF QueriesDone
<1>2. CASE PagesDone
    <2>1. \A q \in Query : page[q] \in {"none", "read", "failed"}
        BY <1>2 DEF PagesDone, Gathered
    <2>2. stage = "pages" /\ stage' = "summaries" /\ UNCHANGED <<verdict, page>>
        BY <1>2 DEF PagesDone, routerVars
    <2>3. QED
        BY <2>1, <2>2 DEF Told
<1>3. CASE Summarise \/ Return
    <2>1. /\ stage = "summaries" /\ stage' \in {"summaries", "raised", "returned"}
          /\ UNCHANGED <<verdict, page>>
        BY <1>3 DEF Summarise, Return, routerVars
    <2>2. \A q \in Query : verdict[q] \in Success \cup Failure
        BY <2>1 DEF Told
    <2>3. \A q \in Query : verdict[q] # "cancelled"
        BY <2>2, Answers
    <2>4. QED
        BY <2>1, <2>2, <2>3 DEF Told
<1>4. CASE CancelBatch
    <2>1. /\ stage \notin Ended /\ stage' = "cancelled"
          /\ verdict' = [q \in Query |->
                            IF verdict[q] \in {"queued", "routing"} THEN "cancelled" ELSE verdict[q]]
          /\ page' = [q \in Query |->
                         IF page[q] \in {"queued", "fetching"} THEN "cancelled" ELSE page[q]]
        BY <1>4 DEF CancelBatch
    <2>2. stage \in {"queries", "pages", "summaries"}
        BY <2>1 DEF IInv, Shape
    <2>3. \A q \in Query : verdict[q] \in Success \cup Failure => verdict[q] # "crashed"
        BY Answers
    <2>4. \A q \in Query : verdict[q] # "crashed" /\ page[q] # "crashed"
        BY <2>2, <2>3 DEF Told, IInv, Settled
    <2>5. (\E q \in Query : page[q] # "none") => \A q \in Query : verdict[q] \in Success \cup Failure
        BY DEF Told
    <2>6. \A q \in Query : verdict[q] \in Success \cup Failure => verdict'[q] = verdict[q]
        BY <2>1, Answers
    <2>7. QED
        BY <2>1, <2>4, <2>5, <2>6 DEF Told
<1>5. QED
    BY <1>1, <1>2, <1>3, <1>4

LEMMA AlwaysTold == Spec => []Told
<1>1. ASSUME IInv, Told, [Next]_vars PROVE Told'
    <2>1. ASSUME NEW q \in Query,
                 StartQuery(q) \/ RouteQuery(q) \/ StartFetch(q) \/ EndFetch(q)
          PROVE  Told'
        BY <1>1, <2>1, SearchTold, FetchTold
    <2>2. CASE UNCHANGED vars
        BY <1>1, <2>2 DEF vars, routerVars, Told
    <2>3. QED
        BY <1>1, <2>1, <2>2, GatheredTold DEF Next, Progress
<1>2. QED
    BY <1>1, InitTold, AlwaysIInv, PTL DEF Spec

\* What TaskOf tells of a query or a page.
LEMMA TaskTells ==
    ASSUME NEW v
    PROVE  /\ TaskOf(v) = "none" <=> v = "none"
           /\ TaskOf(v) = "waiting" <=> v = "queued"
           /\ TaskOf(v) = "working" <=> v \in {"routing", "fetching"}
           /\ TaskOf(v) = "failed" <=> v = "crashed"
           /\ TaskOf(v) = "cancelled" <=> v = "cancelled"
           /\ TaskOf(v) = "done" <=>
                  v \notin {"none", "queued", "routing", "fetching", "crashed", "cancelled"}
BY DEF TaskOf

\* A call ends the same whatever its tasks do short of raising and of being cancelled.
LEMMA SameEnd ==
    ASSUME NEW f, NEW g,
           \A q \in Query : /\ f[q] = "crashed" <=> g[q] = "crashed"
                            /\ f[q] = "cancelled" <=> g[q] = "cancelled"
    PROVE  EndOf(f) = EndOf(g)
BY DEF EndOf

\* One exception makes a call raise.
LEMMA RaisedEnd ==
    ASSUME NEW f, NEW q \in Query, f[q] = "crashed"
    PROVE  EndOf(f) = "raised"
BY DEF EndOf

\* One task that was cancelled, and none that raised, make a cancelled call.
LEMMA CancelledEnd ==
    ASSUME NEW f, NEW q \in Query, f[q] = "cancelled", \A p \in Query : f[p] # "crashed"
    PROVE  EndOf(f) = "cancelled"
BY DEF EndOf

LEMMA ReturnedEnd ==
    ASSUME NEW f, \A p \in Query : f[p] \notin {"crashed", "cancelled"}
    PROVE  EndOf(f) = "returned"
BY DEF EndOf

\* The queries that are searched are the tasks at work.
LEMMA QueriesAtWork == Shape => QueryGather!Working = Searching
<1> SUFFICES ASSUME Shape PROVE QueryGather!Working = Searching
    OBVIOUS
<1>1. \A q \in Query : verdict[q] # "fetching"
    BY DEF Shape, Success, Failure
<1>2. \A q \in Query : QueryTask[q] = "working" <=> verdict[q] = "routing"
    BY <1>1, TaskTells DEF QueryTask
<1>3. QED
    BY <1>2 DEF QueryGather!Working, Searching

\* The pages that are fetched are.
LEMMA PagesAtWork == Shape => PageGather!Working = Fetching
<1> SUFFICES ASSUME Shape PROVE PageGather!Working = Fetching
    OBVIOUS
<1>1. \A q \in Query : page[q] # "routing"
    BY DEF Shape
<1>2. \A q \in Query : PageTask[q] = "working" <=> page[q] = "fetching"
    BY <1>1, TaskTells DEF PageTask
<1>3. QED
    BY <1>2 DEF PageGather!Working, Fetching

LEMMA SearchGathered ==
    ASSUME IInv, Told, NEW q \in Query, StartQuery(q) \/ RouteQuery(q)
    PROVE  [QueryGather!Next]_(QueryGather!vars)
<1>1. CASE StartQuery(q)
    <2>1. /\ verdict[q] = "queued" /\ verdict' = [verdict EXCEPT ![q] = "routing"]
          /\ Cardinality(Searching) < Limit
          /\ \A p \in Query : p < q => verdict[p] # "queued"
          /\ stage' = stage
        BY <1>1 DEF StartQuery, BeginSearch
    <2>2. \A p \in Query : verdict'[p] = IF p = q THEN "routing" ELSE verdict[p]
        BY <2>1 DEF IInv, Shape
    <2>3. QueryTask[q] = "waiting" /\ \A p \in Query : p < q => QueryTask[p] # "waiting"
        BY <2>1, TaskTells DEF QueryTask
    <2>4. Cardinality(QueryGather!Working) < Limit
        BY <2>1, QueriesAtWork DEF IInv
    <2>5. TaskOf("routing") = "working"
        BY TaskTells
    <2>6. QueryTask' = [QueryTask EXCEPT ![q] = "working"]
        BY <2>2, <2>5 DEF QueryTask
    <2>7. EndOf(verdict') = EndOf(verdict)
        <3>1. \A p \in Query : /\ verdict'[p] = "crashed" <=> verdict[p] = "crashed"
                               /\ verdict'[p] = "cancelled" <=> verdict[p] = "cancelled"
            BY <2>1, <2>2
        <3>2. QED
            BY <3>1, SameEnd
    <2>8. QueryCall' = QueryCall
        BY <2>1, <2>7 DEF QueryCall
    <2>9. QueryGather!Start(q)
        BY <2>3, <2>4, <2>6, <2>8 DEF QueryGather!Start, QueryGather!Cardinality, Cardinality
    <2>10. QED
        BY <2>9 DEF QueryGather!Next
<1>2. CASE RouteQuery(q)
    <2>1. /\ verdict[q] = "routing"
          /\ \A p \in Query \ {q} : verdict'[p] = verdict[p]
          /\ verdict'[q] \in {"routing", "crashed"} \cup Success \cup Failure
        BY <1>2, RouteStepVerdict DEF IInv, RouteQuery
    <2>2. stage' = IF stage = "queries" /\ verdict'[q] = "crashed" THEN "raised" ELSE stage
        BY <1>2 DEF RouteQuery
    <2>3. /\ TaskOf("routing") = "working" /\ TaskOf("crashed") = "failed"
          /\ \A v \in Success \cup Failure : TaskOf(v) = "done"
        BY TaskTells, Answers
    <2>4. QueryTask[q] = "working"
        BY <2>1, <2>3 DEF QueryTask
    <2>5. QueryTask' = [QueryTask EXCEPT ![q] = TaskOf(verdict'[q])]
        BY <2>1 DEF QueryTask
    <2>6. verdict[q] \notin Success \cup Failure /\ verdict'[q] # "cancelled"
        BY <2>1, Answers
    <2>7. stage \in {"queries", "raised"}
        BY <2>1, <2>6 DEF IInv, Shape, Settled, Told, Ended
    <2>8. stage = "raised" => \E p \in Query \ {q} : verdict[p] = "crashed"
        BY <2>1, <2>6 DEF Told
    <2>9. stage = "raised" => QueryCall = "raised" /\ QueryCall' = "raised"
        <3>1. SUFFICES ASSUME stage = "raised"
                       PROVE  QueryCall = "raised" /\ QueryCall' = "raised"
            OBVIOUS
        <3>2. PICK p \in Query \ {q} : verdict[p] = "crashed" /\ verdict'[p] = "crashed"
            BY <2>1, <2>8, <3>1
        <3>3. EndOf(verdict) = "raised" /\ EndOf(verdict') = "raised"
            BY <3>2, RaisedEnd
        <3>4. QED
            BY <2>2, <3>1, <3>3 DEF QueryCall
    <2>10. stage = "queries" => QueryCall = "running"
        BY DEF QueryCall
    <2>11. stage = "queries" /\ verdict'[q] # "crashed" => QueryCall' = "running"
        BY <2>2 DEF QueryCall
    <2>12. CASE verdict'[q] = "routing"
        <3>1. QueryTask' = QueryTask
            BY <2>3, <2>4, <2>5, <2>12 DEF QueryTask
        <3>2. QueryCall' = QueryCall
            BY <2>7, <2>9, <2>10, <2>11, <2>12
        <3>3. QED
            BY <3>1, <3>2 DEF QueryGather!vars
    <2>13. CASE verdict'[q] = "crashed"
        <3>1. QueryTask' = [QueryTask EXCEPT ![q] = "failed"]
            BY <2>3, <2>5, <2>13
        <3>2. stage = "queries" => QueryCall' = "raised"
            <4>1. EndOf(verdict') = "raised"
                BY <2>13, RaisedEnd
            <4>2. QED
                BY <2>2, <2>13, <4>1 DEF QueryCall
        <3>3. QueryCall' = IF QueryCall = "running" THEN "raised" ELSE QueryCall
            BY <2>7, <2>9, <2>10, <3>2
        <3>4. QueryGather!Fail(q)
            BY <2>4, <3>1, <3>3 DEF QueryGather!Fail
        <3>5. QED
            BY <3>4 DEF QueryGather!Next
    <2>14. CASE verdict'[q] \in Success \cup Failure
        <3>1. QueryTask' = [QueryTask EXCEPT ![q] = "done"]
            BY <2>3, <2>5, <2>14
        <3>2. verdict'[q] # "crashed"
            BY <2>14, Answers
        <3>3. QueryCall' = QueryCall
            BY <2>7, <2>9, <2>10, <2>11, <3>2
        <3>4. QueryGather!Finish(q)
            BY <2>4, <3>1, <3>3 DEF QueryGather!Finish
        <3>5. QED
            BY <3>4 DEF QueryGather!Next
    <2>15. QED
        BY <2>1, <2>12, <2>13, <2>14
<1>3. QED
    BY <1>1, <1>2

\* A cancelled batch takes its queries with it, or has them all answered.
LEMMA QueriesCancelled ==
    ASSUME IInv, Told, CancelBatch
    PROVE  [QueryGather!Next]_(QueryGather!vars)
<1>1. /\ stage \in {"queries", "pages", "summaries"} /\ stage' = "cancelled"
      /\ \A q \in Query :
             verdict'[q] = IF verdict[q] \in {"queued", "routing"} THEN "cancelled" ELSE verdict[q]
    BY DEF CancelBatch, IInv, Shape
<1>2. QueryCall' = EndOf(verdict')
    BY <1>1 DEF QueryCall
<1>3. \A q \in Query : verdict[q] # "fetching"
    BY DEF IInv, Shape, Success, Failure
<1>4. QueryTask' = [q \in Query |-> IF QueryTask[q] \in {"waiting", "working"}
                                     THEN "cancelled" ELSE QueryTask[q]]
    <2>1. \A q \in Query : TaskOf(verdict[q]) \in {"waiting", "working"} <=>
                               verdict[q] \in {"queued", "routing"}
        BY <1>3, TaskTells
    <2>2. TaskOf("cancelled") = "cancelled"
        BY TaskTells
    <2>3. QED
        BY <1>1, <2>1, <2>2 DEF QueryTask
<1>5. CASE \A q \in Query : verdict[q] \notin {"queued", "routing"}
    <2>1. \A q \in Query : verdict'[q] = verdict[q]
        BY <1>1, <1>5
    <2>2. QueryTask' = QueryTask
        BY <2>1 DEF QueryTask
    <2>3. EndOf(verdict') = EndOf(verdict)
        BY <2>1, SameEnd
    <2>4. CASE stage = "queries"
        <3>1. \A q \in Query : verdict[q] \in Success \cup Failure
            BY <1>5, <2>4 DEF IInv, Shape, Told
        <3>2. \A q \in Query : QueryTask[q] = "done"
            BY <3>1, Answers, TaskTells DEF QueryTask
        <3>3. EndOf(verdict) = "returned"
            BY <3>1, Answers, ReturnedEnd
        <3>4. QueryGather!Return
            BY <1>2, <2>2, <2>3, <2>4, <3>2, <3>3 DEF QueryGather!Return, QueryCall
        <3>5. QED
            BY <3>4 DEF QueryGather!Next
    <2>5. CASE stage # "queries"
        BY <1>2, <2>2, <2>3, <2>5 DEF QueryGather!vars, QueryCall
    <2>6. QED
        BY <2>4, <2>5
<1>6. CASE \E q \in Query : verdict[q] \in {"queued", "routing"}
    <2>1. PICK q \in Query : verdict[q] \in {"queued", "routing"}
        BY <1>6
    <2>2. stage = "queries"
        BY <1>1, <2>1 DEF IInv, Settled
    <2>3. verdict'[q] = "cancelled" /\ \A p \in Query : verdict'[p] # "crashed"
        BY <1>1, <2>1, <2>2 DEF Told
    <2>4. EndOf(verdict') = "cancelled"
        BY <2>3, CancelledEnd
    <2>5. QueryGather!Cancel
        BY <1>2, <1>4, <2>2, <2>4 DEF QueryGather!Cancel, QueryCall
    <2>6. QED
        BY <2>5 DEF QueryGather!Next
<1>7. QED
    BY <1>5, <1>6

LEMMA StepGathersQueries ==
    ASSUME IInv, Told, [Next]_vars
    PROVE  [QueryGather!Next]_(QueryGather!vars)
<1>1. ASSUME verdict' = verdict, stage = "queries" <=> stage' = "queries"
      PROVE  UNCHANGED QueryGather!vars
    BY <1>1 DEF QueryGather!vars, QueryTask, QueryCall
<1>2. ASSUME NEW q \in Query, StartQuery(q) \/ RouteQuery(q)
      PROVE  [QueryGather!Next]_(QueryGather!vars)
    BY <1>2, SearchGathered
<1>3. CASE QueriesDone
    <2>1. \A q \in Query : verdict[q] \in Success \cup Failure
        BY <1>3 DEF QueriesDone, Gathered
    <2>2. stage = "queries" /\ stage' # "queries" /\ verdict' = verdict
        BY <1>3 DEF QueriesDone, routerVars
    <2>3. \A q \in Query : QueryTask[q] = "done"
        BY <2>1, Answers, TaskTells DEF QueryTask
    <2>4. EndOf(verdict) = "returned"
        BY <2>1, Answers, ReturnedEnd
    <2>5. QueryGather!Return
        BY <2>2, <2>3, <2>4 DEF QueryGather!Return, QueryCall, QueryTask
    <2>6. QED
        BY <2>5 DEF QueryGather!Next
<1>4. CASE PagesDone \/ Summarise \/ Return
    <2>1. verdict' = verdict /\ stage # "queries" /\ stage' # "queries"
        BY <1>4 DEF PagesDone, Summarise, Return, routerVars
    <2>2. QED
        BY <1>1, <2>1
<1>5. ASSUME NEW q \in Query, StartFetch(q) \/ EndFetch(q)
      PROVE  [QueryGather!Next]_(QueryGather!vars)
    <2>1. verdict' = verdict /\ (stage = "queries" <=> stage' = "queries")
        BY <1>5 DEF StartFetch, EndFetch, routerVars
    <2>2. QED
        BY <1>1, <2>1
<1>6. CASE UNCHANGED vars
    BY <1>1, <1>6 DEF vars, routerVars
<1>7. QED
    BY <1>2, <1>3, <1>4, <1>5, <1>6, QueriesCancelled DEF Next, Progress

\* The queries of a batch are one call of bounded_gather: for any number of queries, any
\* limit and any backends, they start in their order and below the limit, and their call
\* returns with all of them, raises with the first exception or takes them with it
\* (concurrency.py, bounded_gather; pipelines.py, run_search).
THEOREM GathersItsQueries == Spec => QueriesGathered
<1>1. Init => QueryGather!Init
    <2>1. SUFFICES ASSUME Init PROVE QueryGather!Init
        OBVIOUS
    <2>2. stage = "queries" /\ \A q \in Query : verdict[q] = "queued"
        BY <2>1 DEF Init, RouterInit
    <2>3. QueryTask = [q \in Query |-> "waiting"]
        BY <2>2, TaskTells DEF QueryTask
    <2>4. QED
        BY <2>2, <2>3 DEF QueryGather!Init, QueryCall
<1>2. IInv /\ Told /\ [Next]_vars => [QueryGather!Next]_(QueryGather!vars)
    BY StepGathersQueries
<1>3. QED
    BY <1>1, <1>2, AlwaysIInv, AlwaysTold, PTL DEF Spec, QueriesGathered, QueryGather!Spec

-------------------------------------------------------------------------------
LEMMA FetchGathered ==
    ASSUME IInv, Told, NEW q \in Query, StartFetch(q) \/ EndFetch(q)
    PROVE  [PageGather!Next]_(PageGather!vars)
<1>1. CASE StartFetch(q)
    <2>1. /\ page[q] = "queued" /\ page' = [page EXCEPT ![q] = "fetching"]
          /\ Cardinality(Fetching) < Limit
          /\ \A p \in Query : p < q => page[p] # "queued"
          /\ stage' = stage
        BY <1>1 DEF StartFetch
    <2>2. \A p \in Query : page'[p] = IF p = q THEN "fetching" ELSE page[p]
        BY <2>1 DEF IInv, Shape
    <2>3. PageTask[q] = "waiting" /\ \A p \in Query : p < q => PageTask[p] # "waiting"
        BY <2>1, TaskTells DEF PageTask
    <2>4. Cardinality(PageGather!Working) < Limit
        BY <2>1, PagesAtWork DEF IInv
    <2>5. TaskOf("fetching") = "working"
        BY TaskTells
    <2>6. PageTask' = [PageTask EXCEPT ![q] = "working"]
        BY <2>2, <2>5 DEF PageTask
    <2>7. EndOf(page') = EndOf(page)
        <3>1. \A p \in Query : /\ page'[p] = "crashed" <=> page[p] = "crashed"
                               /\ page'[p] = "cancelled" <=> page[p] = "cancelled"
            BY <2>1, <2>2
        <3>2. QED
            BY <3>1, SameEnd
    <2>8. PageCall' = PageCall
        <3>1. page[q] # "none" /\ page'[q] # "none"
            BY <2>1, <2>2
        <3>2. QED
            BY <2>1, <2>7, <3>1 DEF PageCall
    <2>9. PageGather!Start(q)
        BY <2>3, <2>4, <2>6, <2>8 DEF PageGather!Start, PageGather!Cardinality, Cardinality
    <2>10. QED
        BY <2>9 DEF PageGather!Next
<1>2. CASE EndFetch(q)
    <2>1. page[q] = "fetching"
        BY <1>2 DEF EndFetch
    <2>2. PICK how \in {"read", "failed", "crashed"} :
             /\ page' = [page EXCEPT ![q] = how]
             /\ stage' = IF stage = "pages" /\ how = "crashed" THEN "raised" ELSE stage
        BY <1>2 DEF EndFetch
    <2>3. \A p \in Query : page'[p] = IF p = q THEN how ELSE page[p]
        BY <2>2 DEF IInv, Shape
    <2>4. stage \in {"pages", "raised"}
        BY <2>1 DEF IInv, Shape, Settled, Ended
    <2>5. PageTask[q] = "working"
        BY <2>1, TaskTells DEF PageTask
    <2>6. TaskOf("crashed") = "failed" /\ TaskOf("read") = "done" /\ TaskOf("failed") = "done"
        BY TaskTells
    <2>7. PageTask' = [PageTask EXCEPT ![q] = TaskOf(how)]
        BY <2>3 DEF PageTask
    <2>8. /\ PageCall = IF stage = "pages" THEN "running" ELSE EndOf(page)
          /\ PageCall' = IF stage' = "pages" THEN "running" ELSE EndOf(page')
        BY <2>1, <2>2, <2>3 DEF PageCall
    <2>9. stage = "raised" => PageCall = "raised" /\ PageCall' = "raised"
        <3>1. SUFFICES ASSUME stage = "raised"
                       PROVE  PageCall = "raised" /\ PageCall' = "raised"
            OBVIOUS
        <3>2. PICK p \in Query \ {q} : page[p] = "crashed"
            BY <2>1, <3>1 DEF Told
        <3>3. page'[p] = "crashed"
            BY <2>3, <3>2
        <3>4. EndOf(page) = "raised" /\ EndOf(page') = "raised"
            BY <3>2, <3>3, RaisedEnd
        <3>5. QED
            BY <2>2, <2>8, <3>1, <3>4
    <2>10. CASE how = "crashed"
        <3>1. page'[q] = "crashed"
            BY <2>3, <2>10
        <3>2. EndOf(page') = "raised"
            BY <3>1, RaisedEnd
        <3>3. PageCall' = IF PageCall = "running" THEN "raised" ELSE PageCall
            BY <2>2, <2>4, <2>8, <2>9, <2>10, <3>2
        <3>4. PageGather!Fail(q)
            BY <2>5, <2>6, <2>7, <2>10, <3>3 DEF PageGather!Fail
        <3>5. QED
            BY <3>4 DEF PageGather!Next
    <2>11. CASE how \in {"read", "failed"}
        <3>1. TaskOf(how) = "done"
            BY <2>6, <2>11
        <3>2. PageCall' = PageCall
            BY <2>2, <2>4, <2>8, <2>9, <2>11
        <3>3. PageGather!Finish(q)
            BY <2>5, <2>7, <3>1, <3>2 DEF PageGather!Finish
        <3>4. QED
            BY <3>3 DEF PageGather!Next
    <2>12. QED
        BY <2>10, <2>11
<1>3. QED
    BY <1>1, <1>2

\* The pages are asked for together, or not at all.
LEMMA PagesMade ==
    ASSUME IInv, QueriesDone
    PROVE  [PageGather!Next]_(PageGather!vars)
<1>1. \A q \in Query : page[q] = "none"
    BY DEF QueriesDone, IInv, Settled
<1>2. PageCall = "unmade"
    BY <1>1 DEF PageCall
<1>3. CASE stage' = "summaries" /\ page' = page
    BY <1>1, <1>3 DEF PageGather!vars, PageCall, PageTask
<1>4. CASE /\ Found # {} /\ stage' = "pages"
           /\ page' = [q \in Query |-> IF q \in Found THEN "queued" ELSE "none"]
    <2>1. Found \in (SUBSET Query) \ {{}}
        BY <1>4 DEF Found
    <2>2. TaskOf("queued") = "waiting" /\ TaskOf("none") = "none"
        BY TaskTells
    <2>3. PageTask' = [q \in Query |-> IF q \in Found THEN "waiting" ELSE "none"]
        BY <1>4, <2>2 DEF PageTask
    <2>4. PICK q \in Query : q \in Found
        BY <2>1
    <2>5. page'[q] # "none"
        BY <1>4, <2>4
    <2>6. PageCall' = "running"
        BY <1>4, <2>5 DEF PageCall
    <2>7. PageGather!Make
        BY <1>2, <2>1, <2>3, <2>6 DEF PageGather!Make
    <2>8. QED
        BY <2>7 DEF PageGather!Next
<1>5. QED
    BY <1>3, <1>4 DEF QueriesDone

\* A call is at an end with the last of its pages.
LEMMA PagesReturn ==
    ASSUME Told, stage = "pages", stage' # "pages", page' = page,
           \A q \in Query : page[q] \in {"none", "read", "failed"}
    PROVE  PageGather!Next
<1>1. PICK q \in Query : page[q] # "none"
    BY DEF Told
<1>2. \A p \in Query : PageTask[p] \in {"none", "done"}
    BY TaskTells DEF PageTask
<1>3. EndOf(page) = "returned"
    BY ReturnedEnd
<1>4. PageCall = "running" /\ PageCall' = "returned"
    BY <1>1, <1>3 DEF PageCall
<1>5. PageTask' = PageTask
    BY DEF PageTask
<1>6. PageGather!Return
    BY <1>2, <1>4, <1>5 DEF PageGather!Return
<1>7. QED
    BY <1>6 DEF PageGather!Next

\* A cancelled batch takes its pages with it, or has them all.
LEMMA PagesCancelled ==
    ASSUME IInv, Told, CancelBatch
    PROVE  [PageGather!Next]_(PageGather!vars)
<1>1. /\ stage \in {"queries", "pages", "summaries"} /\ stage' = "cancelled"
      /\ page' = [q \in Query |->
                     IF page[q] \in {"queued", "fetching"} THEN "cancelled" ELSE page[q]]
    BY DEF CancelBatch, IInv, Shape
<1>2. CASE \A q \in Query : page[q] \notin {"queued", "fetching"}
    <2>1. page' = page
        BY <1>1, <1>2 DEF IInv, Shape
    <2>2. CASE stage = "pages"
        <3>1. \A q \in Query : page[q] \in {"none", "read", "failed"}
            BY <1>2, <2>2 DEF IInv, Shape, Told
        <3>2. QED
            BY <1>1, <2>1, <2>2, <3>1, PagesReturn
    <2>3. CASE stage # "pages"
        BY <1>1, <2>1, <2>3 DEF PageGather!vars, PageTask, PageCall
    <2>4. QED
        BY <2>2, <2>3
<1>3. CASE \E q \in Query : page[q] \in {"queued", "fetching"}
    <2>1. PICK q \in Query : page[q] \in {"queued", "fetching"}
        BY <1>3
    <2>2. stage = "pages"
        BY <1>1, <2>1 DEF IInv, Settled
    <2>3. /\ page'[q] = "cancelled"
          /\ \A p \in Query : page'[p] # "crashed"
        BY <1>1, <2>1, <2>2 DEF Told
    <2>4. EndOf(page') = "cancelled"
        BY <2>3, CancelledEnd
    <2>5. PageCall = "running" /\ PageCall' = "cancelled"
        BY <1>1, <2>1, <2>2, <2>3, <2>4 DEF PageCall
    <2>6. PageTask' = [p \in Query |-> IF PageTask[p] \in {"waiting", "working"}
                                        THEN "cancelled" ELSE PageTask[p]]
        <3>1. \A p \in Query : TaskOf(page[p]) \in {"waiting", "working"} <=>
                                   page[p] \in {"queued", "fetching"}
            BY TaskTells DEF IInv, Shape
        <3>2. TaskOf("cancelled") = "cancelled"
            BY TaskTells
        <3>3. QED
            BY <1>1, <3>1, <3>2 DEF PageTask
    <2>7. PageGather!Cancel
        BY <2>5, <2>6 DEF PageGather!Cancel
    <2>8. QED
        BY <2>7 DEF PageGather!Next
<1>4. QED
    BY <1>2, <1>3

LEMMA StepGathersPages ==
    ASSUME IInv, Told, [Next]_vars
    PROVE  [PageGather!Next]_(PageGather!vars)
<1>1. ASSUME page' = page, stage = "pages" <=> stage' = "pages"
      PROVE  UNCHANGED PageGather!vars
    BY <1>1 DEF PageGather!vars, PageTask, PageCall
<1>2. ASSUME NEW q \in Query, StartQuery(q) \/ RouteQuery(q)
      PROVE  [PageGather!Next]_(PageGather!vars)
    <2>1. page' = page /\ (stage = "pages" <=> stage' = "pages")
        BY <1>2 DEF StartQuery, RouteQuery
    <2>2. QED
        BY <1>1, <2>1
<1>3. ASSUME NEW q \in Query, StartFetch(q) \/ EndFetch(q)
      PROVE  [PageGather!Next]_(PageGather!vars)
    BY <1>3, FetchGathered
<1>4. CASE PagesDone
    <2>1. stage = "pages" /\ stage' # "pages" /\ page' = page
        BY <1>4 DEF PagesDone
    <2>2. \A q \in Query : page[q] \in {"none", "read", "failed"}
        BY <1>4 DEF PagesDone, Gathered
    <2>3. QED
        BY <2>1, <2>2, PagesReturn
<1>5. CASE Summarise \/ Return \/ UNCHANGED vars
    <2>1. page' = page /\ (stage = "pages" <=> stage' = "pages")
        BY <1>5 DEF Summarise, Return, vars
    <2>2. QED
        BY <1>1, <2>1
<1>6. QED
    BY <1>2, <1>3, <1>4, <1>5, PagesMade, PagesCancelled DEF Next, Progress

\* So are its pages, at most one call of them for a batch and none before its queries are all
\* answered (concurrency.py, bounded_gather; pipelines.py, _attach_page_contents).
THEOREM GathersItsPages == Spec => PagesGathered
<1>1. Init => PageGather!Init
    <2>1. SUFFICES ASSUME Init PROVE PageGather!Init
        OBVIOUS
    <2>2. \A q \in Query : page[q] = "none"
        BY <2>1 DEF Init
    <2>3. PageTask = [q \in Query |-> "none"]
        BY <2>2, TaskTells DEF PageTask
    <2>4. PageCall = "unmade"
        BY <2>2 DEF PageCall
    <2>5. QED
        BY <2>3, <2>4 DEF PageGather!Init
<1>2. IInv /\ Told /\ [Next]_vars => [PageGather!Next]_(PageGather!vars)
    BY StepGathersPages
<1>3. IInv /\ Told => (PageCall # "unmade" => QueryCall = "returned")
    <2>1. SUFFICES ASSUME IInv, Told, PageCall # "unmade" PROVE QueryCall = "returned"
        OBVIOUS
    <2>2. PICK q \in Query : page[q] # "none"
        BY <2>1 DEF PageCall
    <2>3. stage # "queries"
        BY <2>1, <2>2 DEF IInv, Settled
    <2>4. \A p \in Query : verdict[p] \in Success \cup Failure
        BY <2>1, <2>2 DEF Told
    <2>5. EndOf(verdict) = "returned"
        BY <2>4, Answers, ReturnedEnd
    <2>6. QED
        BY <2>3, <2>5 DEF QueryCall
<1>4. QED
    BY <1>1, <1>2, <1>3, AlwaysIInv, AlwaysTold, PTL DEF Spec, PagesGathered, PageGather!Spec

\* A batch implements the two calls it makes (pipelines.py, run_search).
THEOREM GathersItsTasks == Spec => BatchGathers
<1>1. QED
    BY GathersItsQueries, GathersItsPages DEF BatchGathers
===============================================================================
