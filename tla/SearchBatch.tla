------------------------------ MODULE SearchBatch ------------------------------
(***************************************************************************)
(* One batch of queries: run_search (src/app/services/pipelines.py) over   *)
(* bounded_gather (src/app/core/concurrency.py) and the search router.     *)
(*                                                                         *)
(* The queries run as tasks of their own, at most Limit at a time; then    *)
(* the pages of the queries that found something are read, one for each,   *)
(* again at most Limit at a time; then the summaries are written one by    *)
(* one.  asyncio.gather hands the first exception on at once and leaves    *)
(* the other tasks running.                                                *)
(***************************************************************************)
EXTENDS SearchRouter

CONSTANTS
    Limit,       \* the concurrency bounded_gather is called with
    NQueries     \* the queries are 1 .. NQueries, in the order of the request

ASSUME SearchBatchAssumption ==
    /\ Limit \in Nat \ {0}
    /\ NQueries \in Nat \ {0}
    /\ Query = 1 .. NQueries

VARIABLES
    stage,       \* how far run_search is
    page,        \* the page of each query: none, on its way ("queued", "fetching"), or
                 \* how its fetch ended
    summary      \* the summary of each query

vars == <<routerVars, stage, page, summary>>

Ended == {"returned", "raised", "cancelled"}

Init ==
    /\ RouterInit
    /\ stage = "queries"
    /\ page = [q \in Query |-> "none"]
    /\ summary = [q \in Query |-> "none"]

Searching == {q \in Query : verdict[q] = "routing"}

Fetching == {q \in Query : page[q] = "fetching"}

\* The queries whose pages are read and whose results are summarised.
Found == {q \in Query : verdict[q] = "results"}

-------------------------------------------------------------------------------
\* The queries.

\* Mutant: the semaphore of bounded_gather is one too large.
StartQuery_OneMore(q) ==
    /\ Cardinality(Searching) <= Limit
    /\ \A p \in Query : p < q => verdict[p] # "queued"
    /\ BeginSearch(q)
    /\ UNCHANGED <<stage, page, summary>>

\* Mutant: a task keeps its slot of the semaphore when it ends.
StartQuery_SlotKept(q) ==
    /\ Cardinality({p \in Query : verdict[p] # "queued"}) < Limit
    /\ \A p \in Query : p < q => verdict[p] # "queued"
    /\ BeginSearch(q)
    /\ UNCHANGED <<stage, page, summary>>

\* The semaphore of bounded_gather admits the tasks in the order of the request.
StartQuery(q) ==
    /\ Cardinality(Searching) < Limit
    /\ \A p \in Query : p < q => verdict[p] # "queued"
    /\ BeginSearch(q)
    /\ UNCHANGED <<stage, page, summary>>

\* The first exception a runner lets through is the batch's.
RouteQuery(q) ==
    /\ RouteStep(q)
    /\ stage' = IF stage = "queries" /\ verdict'[q] = "crashed" THEN "raised" ELSE stage
    /\ UNCHANGED <<page, summary>>

\* Mutant: gather is done when one task is.
Gathered_First(finished) == finished # {}

\* gather is done when every task is.
Gathered(finished) == finished = Query

\* The outcomes become results.  Pages are read when the request or the person
\* asks for them, and there are some to read.
QueriesDone ==
    /\ stage = "queries"
    /\ Gathered({q \in Query : verdict[q] \in Success \cup Failure})
    /\ \/ stage' = "summaries" /\ UNCHANGED page
       \/ /\ Found # {}
          /\ stage' = "pages"
          /\ page' = [q \in Query |-> IF q \in Found THEN "queued" ELSE "none"]
    /\ UNCHANGED <<routerVars, summary>>

-------------------------------------------------------------------------------
\* The pages (_attach_page_contents).

StartFetch(q) ==
    /\ page[q] = "queued"
    /\ Cardinality(Fetching) < Limit
    /\ \A p \in Query : p < q => page[p] # "queued"
    /\ page' = [page EXCEPT ![q] = "fetching"]
    /\ UNCHANGED <<routerVars, stage, summary>>

\* Mutant: no exception of a page is the batch's.
EndFetch_Swallowed(q) ==
    /\ page[q] = "fetching"
    /\ \E how \in {"read", "failed", "crashed"} : page' = [page EXCEPT ![q] = how]
    /\ UNCHANGED <<routerVars, stage, summary>>

\* A DomainError costs a query its page; any other exception is the batch's.
EndFetch(q) ==
    /\ page[q] = "fetching"
    /\ \E how \in {"read", "failed", "crashed"} :
          /\ page' = [page EXCEPT ![q] = how]
          /\ stage' = IF stage = "pages" /\ how = "crashed" THEN "raised" ELSE stage
    /\ UNCHANGED <<routerVars, summary>>

PagesDone ==
    /\ stage = "pages"
    /\ Gathered({q \in Query : page[q] \in {"none", "read", "failed"}})
    /\ stage' = "summaries"
    /\ UNCHANGED <<routerVars, page, summary>>

-------------------------------------------------------------------------------
\* The summaries, one at a time in the order of the request.

\* The queries whose summaries are still to be written.
Wanting == {q \in Found : summary[q] = "none"}

\* _summarised: a DomainError is the summary's and not the query's.
Summarise ==
    /\ stage = "summaries"
    /\ Wanting # {}
    /\ LET q == CHOOSE q \in Wanting : \A p \in Wanting : q <= p
       IN  \/ /\ \E how \in {"written", "failed"} : summary' = [summary EXCEPT ![q] = how]
              /\ UNCHANGED stage
           \/ stage' = "raised" /\ UNCHANGED summary
    /\ UNCHANGED <<routerVars, page>>

\* The response, after the summaries or without any.
Return ==
    /\ stage = "summaries"
    /\ Wanting = {} \/ \A q \in Query : summary[q] = "none"
    /\ stage' = "returned"
    /\ UNCHANGED <<routerVars, page, summary>>

-------------------------------------------------------------------------------
\* Mutant: the tasks of a cancelled batch go on.
CancelBatch_TasksLeft ==
    /\ stage \notin Ended
    /\ stage' = "cancelled"
    /\ UNCHANGED <<routerVars, page, summary>>

\* The batch is cancelled, as a job can be, and gather cancels its tasks with it.
CancelBatch ==
    /\ stage \notin Ended
    /\ stage' = "cancelled"
    /\ verdict' = [q \in Query |->
                      IF verdict[q] \in {"queued", "routing"} THEN "cancelled" ELSE verdict[q]]
    /\ page' = [q \in Query |->
                   IF page[q] \in {"queued", "fetching"} THEN "cancelled" ELSE page[q]]
    /\ UNCHANGED <<configured, preferred, order, attempted, outcome, summary>>

Progress ==
    \/ \E q \in Query : StartQuery(q) \/ RouteQuery(q) \/ StartFetch(q) \/ EndFetch(q)
    \/ QueriesDone \/ PagesDone \/ Summarise \/ Return

Next == Progress \/ CancelBatch

Spec == Init /\ [][Next]_vars

\* Every wait the batch makes has a timeout, and the event loop runs what is ready.
FairSpec == Spec /\ WF_vars(Progress)

-------------------------------------------------------------------------------
\* No more than Limit tasks of a batch search or fetch at once, not even after
\* the batch has raised (bounded_gather: "at most ``limit`` at a time").
NeverAboveLimit ==
    /\ Cardinality(Searching) <= Limit
    /\ Cardinality(Fetching) <= Limit

\* Only an exception leaves tasks behind: a batch that returned or was cancelled
\* has none running and none still to start (bounded_gather, asyncio.gather).
NoTaskLeftBehind ==
    stage \in {"returned", "cancelled"} =>
        \A q \in Query : /\ verdict[q] \notin {"queued", "routing"}
                         /\ page[q] \notin {"queued", "fetching"}

\* Every batch comes to an end, and so does every task it started, those an
\* exception left behind included (run_search, bounded_gather).
EveryBatchEnds ==
    <>(/\ stage \in Ended
       /\ \A q \in Query : /\ verdict[q] \notin {"queued", "routing"}
                          /\ page[q] \notin {"queued", "fetching"})

\* pipelines.py: "One failing query never fails the batch: each result carries
\* its own status."
FailingQueryIsItsOwn ==
    stage = "raised" => \A q \in Query : verdict[q] # "crashed"
===============================================================================
