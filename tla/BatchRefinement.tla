--------------------------- MODULE BatchRefinement ---------------------------
(***************************************************************************)
(* run_search calls bounded_gather for its queries and, if pages are read, *)
(* once more for those: a batch keeps what both calls promise.             *)
(***************************************************************************)
EXTENDS SearchBatch

\* Where the task of a query or of a page stands.
TaskOf(v) ==
    CASE v = "none" -> "none"
      [] v = "queued" -> "waiting"
      [] v \in {"routing", "fetching"} -> "working"
      [] v = "crashed" -> "failed"
      [] v = "cancelled" -> "cancelled"
      [] OTHER -> "done"

\* How a call ended, by what became of its tasks.
EndOf(ends) ==
    IF \E q \in Query : ends[q] = "crashed" THEN "raised"
    ELSE IF \E q \in Query : ends[q] = "cancelled" THEN "cancelled"
    ELSE "returned"

\* The tasks of the queries, and their call, which is made as the batch begins.
QueryTask == [q \in Query |-> TaskOf(verdict[q])]

QueryCall == IF stage = "queries" THEN "running" ELSE EndOf(verdict)

\* The tasks of the pages, and their call.
PageTask == [q \in Query |-> TaskOf(page[q])]

PageCall ==
    IF \A q \in Query : page[q] = "none" THEN "unmade"
    ELSE IF stage = "pages" THEN "running" ELSE EndOf(page)

QueryGather == INSTANCE BoundedGather WITH Task <- Query, task <- QueryTask, call <- QueryCall

PageGather == INSTANCE BoundedGather WITH Task <- Query, task <- PageTask, call <- PageCall

\* Queries start in the order of the request and never more than the limit at once, those an
\* exception leaves behind included; the batch goes on only when every one is answered, raises
\* with the first exception, and takes its queries with it when it is cancelled (run_search).
QueriesGathered == QueryGather!Spec

\* The same of the pages that are read, which begin together or not at all, and only when
\* every query is answered (_attach_page_contents).
PagesGathered ==
    /\ PageGather!Spec
    /\ [](PageCall # "unmade" => QueryCall = "returned")

\* A batch is two calls of bounded_gather, one after the other (run_search).
BatchGathers == QueriesGathered /\ PagesGathered
===============================================================================
