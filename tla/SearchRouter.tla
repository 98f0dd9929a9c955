------------------------------ MODULE SearchRouter ------------------------------
(***************************************************************************)
(* One query tried on the search backends in turn                          *)
(* (src/app/services/search/router.py), for several queries at once.       *)
(*                                                                         *)
(* Each action is one turn of the loop in search, with the answer of the   *)
(* backend it awaited.  What a backend answers is one of a handful of      *)
(* kinds; query texts, results and error wording are left out.             *)
(***************************************************************************)
EXTENDS Integers, FiniteSets, SequencesExt

CONSTANTS
    Query,
    Backends,    \* every backend, in the deployment's order
    Keyless,     \* the backends that are always configured (google)
    PerCaller,   \* the backends whose credential is looked up for each query (serper)
    Default,     \* WSA_SEARCH_BACKEND: a backend, or a name no backend has
    Unset        \* a person who chose no backend

Backend == ToSet(Backends)

ASSUME SearchRouterAssumption ==
    /\ Backends \in Seq(Backend)
    /\ IsInjective(Backends)
    /\ Backends # <<>>
    /\ Keyless \subseteq Backend
    /\ PerCaller \subseteq Backend \ Keyless
    /\ Unset \notin Backend

VARIABLES
    configured,  \* the backends this deployment and this caller can use
    preferred,   \* the backend the person chose, or Unset
    order,       \* for each query, the backends still to try
    attempted,   \* for each query, how many backends were asked
    verdict,     \* for each query, where its search stands ("queued", "routing") or how
                 \* it ended (Success, Failure, "crashed", "cancelled")
    outcome      \* history: for each query, the backends not asked or skipped, and how
                 \* the others answered ("results", "empty", "failed", "raised")

routerVars == <<configured, preferred, order, attempted, verdict, outcome>>

Success == {"results", "filtered", "empty"}

\* "error" is a DomainError the loop lets through, "crashed" any other exception.
Failure == {"unavailable", "error"}

RouterInit ==
    /\ configured \in {Keyless \cup more : more \in SUBSET (Backend \ Keyless)}
    /\ preferred \in Backend \cup {Unset}
    /\ order = [q \in Query |-> <<>>]
    /\ attempted = [q \in Query |-> 0]
    /\ verdict = [q \in Query |-> "queued"]
    /\ outcome = [q \in Query |-> [b \in Backend |-> "unasked"]]

\* Mutant: the backends that are not preferred lose their order.
Ordered_Reversed(name) ==
    IF name \in Backend THEN <<name>> \o Reverse(RemoveFirst(Backends, name)) ELSE Reverse(Backends)

\* _ordered: the named backend first; a name no backend has changes nothing.
Ordered(name) ==
    IF name \in Backend THEN <<name>> \o RemoveFirst(Backends, name) ELSE Backends

-------------------------------------------------------------------------------
\* search.

BeginSearch(q) ==
    /\ verdict[q] = "queued"
    /\ verdict' = [verdict EXCEPT ![q] = "routing"]
    /\ order' = [order EXCEPT ![q] = Ordered(IF preferred # Unset THEN preferred ELSE Default)]
    /\ UNCHANGED <<configured, preferred, attempted, outcome>>

\* The backend a query has reached.
Current(q) == Head(order[q])

Note(q, what) == outcome' = [outcome EXCEPT ![q][Current(q)] = what]

\* The loop continues with the next backend, or falls out of its end.
Continue(q) ==
    /\ order' = [order EXCEPT ![q] = Tail(@)]
    /\ verdict' = [verdict EXCEPT ![q] = IF Len(order[q]) = 1 THEN "unavailable" ELSE @]

\* The search returns or raises.
Leave(q, how) ==
    /\ order' = [order EXCEPT ![q] = <<>>]
    /\ verdict' = [verdict EXCEPT ![q] = how]

\* is_configured is false; a credential may be revoked between two queries.
Skipped(q) ==
    /\ verdict[q] = "routing"
    /\ Current(q) \notin configured \/ Current(q) \in PerCaller
    /\ Note(q, "skipped")
    /\ Continue(q)
    /\ UNCHANGED <<configured, preferred, attempted>>

\* SearchBlockedError or UpstreamError.
Failed(q) ==
    /\ verdict[q] = "routing"
    /\ Current(q) \in configured
    /\ attempted' = [attempted EXCEPT ![q] = @ + 1]
    /\ Note(q, "failed")
    /\ Continue(q)
    /\ UNCHANGED <<configured, preferred>>

\* The query runner may drop every result, for the person's blocked domains.
Answered(q) ==
    /\ verdict[q] = "routing"
    /\ Current(q) \in configured
    /\ attempted' = [attempted EXCEPT ![q] = @ + 1]
    /\ Note(q, "results")
    /\ \E how \in {"results", "filtered"} : Leave(q, how)
    /\ UNCHANGED <<configured, preferred>>

\* Mutant: an empty answer is returned one backend too early.
AnsweredEmpty_Early(q) ==
    /\ verdict[q] = "routing"
    /\ Current(q) \in configured
    /\ attempted' = [attempted EXCEPT ![q] = @ + 1]
    /\ Note(q, "empty")
    /\ IF attempted'[q] < Len(Backends) - 1 THEN Continue(q) ELSE Leave(q, "empty")
    /\ UNCHANGED <<configured, preferred>>

AnsweredEmpty(q) ==
    /\ verdict[q] = "routing"
    /\ Current(q) \in configured
    /\ attempted' = [attempted EXCEPT ![q] = @ + 1]
    /\ Note(q, "empty")
    /\ IF attempted'[q] < Len(Backends) THEN Continue(q) ELSE Leave(q, "empty")
    /\ UNCHANGED <<configured, preferred>>

\* An exception the loop does not catch: a timeout, a keyring that refuses or does
\* not answer (DomainErrors), or a body that cannot be parsed (not one).
Raised(q) ==
    /\ verdict[q] = "routing"
    /\ Current(q) \in configured
    /\ Note(q, "raised")
    /\ \E how \in {"error", "crashed"} : Leave(q, how)
    /\ UNCHANGED <<configured, preferred, attempted>>

RouteStep(q) == Skipped(q) \/ Failed(q) \/ Answered(q) \/ AnsweredEmpty(q) \/ Raised(q)

-------------------------------------------------------------------------------
\* The backend tried first, if there is one of that name.
FirstChoice == IF preferred # Unset THEN preferred ELSE Default

\* A query turns to backend b before it turns to c.
Before(b, c) ==
    IF FirstChoice \in {b, c} THEN b = FirstChoice
    ELSE \E i, j \in DOMAIN Backends : i < j /\ Backends[i] = b /\ Backends[j] = c

\* A backend is left alone until every backend before it, in the order this
\* person and this deployment chose, was skipped, failed or had nothing; so one
\* that has results ends the search (search and _ordered in router.py).
FirstResultsWin ==
    \A q \in Query : \A b, c \in Backend :
        b # c /\ Before(b, c) /\ outcome[q][c] # "unasked" =>
            outcome[q][b] \in {"skipped", "failed", "empty"}

\* Nothing found ends a search only when no backend is left that might have found
\* something: each was skipped, failed or had nothing, and an empty answer is that
\* of the last one in the order (search: the test of is_empty and the two errors
\* after the loop).  That every empty answer of the last one is returned is not said:
\* README.md:222 promises it, but when another backend is not configured the code ends
\* with an error instead.
NothingFoundOnlyWhenAllTried ==
    \A q \in Query :
        /\ verdict[q] \in {"empty", "unavailable"} =>
               \A b \in Backend : outcome[q][b] \in {"skipped", "failed", "empty"}
        /\ verdict[q] = "empty" =>
               \E b \in Backend : /\ outcome[q][b] = "empty"
                                  /\ \A c \in Backend \ {b} : Before(c, b)
===============================================================================
