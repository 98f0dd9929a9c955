---------------------------- MODULE BoundedGather ----------------------------
(***************************************************************************)
(* What one call of bounded_gather promises the pipeline that awaits it:   *)
(* the abstract specification of src/app/core/concurrency.py.              *)
(*                                                                         *)
(* A call takes some of the possible tasks, which are numbered in the      *)
(* order they are given.  Before the call is made none of them exists.     *)
(***************************************************************************)
EXTENDS Integers, FiniteSets

CONSTANTS Task, Limit

VARIABLES
    task,    \* where each task stands, or how it ended
    call     \* where the call stands, or how it ended

vars == <<task, call>>

Init ==
    /\ call \in {"unmade", "running"}
    /\ task = [t \in Task |-> IF call = "unmade" THEN "none" ELSE "waiting"]

Working == {t \in Task : task[t] = "working"}

-------------------------------------------------------------------------------
Make ==
    /\ call = "unmade"
    /\ call' = "running"
    /\ \E some \in (SUBSET Task) \ {{}} :
          task' = [t \in Task |-> IF t \in some THEN "waiting" ELSE "none"]

\* Tasks start in their order, and only below the limit, the call's end or not.
Start(t) ==
    /\ task[t] = "waiting"
    /\ Cardinality(Working) < Limit
    /\ \A s \in Task : s < t => task[s] # "waiting"
    /\ task' = [task EXCEPT ![t] = "working"]
    /\ UNCHANGED call

Finish(t) ==
    /\ task[t] = "working"
    /\ task' = [task EXCEPT ![t] = "done"]
    /\ UNCHANGED call

\* The first exception is the call's; the other tasks go on.
Fail(t) ==
    /\ task[t] = "working"
    /\ task' = [task EXCEPT ![t] = "failed"]
    /\ call' = IF call = "running" THEN "raised" ELSE call

\* Every result is there when the call returns.
Return ==
    /\ call = "running"
    /\ \A t \in Task : task[t] \in {"none", "done"}
    /\ call' = "returned"
    /\ UNCHANGED task

\* The tasks of a call that is cancelled are cancelled with it.
Cancel ==
    /\ call = "running"
    /\ call' = "cancelled"
    /\ task' = [t \in Task |-> IF task[t] \in {"waiting", "working"} THEN "cancelled" ELSE task[t]]

Next ==
    \/ Make \/ Return \/ Cancel
    \/ \E t \in Task : Start(t) \/ Finish(t) \/ Fail(t)

Spec == Init /\ [][Next]_vars
===============================================================================
