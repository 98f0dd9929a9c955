---------------------------- MODULE JobRefinement ----------------------------
(***************************************************************************)
(* The runner and its store implement the lifecycle a client is promised.  *)
(***************************************************************************)
EXTENDS JobRunnerProperties

\* What a GET of the job answers: it reads after a purge.
Shown ==
    [j \in Job |->
        IF record[j].status = "unborn" THEN "unknown"
        ELSE IF j \in jobs /\ ~Expired(record, j) THEN record[j].status
        ELSE "lost"]

\* A job is cancelled while its work still unwinds.
Lingering == [j \in Job |-> task[j] = "unwinding" /\ IsTerminal(record, j)]

Lifecycle == INSTANCE JobLifecycle WITH shown <- Shown, lingering <- Lingering

\* Every behaviour of the runner, seen through the answers to GET, is one the
\* lifecycle allows: statuses move forwards, a settled job changes only by being
\* dropped, and only a job cancelled while it ran may change or come back, once,
\* when its work has unwound.
ImplementsLifecycle == Lifecycle!Spec
===============================================================================
