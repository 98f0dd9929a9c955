------------------------- MODULE JobRunnerProperties -------------------------
(***************************************************************************)
(* What the job runner, its store and its requests promise together.       *)
(***************************************************************************)
EXTENDS JobRunner

\* The tasks that hold one of the semaphore's slots, or have been given one.
Holders(t) == {j \in Job : t[j] \in {"granted", "revoked", "working", "unwinding"}}

-------------------------------------------------------------------------------
\* No slot of the semaphore is lost or invented by any mix of admissions,
\* cancellations while queued and completions; so at most max_concurrent jobs
\* are ever in work() (runner.py, async with self._semaphore).
SlotsConserved ==
    /\ value >= 0
    /\ value + Cardinality(Holders(task)) = MaxConcurrent

\* A slot is free while a job waits only until a task already woken resumes: it
\* hands the free slots out (a job that begins while another has been granted a
\* slot queues behind it even though a slot is left).
FreeSlotIsPassedOn ==
    value > 0 /\ Pending(task) # {} =>
        \E j \in Job : task[j] \in {"granted", "revoked"}

\* Jobs are admitted in the order they were submitted: none is given a slot
\* while an older one still waits.
NoOvertaking ==
    \A j, k \in Job : j < k /\ task[j] = "waiting" => k \notin Holders(task)

\* The status a client reads says what the task is doing: a job shown as
\* running is in work(), one shown as queued has still to start, and one shown
\* as settled never starts.  Only aclose, which interrupts tasks without
\* recording it, leaves the two apart.
StatusMatchesTask ==
    \A j \in Job :
        LET s == record[j].status
            t == task[j]
        IN  /\ s = "unborn" <=> t = "none"
            /\ s = "queued" =>
                 \/ t \in {"created", "waiting", "granted"}
                 \/ server # "open" /\ t \in {"doomed", "dropped", "revoked", "done", "gone"}
            /\ s = "running" => t = "working" \/ (server # "open" /\ t = "unwinding")
            /\ s = "cancelled" =>
                 t \in {"doomed", "dropped", "revoked", "unwinding", "done", "gone"}
            /\ s \in {"succeeded", "failed"} => t \in {"done", "gone"}

\* Once aclose has returned no job is left recorded as running and every slot
\* is back (runner.py, aclose: "so shutdown leaves no job stuck running").
NothingRunsAfterClose ==
    server = "closed" =>
        /\ \A j \in Job : record[j].status # "running"
        /\ value = MaxConcurrent

-------------------------------------------------------------------------------
\* A recorded outcome is never replaced, except that the unwinding of a
\* cancelled job may record its own end: a late cancel does not overwrite a
\* result, and a late result does not overwrite a cancel (runner.py, the
\* is_terminal check of cancel against _finish).
OutcomeKeptStep ==
    \A j \in Job :
        IsTerminal(record, j) /\ record'[j].status # record[j].status
          => task[j] = "unwinding" /\ record'[j].status = "failed"

OutcomeKept == [][OutcomeKeptStep]_vars

\* A job leaves the store only when its retention has run out, or when the
\* store was over its cap and every older finished job left with it.
RemovalJustifiedStep ==
    \A j \in jobs \ jobs' :
        /\ IsTerminal(record', j)
        /\ \/ Expired(record, j)
           \/ /\ Cardinality(jobs') >= MaxJobs
              /\ \A k \in jobs' : IsTerminal(record', k) => k > j

RemovalJustified == [][RemovalJustifiedStep]_vars

-------------------------------------------------------------------------------
\* Every submitted job settles, unless the server shuts down first.
EveryJobSettles ==
    \A j \in Job : Live(j) ~> (IsTerminal(record, j) \/ server # "open")

\* A long poll is answered even if its timeout never fires.
EveryPollAnswered ==
    \A r \in Request : (waiter[r].at # "idle") ~> (waiter[r].at = "idle" \/ server # "open")
===============================================================================
