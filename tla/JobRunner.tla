------------------------------ MODULE JobRunner ------------------------------
(***************************************************************************)
(* The job runner (src/app/services/jobs/runner.py) over the job store,    *)
(* with the requests that submit, poll, long-poll and cancel jobs and the  *)
(* shutdown that closes the runner.                                        *)
(*                                                                         *)
(* One action is one step of the event loop: the code between two awaits   *)
(* that suspend.  task[j] is where job j's asyncio.Task stands:            *)
(*                                                                         *)
(*   none      not submitted         waiting    in semaphore.acquire       *)
(*   created   scheduled, not begun  granted    its future has a result    *)
(*   doomed    created, cancelled    dropped    waiting, cancelled         *)
(*   working   in work()             revoked    granted, cancelled         *)
(*   unwinding working, cancelled    done       finished, callback pending *)
(*                                   gone       popped from _tasks         *)
(***************************************************************************)
EXTENDS JobStore

CONSTANT MaxConcurrent    \* max_concurrent: jobs that may run at once

ASSUME MaxConcurrentAssumption == MaxConcurrent \in Nat \ {0}

VARIABLES
    task,     \* the Task of each job
    value,    \* the semaphore's counter
    server    \* "open", "closing" while aclose awaits its tasks, "closed"

vars == <<now, record, jobs, settled, waiter, task, value, server>>

QueueState == {"waiting", "granted", "dropped", "revoked"}

TaskState == {"none", "created", "doomed", "working", "unwinding", "done", "gone"}
             \cup QueueState

TypeOK ==
    /\ StoreTypeOK
    /\ task \in [Job -> TaskState]
    /\ value \in Int
    /\ server \in {"open", "closing", "closed"}

Init ==
    /\ StoreInit
    /\ task = [j \in Job |-> "none"]
    /\ value = MaxConcurrent
    /\ server = "open"

-------------------------------------------------------------------------------
\* asyncio.Semaphore, as the runner uses it.  Its _waiters are the tasks in a
\* QueueState; tasks begin in the order they were created (the loop's ready
\* queue is a FIFO), so id order is the order of the queue.

Pending(t) == {j \in Job : t[j] = "waiting"}

\* locked(): no slot, or someone whose wait is not cancelled is ahead.
Locked == value = 0 \/ \E k \in Job : task[k] \in {"waiting", "granted", "revoked"}

\* Mutant: waiters are taken from the wrong end of the deque.
First_FromTheEnd(t, n) ==
    {j \in Pending(t) : Cardinality({k \in Pending(t) : k > j}) < n}

\* The first n pending waiters.
First(t, n) ==
    {j \in Pending(t) : Cardinality({k \in Pending(t) : k < j}) < n}

\* _wake_up_next, repeated for at most n slots, after the task table became t
\* and the counter v.
WakeUp(t, v, n) ==
    /\ task' = [j \in Job |-> IF j \in First(t, n) THEN "granted" ELSE t[j]]
    /\ value' = v - Cardinality(First(t, n))

\* Mutant: a task that ends keeps its slot.
Release_Leaks(t) == WakeUp(t, value, 0)

\* release: one more slot, handed to the next waiter if there is one.
Release(t) == WakeUp(t, value + 1, 1)

\* Mutant: the last waiter to resume does not look at the queue behind it.
HandOut_Nobody(t, v) == WakeUp(t, v, 0)

\* The loop that ends a queued acquire: hand out every free slot.
HandOut(t, v) == WakeUp(t, v, v)

\* Mutant: a job that waits for its slot is not interrupted.
CancelledTask_NotInQueue(t) ==
    CASE t = "created" -> "doomed"
      [] t = "working" -> "unwinding"
      [] OTHER -> t

\* Task.cancel.
CancelledTask(t) ==
    CASE t = "created" -> "doomed"
      [] t = "waiting" -> "dropped"
      [] t = "granted" -> "revoked"
      [] t = "working" -> "unwinding"
      [] OTHER -> t

-------------------------------------------------------------------------------
\* What the code does to a Job object before it puts it.

Running(j) == [record EXCEPT ![j].status = "running"]

\* _finish.
Finished(j, status) ==
    [record EXCEPT ![j].status = status, ![j].finishedAt = now]

-------------------------------------------------------------------------------
\* The requests.

\* submit: the job is stored as queued and its task scheduled.
Submit(j, retention) ==
    /\ server = "open"
    /\ task[j] = "none"
    /\ \A k \in Job : k < j => task[k] # "none"
    /\ Put(j, [record EXCEPT ![j] = [status |-> "queued",
                                     retention |-> retention,
                                     finishedAt |-> 0]])
    /\ task' = [task EXCEPT ![j] = "created"]
    /\ UNCHANGED <<value, server>>

\* GET /v1/jobs and GET /v1/jobs/{id}, and a cancel of a job that is unknown or
\* already terminal: nothing changes but what the purge drops.
Read ==
    /\ server = "open"
    /\ Purge
    /\ UNCHANGED <<task, value, server>>

\* Mutant: cancel without its test of is_terminal.
Cancel_SettledToo(j) ==
    /\ server = "open"
    /\ j \in Unexpired(record)
    /\ Put(j, Finished(j, "cancelled"))
    /\ task' = [task EXCEPT ![j] = CancelledTask(task[j])]
    /\ UNCHANGED <<value, server>>

\* DELETE /v1/jobs/{id} of a live job: its task is interrupted and the job is
\* recorded as cancelled at once, before the task has had a chance to react.
Cancel(j) ==
    /\ server = "open"
    /\ j \in Unexpired(record)
    /\ ~IsTerminal(record, j)
    /\ Put(j, Finished(j, "cancelled"))
    /\ task' = [task EXCEPT ![j] = CancelledTask(task[j])]
    /\ UNCHANGED <<value, server>>

LongPoll(r, j) ==
    /\ server = "open"
    /\ BeginWait(r, j)
    /\ UNCHANGED <<task, value, server>>

Answer(r) == ResumeWait(r) /\ UNCHANGED <<task, value, server>>

GiveUp(r) == TimeOutWait(r) /\ UNCHANGED <<task, value, server>>

-------------------------------------------------------------------------------
\* _execute, one step of a job's task at a time.

\* The loop's ready queue: older tasks take their first step first.
FirstToBegin(j) == \A k \in Job : k < j => task[k] \notin {"created", "doomed"}

\* The task's first step: take a free slot, or join the queue.
Begin(j) ==
    /\ task[j] = "created"
    /\ FirstToBegin(j)
    /\ \/ /\ ~Locked
          /\ value' = value - 1
          /\ task' = [task EXCEPT ![j] = "working"]
          /\ Put(j, Running(j))
       \/ /\ Locked
          /\ task' = [task EXCEPT ![j] = "waiting"]
          /\ UNCHANGED <<storeVars, value>>
    /\ UNCHANGED server

\* Cancelled before its first step: the coroutine's body never runs.
NeverBegin(j) ==
    /\ task[j] = "doomed"
    /\ FirstToBegin(j)
    /\ task' = [task EXCEPT ![j] = "done"]
    /\ UNCHANGED <<storeVars, value, server>>

\* The queued acquire returns: the job runs.
Admit(j) ==
    /\ task[j] = "granted"
    /\ HandOut([task EXCEPT ![j] = "working"], value)
    /\ Put(j, Running(j))
    /\ UNCHANGED server

\* Mutant: a slot granted to a task that is then cancelled is lost.
LeaveQueue_SlotLost(j) ==
    /\ task[j] \in {"dropped", "revoked"}
    /\ HandOut([task EXCEPT ![j] = "done"], value)
    /\ UNCHANGED <<storeVars, server>>

\* The queued acquire is cancelled; a slot it had been given goes back.
LeaveQueue(j) ==
    /\ \/ /\ task[j] = "dropped"
          /\ HandOut([task EXCEPT ![j] = "done"], value)
       \/ /\ task[j] = "revoked"
          /\ HandOut([task EXCEPT ![j] = "done"], value + 1)
    /\ UNCHANGED <<storeVars, server>>

\* work() returns or raises, the outcome is recorded and the slot released.
\* A cancelled work() unwinds: it re-raises CancelledError, or an error of its
\* own clean-up replaces it and is recorded as a failure.
Finish(j, status) ==
    /\ \/ task[j] = "working" /\ status \in {"succeeded", "failed"}
       \/ task[j] = "unwinding" /\ status \in {"cancelled", "failed"}
    /\ Put(j, Finished(j, status))
    /\ Release([task EXCEPT ![j] = "done"])
    /\ UNCHANGED server

\* The done callback: _tasks.pop.
Forget(j) ==
    /\ task[j] = "done"
    /\ task' = [task EXCEPT ![j] = "gone"]
    /\ UNCHANGED <<storeVars, value, server>>

-------------------------------------------------------------------------------
\* aclose: cancel every task, then wait for all of them.  The server has
\* stopped taking requests by then.

Close ==
    /\ server = "open"
    /\ server' = "closing"
    /\ task' = [j \in Job |-> CancelledTask(task[j])]
    /\ UNCHANGED <<storeVars, value>>

\* Mutant: aclose does not gather the tasks it cancels.
Closed_WithoutWaiting ==
    /\ server = "closing"
    /\ server' = "closed"
    /\ UNCHANGED <<storeVars, task, value>>

Closed ==
    /\ server = "closing"
    /\ \A j \in Job : task[j] \in {"none", "gone"}
    /\ server' = "closed"
    /\ UNCHANGED <<storeVars, task, value>>

PassTime == Tick /\ UNCHANGED <<task, value, server>>

-------------------------------------------------------------------------------
TaskStep(j) ==
    \/ Begin(j)
    \/ NeverBegin(j)
    \/ Admit(j)
    \/ LeaveQueue(j)
    \/ \E status \in TerminalStatus : Finish(j, status)
    \/ Forget(j)

Next ==
    \/ \E j \in Job, retention \in Retention \cup {NoRetention} : Submit(j, retention)
    \/ Read
    \/ \E j \in Job : Cancel(j) \/ TaskStep(j)
    \/ \E r \in Request, j \in Job : LongPoll(r, j)
    \/ \E r \in Request : Answer(r) \/ GiveUp(r)
    \/ Close
    \/ Closed
    \/ PassTime

Spec == Init /\ [][Next]_vars

\* The event loop runs every callback that is ready, and work() ends: every
\* outside call it makes has a timeout.  No request, timeout, cancellation or
\* shutdown is owed.
Fairness ==
    /\ \A j \in Job : WF_vars(TaskStep(j))
    /\ \A r \in Request : WF_vars(Answer(r))

FairSpec == Spec /\ Fairness
===============================================================================
