------------------------------- MODULE JobStore -------------------------------
(***************************************************************************)
(* The in-memory job store (src/app/services/jobs/memory.py).              *)
(*                                                                         *)
(* Job ids are 1..NJobs in the order the jobs are submitted, so id order   *)
(* is created_at order: the order _evict_locked sorts by.  Job objects are *)
(* shared: the store's dictionary, the runner's task and the requests all  *)
(* hold the same object, so `record` is the heap and `jobs` the ids the    *)
(* dictionary holds.                                                       *)
(*                                                                         *)
(* No critical section of the store's asyncio.Lock contains an await, so   *)
(* the lock is never contended and put, get and list never suspend: each   *)
(* is part of one atomic step of the event loop.  Only wait_for_terminal   *)
(* suspends, on the job's Event.                                           *)
(***************************************************************************)
EXTENDS Integers, FiniteSets

CONSTANTS
    NJobs,             \* how many jobs are ever submitted (bound)
    Request,           \* long-polling requests
    MaxJobs,           \* max_jobs: the store's cap
    DefaultRetention,  \* retention_seconds of the store
    Retention,         \* values job.retention_seconds takes; None is NoRetention
    NoRetention,
    MaxTime            \* last value of the clock (bound)

ASSUME JobStoreAssumption ==
    /\ NJobs \in Nat \ {0}
    /\ MaxJobs \in Nat \ {0}
    /\ DefaultRetention \in Int
    /\ Retention \subseteq Int \cup {NoRetention}
    /\ NoRetention \notin Int
    /\ MaxTime \in Nat

VARIABLES
    now,      \* the clock: the reading of time.time
    record,   \* the Job objects
    jobs,     \* the ids in _jobs
    settled,  \* _settled: the Event of each id, or "absent"
    waiter    \* the long-polling requests

storeVars == <<now, record, jobs, settled, waiter>>

Job == 1..NJobs

TerminalStatus == {"succeeded", "failed", "cancelled"}
Status == {"queued", "running"} \cup TerminalStatus

\* "unborn" stands for an id not handed out yet.
JobRecord == [status : Status \cup {"unborn"},
              retention : Retention \cup {NoRetention},
              finishedAt : 0..MaxTime]

\* An idle request waits on no job.
Idle == [at |-> "idle", job |-> 0]

Waiter == {Idle} \cup [at : {"asleep", "woken"}, job : Job]

StoreTypeOK ==
    /\ now \in 0..MaxTime
    /\ record \in [Job -> JobRecord]
    /\ jobs \in SUBSET Job
    /\ settled \in [Job -> {"absent", "clear", "set"}]
    /\ waiter \in [Request -> Waiter]

StoreInit ==
    /\ now = 0
    /\ record = [j \in Job |-> [status |-> "unborn",
                                retention |-> NoRetention,
                                finishedAt |-> 0]]
    /\ jobs = {}
    /\ settled = [j \in Job |-> "absent"]
    /\ waiter = [r \in Request |-> Idle]

-------------------------------------------------------------------------------
\* The store's helpers.  `rec` is the heap they read: a caller that changes a
\* job before it calls put passes the heap as it has left it.

IsTerminal(rec, j) == rec[j].status \in TerminalStatus

Live(j) == record[j].status \in {"queued", "running"}

RetentionOf(rec, j) ==
    IF rec[j].retention = NoRetention THEN DefaultRetention ELSE rec[j].retention

\* Mutant: _expired without its first test.
Expired_UnfinishedToo(rec, j) ==
    /\ RetentionOf(rec, j) > 0
    /\ now - rec[j].finishedAt >= RetentionOf(rec, j)

Expired(rec, j) ==
    /\ IsTerminal(rec, j)
    /\ RetentionOf(rec, j) > 0
    /\ now - rec[j].finishedAt >= RetentionOf(rec, j)

\* What _purge_locked leaves in the dictionary.
Unexpired(rec) == {j \in jobs : ~Expired(rec, j)}

\* Mutants of the eviction: it takes unfinished jobs too, or the newest first.
Victims_UnfinishedToo(rec, held) ==
    {j \in held : Cardinality({k \in held : k < j}) < Cardinality(held) - MaxJobs}

Victims_NewestFirst(rec, held) ==
    {j \in held :
        /\ IsTerminal(rec, j)
        /\ Cardinality({k \in held : k > j /\ IsTerminal(rec, k)})
             < Cardinality(held) - MaxJobs}

\* The jobs _evict_locked drops from a dictionary holding `held`: the oldest
\* finished ones, as many as it takes to come back to the cap.
Victims(rec, held) ==
    {j \in held :
        /\ IsTerminal(rec, j)
        /\ Cardinality({k \in held : k < j /\ IsTerminal(rec, k)})
             < Cardinality(held) - MaxJobs}

\* Mutant: an Event is popped or replaced, but never set.
Woken_Nobody(S) == waiter

\* Setting the Events of the jobs in S wakes every request asleep on one.
Woken(S) ==
    [r \in Request |->
        IF waiter[r].at = "asleep" /\ waiter[r].job \in S
        THEN [waiter[r] EXCEPT !.at = "woken"]
        ELSE waiter[r]]

\* Mutant: _release sets the Event but leaves it in _settled.
EventsOf_NeverPopped(kept) == settled

\* _release pops, and sets, the Event of every job that leaves the dictionary.
EventsOf(kept) == [k \in Job |-> IF k \in kept THEN settled[k] ELSE "absent"]

-------------------------------------------------------------------------------
\* The store's operations, as the part of a step that calls them.

\* get and list read after a purge.
Purge ==
    /\ jobs' = Unexpired(record)
    /\ settled' = EventsOf(Unexpired(record))
    /\ waiter' = Woken(jobs \ Unexpired(record))
    /\ UNCHANGED <<now, record>>

\* put(job) by a caller that has just left the heap as rec.
Put(j, rec) ==
    LET held == Unexpired(rec) \cup {j}
        kept == held \ Victims(rec, held)
        done == IF IsTerminal(rec, j) THEN {j} ELSE {}
    IN  /\ record' = rec
        /\ jobs' = kept
        /\ settled' = [k \in Job |->
                         IF k # j \/ k \notin kept THEN EventsOf(kept)[k]
                         ELSE IF k \in done THEN "set"
                         ELSE IF settled[k] = "absent" THEN "clear"
                         ELSE settled[k]]
        /\ waiter' = Woken((jobs \ kept) \cup done)
        /\ UNCHANGED now

\* GET /v1/jobs/{j}?wait_seconds=...: answered at once when the job is unknown
\* or already terminal, otherwise asleep on the job's Event.
BeginWait(r, j) ==
    LET found == Unexpired(record)
        sleeps == j \in found /\ ~IsTerminal(record, j)
    IN  /\ waiter[r].at = "idle"
        /\ record[j].status # "unborn"
        /\ jobs' = found
        /\ settled' = [k \in Job |->
                         IF k = j /\ sleeps /\ settled[k] = "absent"
                         THEN "clear" ELSE EventsOf(found)[k]]
        /\ waiter' = [Woken(jobs \ found) EXCEPT
                        ![r] = IF sleeps THEN [at |-> "asleep", job |-> j] ELSE Idle]
        /\ UNCHANGED <<now, record>>

\* The second get of wait_for_terminal: r answers with what it finds by then.
AnswerWait(r) ==
    LET found == Unexpired(record)
    IN  /\ jobs' = found
        /\ settled' = EventsOf(found)
        /\ waiter' = [Woken(jobs \ found) EXCEPT ![r] = Idle]
        /\ UNCHANGED <<now, record>>

\* The Event was set.
ResumeWait(r) == waiter[r].at = "woken" /\ AnswerWait(r)

\* asyncio.timeout fired first.
TimeOutWait(r) == waiter[r].at = "asleep" /\ AnswerWait(r)

\* Time passes.
Tick ==
    /\ now < MaxTime
    /\ now' = now + 1
    /\ UNCHANGED <<record, jobs, settled, waiter>>
-------------------------------------------------------------------------------
\* A job that has not finished is never dropped from the store, however full
\* the store is: its owner can always poll it (memory.py, _evict_locked and
\* _expired spare what is not terminal).
UnfinishedKept == \A j \in Job : Live(j) => j \in jobs

\* _settled has an Event for exactly the jobs in _jobs, set exactly when the
\* job is terminal: no Event outlives its job through purges, evictions and
\* the late put of a cancelled job that had already been dropped.
EventsMatchJobs ==
    \A j \in Job :
        settled[j] = (IF j \notin jobs THEN "absent"
                      ELSE IF IsTerminal(record, j) THEN "set"
                      ELSE "clear")

\* A request sleeps only on a job that is stored and unfinished, and wakes only
\* once its job has settled: a long poll never sleeps through the end of its
\* job, nor answers "still running" without its timeout (memory.py,
\* wait_for_terminal against put, _purge_locked and _evict_locked).
NoLostWakeUp ==
    \A r \in Request :
        /\ waiter[r].at = "asleep" => waiter[r].job \in jobs /\ Live(waiter[r].job)
        /\ waiter[r].at = "woken" => IsTerminal(record, waiter[r].job)
===============================================================================
