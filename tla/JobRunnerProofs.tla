--------------------------- MODULE JobRunnerProofs ---------------------------
(***************************************************************************)
(* Theorems about the job store and the job runner, for any number of jobs *)
(* and requests, any cap, retention and concurrency: what the store's      *)
(* operations preserve whoever calls them, what the runner's steps do, the *)
(* accounting of its semaphore, and what a client sees of a job: outcomes  *)
(* are kept, no job leaves the store before it may, and the runner         *)
(* implements JobLifecycle.                                                *)
(***************************************************************************)
EXTENDS JobRefinement, FiniteSetTheorems, WellFoundedInduction, TLAPS

-------------------------------------------------------------------------------
(* Jobs in their order. *)

\* A set of jobs that is not empty has a youngest one.
LEMMA YoungestExists ==
    ASSUME NEW S \in SUBSET Job, S # {}
    PROVE  \E m \in S : \A k \in S : k <= m
<1> DEFINE T == {n \in Nat : \E k \in S : n = NJobs - k}
           R == {pair \in Nat \X Nat : pair[1] < pair[2]}
<1>1. T \subseteq Nat
    OBVIOUS
<1>2. T # {}
    <2>1. PICK k \in S : TRUE
        OBVIOUS
    <2>2. NJobs - k \in T
        BY JobStoreAssumption DEF Job
    <2>3. QED
        BY <2>2
<1>3. PICK x \in T : \A y \in T : ~(<<y, x>> \in R)
    <2>1. IsWellFoundedOn(R, Nat)
        BY NatLessThanWellFounded, Zenon DEF OpToRel
    <2>2. QED
        BY <1>1, <1>2, <2>1, WFMin
<1>4. ASSUME NEW y \in T PROVE x <= y
    <2>1. x \in Nat /\ y \in Nat
        BY <1>1, <1>3
    <2>2. ~(<<y, x>> \in R)
        BY <1>3
    <2> HIDE DEF T
    <2>3. ~(y < x)
        BY <2>1, <2>2
    <2>4. QED
        BY <2>1, <2>3
<1>5. PICK m \in S : x = NJobs - m
    BY <1>3
<1>6. ASSUME NEW k \in S PROVE k <= m
    <2>1. NJobs - k \in T
        BY JobStoreAssumption DEF Job
    <2>2. x <= NJobs - k
        BY <1>4, <2>1
    <2>3. QED
        BY <1>5, <2>2, JobStoreAssumption DEF Job
<1>7. QED
    BY <1>6

\* ... and an oldest one.
LEMMA OldestExists ==
    ASSUME NEW S \in SUBSET Job, S # {}
    PROVE  \E m \in S : \A k \in S : m <= k
<1> DEFINE R == {pair \in Nat \X Nat : pair[1] < pair[2]}
<1>1. S \subseteq Nat
    BY JobStoreAssumption DEF Job
<1>2. PICK m \in S : \A k \in S : ~(<<k, m>> \in R)
    <2>1. IsWellFoundedOn(R, Nat)
        BY NatLessThanWellFounded, Zenon DEF OpToRel
    <2>2. QED
        BY <1>1, <2>1, WFMin
<1>3. ASSUME NEW k \in S PROVE m <= k
    <2>1. m \in Nat /\ k \in Nat
        BY <1>1
    <2>2. ~(k < m)
        BY <1>2, <2>1
    <2>3. QED
        BY <2>1, <2>2
<1>4. QED
    BY <1>3

-------------------------------------------------------------------------------
(* The store. *)

\* What ties the dictionary, the Events and the sleeping requests together.
\* That an id not handed out is not stored is what makes it inductive: the Event
\* of a job stored for the first time is then a fresh one.
StoreInv ==
    /\ UnfinishedKept
    /\ EventsMatchJobs
    /\ NoLostWakeUp
    /\ \A j \in jobs : record[j].status # "unborn"

\* The store's operations leave the types of its variables and StoreInv intact.
\* Purge drops finished jobs only, and wakes nobody (no one sleeps on those).
LEMMA PurgePreserves ==
    ASSUME StoreTypeOK, StoreInv, Purge
    PROVE  StoreTypeOK' /\ StoreInv'
<1>1. Unexpired(record) \subseteq jobs
    BY DEF Unexpired
<1>2. \A k \in jobs : ~IsTerminal(record, k) => k \in Unexpired(record)
    BY DEF Unexpired, Expired
<1>3. StoreTypeOK'
    BY <1>1 DEF Purge, StoreTypeOK, EventsOf, Woken, Waiter, Idle
<1>4. UnfinishedKept'
    BY <1>2 DEF Purge, StoreTypeOK, StoreInv, UnfinishedKept, Live, IsTerminal, TerminalStatus
<1>5. EventsMatchJobs'
    BY <1>1 DEF Purge, StoreTypeOK, StoreInv, EventsMatchJobs, EventsOf, IsTerminal
<1>6. NoLostWakeUp'
    <2>1. waiter' = waiter
        BY <1>1, <1>2 DEF Purge, StoreTypeOK, StoreInv, NoLostWakeUp, Woken, Live,
                          IsTerminal, TerminalStatus
    <2>2. QED
        BY <1>2, <2>1 DEF Purge, StoreTypeOK, StoreInv, NoLostWakeUp, Live,
                          IsTerminal, TerminalStatus
<1>7. \A j \in jobs' : record'[j].status # "unborn"
    BY <1>1 DEF Purge, StoreInv
<1>8. QED
    BY <1>3, <1>4, <1>5, <1>6, <1>7 DEF StoreInv

-------------------------------------------------------------------------------
\* put, by a caller that has only moved its own job forward: the job is stored
\* or dropped with its Event set, and only finished jobs make room for it.
LEMMA PutPreserves ==
    ASSUME StoreTypeOK, StoreInv,
           NEW j \in Job, NEW rec \in [Job -> JobRecord],
           \A k \in Job \ {j} : rec[k] = record[k],
           rec[j].status # "unborn",
           IsTerminal(record, j) => IsTerminal(rec, j),
           Put(j, rec)
    PROVE  /\ StoreTypeOK' /\ StoreInv'
           /\ record' = rec
           /\ now' = now
<1> DEFINE held == Unexpired(rec) \cup {j}
           kept == held \ Victims(rec, held)
           done == IF IsTerminal(rec, j) THEN {j} ELSE {}
<1>1. /\ record' = rec
      /\ jobs' = kept
      /\ settled' = [k \in Job |->
                       IF k # j \/ k \notin kept THEN EventsOf(kept)[k]
                       ELSE IF k \in done THEN "set"
                       ELSE IF settled[k] = "absent" THEN "clear"
                       ELSE settled[k]]
      /\ waiter' = Woken((jobs \ kept) \cup done)
      /\ now' = now
    BY DEF Put
<1>2. kept \subseteq jobs \cup {j}
    BY DEF Unexpired
<1>3. \A k \in jobs \cup {j} : ~IsTerminal(rec, k) => k \in kept
    BY DEF Unexpired, Expired, Victims
<1>4. \A k \in Job : rec[k].status \in Status \cup {"unborn"}
    BY DEF JobRecord
<1>5. \A k \in Job : IsTerminal(record, k) => IsTerminal(rec, k)
    BY DEF IsTerminal
<1> HIDE DEF held, kept, done
<1>6. done = IF IsTerminal(rec, j) THEN {j} ELSE {}
    BY DEF done
<1>7. StoreTypeOK'
    <2>1. jobs' \in SUBSET Job /\ record' \in [Job -> JobRecord] /\ now' \in 0..MaxTime
        BY <1>1, <1>2 DEF StoreTypeOK
    <2>2. settled' \in [Job -> {"absent", "clear", "set"}]
        BY <1>1 DEF StoreTypeOK, EventsOf
    <2>3. waiter' \in [Request -> Waiter]
        BY <1>1 DEF StoreTypeOK, Woken, Waiter, Idle
    <2>4. QED
        BY <2>1, <2>2, <2>3 DEF StoreTypeOK
<1>8. UnfinishedKept'
    <2>1. SUFFICES ASSUME NEW k \in Job, rec[k].status \in {"queued", "running"}
                   PROVE  k \in kept
        BY <1>1 DEF UnfinishedKept, Live
    <2>2. ~IsTerminal(rec, k)
        BY <2>1 DEF IsTerminal, TerminalStatus
    <2>3. k \in jobs \cup {j}
        BY <2>1 DEF StoreInv, UnfinishedKept, Live
    <2>4. QED
        BY <1>3, <2>2, <2>3
<1>9. EventsMatchJobs'
    <2>1. SUFFICES ASSUME NEW k \in Job
                   PROVE  settled'[k] = (IF k \notin kept THEN "absent"
                                         ELSE IF IsTerminal(rec, k) THEN "set"
                                         ELSE "clear")
        BY <1>1 DEF EventsMatchJobs, IsTerminal
    <2>2. CASE k # j
        BY <1>1, <1>2, <2>2 DEF EventsOf, StoreInv, EventsMatchJobs, IsTerminal
    <2>3. CASE k = j
        BY <1>1, <1>5, <1>6, <2>3 DEF EventsOf, StoreInv, EventsMatchJobs
    <2>4. QED
        BY <2>2, <2>3
<1>10. NoLostWakeUp'
    <2>1. SUFFICES ASSUME NEW r \in Request
                   PROVE  /\ waiter'[r].at = "asleep" =>
                               /\ waiter'[r].job \in kept
                               /\ rec[waiter'[r].job].status \in {"queued", "running"}
                          /\ waiter'[r].at = "woken" => IsTerminal(rec, waiter'[r].job)
        BY <1>1 DEF NoLostWakeUp, Live, IsTerminal
    <2> DEFINE k == waiter[r].job
    <2>2. waiter'[r].job = k
        BY <1>1 DEF Woken, StoreTypeOK, Waiter, Idle
    <2>3. CASE waiter[r].at = "asleep"
        <3>1. k \in jobs /\ k \in Job
            BY <2>3 DEF StoreInv, NoLostWakeUp, StoreTypeOK
        <3>2. rec[k].status # "unborn"
            BY <3>1 DEF StoreInv
        <3>3. CASE k \in kept /\ k \notin done
            <4>1. waiter'[r] = waiter[r]
                BY <1>1, <3>3 DEF Woken
            <4>2. ~IsTerminal(rec, k)
                <5>1. CASE k = j
                    BY <5>1, <3>3, <1>6
                <5>2. CASE k # j
                    BY <5>2, <3>1, <2>3 DEF StoreInv, NoLostWakeUp, Live, IsTerminal,
                                            TerminalStatus
                <5>3. QED
                    BY <5>1, <5>2
            <4>3. rec[k].status \in {"queued", "running"}
                BY <4>2, <3>2, <3>1, <1>4 DEF IsTerminal, Status
            <4>4. QED
                BY <2>3, <3>3, <4>1, <4>3
        <3>4. CASE k \notin kept \/ k \in done
            <4>1. waiter'[r].at = "woken"
                BY <1>1, <2>3, <3>1, <3>4 DEF Woken, StoreTypeOK, Waiter, Idle
            <4>2. IsTerminal(rec, k)
                BY <1>3, <1>6, <3>1, <3>4
            <4>3. QED
                BY <2>2, <4>1, <4>2
        <3>5. QED
            BY <3>3, <3>4
    <2>4. CASE waiter[r].at # "asleep"
        <3>1. waiter'[r] = waiter[r]
            BY <1>1, <2>4 DEF Woken
        <3>2. waiter[r].at = "woken" => k \in Job
            BY DEF StoreTypeOK, Waiter, Idle
        <3>3. QED
            BY <1>5, <2>4, <3>1, <3>2 DEF StoreInv, NoLostWakeUp
    <2>5. QED
        BY <2>3, <2>4
<1>11. \A k \in jobs' : record'[k].status # "unborn"
    BY <1>1, <1>2 DEF StoreInv, StoreTypeOK
<1>12. QED
    BY <1>1, <1>7, <1>8, <1>9, <1>10, <1>11 DEF StoreInv

-------------------------------------------------------------------------------
\* A request that starts to wait sleeps on a stored, unfinished job or not at all.
LEMMA BeginWaitPreserves ==
    ASSUME StoreTypeOK, StoreInv, NEW r \in Request, NEW j \in Job, BeginWait(r, j)
    PROVE  StoreTypeOK' /\ StoreInv'
<1> DEFINE found == Unexpired(record)
           sleeps == j \in found /\ ~IsTerminal(record, j)
<1>1. /\ jobs' = found
      /\ settled' = [k \in Job |->
                       IF k = j /\ sleeps /\ settled[k] = "absent"
                       THEN "clear" ELSE EventsOf(found)[k]]
      /\ waiter' = [Woken(jobs \ found) EXCEPT
                      ![r] = IF sleeps THEN [at |-> "asleep", job |-> j] ELSE Idle]
      /\ UNCHANGED <<now, record>>
    BY DEF BeginWait
<1>2. found \subseteq jobs
    BY DEF Unexpired
<1>3. \A k \in jobs : ~IsTerminal(record, k) => k \in found
    BY DEF Unexpired, Expired
<1>4. Woken(jobs \ found) = waiter
    BY <1>3 DEF StoreTypeOK, StoreInv, NoLostWakeUp, Woken, Live, IsTerminal, TerminalStatus
<1> HIDE DEF found
<1>5. waiter' = [waiter EXCEPT
                   ![r] = IF sleeps THEN [at |-> "asleep", job |-> j] ELSE Idle]
    BY <1>1, <1>4
<1>6. StoreTypeOK'
    <2>1. jobs' \in SUBSET Job
        BY <1>1, <1>2 DEF StoreTypeOK
    <2>2. settled' \in [Job -> {"absent", "clear", "set"}]
        BY <1>1 DEF StoreTypeOK, EventsOf
    <2>3. waiter' \in [Request -> Waiter]
        BY <1>5 DEF StoreTypeOK, Waiter
    <2>4. QED
        BY <1>1, <2>1, <2>2, <2>3 DEF StoreTypeOK
<1>7. UnfinishedKept'
    BY <1>1, <1>3 DEF StoreTypeOK, StoreInv, UnfinishedKept, Live, IsTerminal, TerminalStatus
<1>8. EventsMatchJobs'
    BY <1>1, <1>2 DEF StoreTypeOK, StoreInv, EventsMatchJobs, EventsOf, IsTerminal
<1>9. NoLostWakeUp'
    <2>1. SUFFICES ASSUME NEW q \in Request
                   PROVE  /\ waiter'[q].at = "asleep" =>
                               /\ waiter'[q].job \in found
                               /\ record[waiter'[q].job].status \in {"queued", "running"}
                          /\ waiter'[q].at = "woken" => IsTerminal(record, waiter'[q].job)
        BY <1>1 DEF NoLostWakeUp, Live, IsTerminal
    <2>2. CASE q # r
        <3>1. waiter'[q] = waiter[q]
            BY <1>5, <2>2 DEF StoreTypeOK
        <3>2. QED
            BY <3>1, <1>3 DEF StoreInv, NoLostWakeUp, Live, IsTerminal, TerminalStatus
    <2>3. CASE q = r /\ sleeps
        <3>1. waiter'[q] = [at |-> "asleep", job |-> j]
            BY <1>5, <2>3 DEF StoreTypeOK
        <3>2. record[j].status \in {"queued", "running"}
            BY <1>2, <2>3 DEF StoreInv, StoreTypeOK, JobRecord, Status, IsTerminal
        <3>3. QED
            BY <2>3, <3>1, <3>2
    <2>4. CASE q = r /\ ~sleeps
        BY <1>5, <2>4 DEF StoreTypeOK, Idle
    <2>5. QED
        BY <2>2, <2>3, <2>4
<1>10. \A k \in jobs' : record'[k].status # "unborn"
    BY <1>1, <1>2 DEF StoreInv
<1>11. QED
    BY <1>6, <1>7, <1>8, <1>9, <1>10 DEF StoreInv

\* A request that answers leaves everything else as a purge does.
LEMMA AnswerWaitPreserves ==
    ASSUME StoreTypeOK, StoreInv, NEW r \in Request, AnswerWait(r)
    PROVE  StoreTypeOK' /\ StoreInv'
<1> DEFINE found == Unexpired(record)
<1>1. /\ jobs' = found
      /\ settled' = EventsOf(found)
      /\ waiter' = [Woken(jobs \ found) EXCEPT ![r] = Idle]
      /\ UNCHANGED <<now, record>>
    BY DEF AnswerWait
<1>2. found \subseteq jobs
    BY DEF Unexpired
<1>3. \A k \in jobs : ~IsTerminal(record, k) => k \in found
    BY DEF Unexpired, Expired
<1>4. Woken(jobs \ found) = waiter
    BY <1>3 DEF StoreTypeOK, StoreInv, NoLostWakeUp, Woken, Live, IsTerminal, TerminalStatus
<1> HIDE DEF found
<1>5. StoreTypeOK'
    BY <1>1, <1>2, <1>4 DEF StoreTypeOK, EventsOf, Waiter
<1>6. UnfinishedKept'
    BY <1>1, <1>3 DEF StoreTypeOK, StoreInv, UnfinishedKept, Live, IsTerminal, TerminalStatus
<1>7. EventsMatchJobs'
    BY <1>1, <1>2 DEF StoreTypeOK, StoreInv, EventsMatchJobs, EventsOf, IsTerminal
<1>8. NoLostWakeUp'
    <2>1. \A q \in Request : waiter'[q] = waiter[q] \/ waiter'[q] = Idle
        BY <1>1, <1>4 DEF StoreTypeOK
    <2>2. QED
        <3>1. SUFFICES ASSUME NEW q \in Request
                       PROVE  /\ waiter'[q].at = "asleep" =>
                                   /\ waiter'[q].job \in found
                                   /\ record[waiter'[q].job].status \in {"queued", "running"}
                              /\ waiter'[q].at = "woken" => IsTerminal(record, waiter'[q].job)
            BY <1>1 DEF NoLostWakeUp, Live, IsTerminal
        <3>2. CASE waiter'[q] = waiter[q]
            BY <1>3, <3>2 DEF StoreInv, NoLostWakeUp, Live, IsTerminal, TerminalStatus
        <3>3. CASE waiter'[q] = Idle
            BY <3>3 DEF Idle
        <3>4. QED
            BY <2>1, <3>2, <3>3
<1>9. \A k \in jobs' : record'[k].status # "unborn"
    BY <1>1, <1>2 DEF StoreInv
<1>10. QED
    BY <1>5, <1>6, <1>7, <1>8, <1>9 DEF StoreInv

-------------------------------------------------------------------------------
(* The runner. *)

\* The inductive invariant: which steps a task has left depends on its state,
\* which the job's status must match for a put never to take a settled job back.
IInv ==
    /\ TypeOK
    /\ StoreInv
    /\ StatusMatchesTask

-------------------------------------------------------------------------------
\* Job ids, and every set of them, can be counted.
LEMMA JobsCountable ==
    ASSUME NEW S \in SUBSET Job
    PROVE  IsFiniteSet(S) /\ Cardinality(S) \in Nat
<1>1. IsFiniteSet(Job)
    BY FS_Interval, JobStoreAssumption DEF Job
<1>2. QED
    BY <1>1, FS_Subset, FS_CardinalityType

\* Waking waiters grants slots to some that wait, and touches no other task.
LEMMA WakeUpEffect ==
    ASSUME NEW t \in [Job -> TaskState], NEW v \in Int, NEW n, WakeUp(t, v, n)
    PROVE  /\ task' \in [Job -> TaskState]
           /\ value' \in Int
           /\ \A j \in Job : task'[j] = t[j] \/ (t[j] = "waiting" /\ task'[j] = "granted")
<1>1. First(t, n) \subseteq Pending(t) /\ Pending(t) \subseteq Job
    BY DEF First, Pending
<1>2. Cardinality(First(t, n)) \in Int
    BY <1>1, JobsCountable
<1>3. task' \in [Job -> TaskState]
    BY DEF WakeUp, TaskState, QueueState
<1>4. QED
    BY <1>1, <1>2, <1>3 DEF WakeUp, Pending

-------------------------------------------------------------------------------
LEMMA InitIInv == Init => IInv
<1> SUFFICES ASSUME Init PROVE IInv
    OBVIOUS
<1>1. TypeOK
    <2>1. [status |-> "unborn", retention |-> NoRetention, finishedAt |-> 0] \in JobRecord
        BY JobStoreAssumption DEF JobRecord
    <2>2. QED
        BY <2>1, JobStoreAssumption, MaxConcurrentAssumption
           DEF Init, StoreInit, TypeOK, StoreTypeOK, Waiter, TaskState
<1>2. StoreInv
    BY DEF Init, StoreInit, StoreInv, UnfinishedKept, EventsMatchJobs, NoLostWakeUp,
           Live, Idle
<1>3. StatusMatchesTask
    BY DEF Init, StoreInit, StatusMatchesTask
<1>4. QED
    BY <1>1, <1>2, <1>3 DEF IInv

LEMMA SubmitIInv ==
    ASSUME IInv, NEW j \in Job, NEW retention \in Retention \cup {NoRetention},
           Submit(j, retention)
    PROVE  IInv'
<1> DEFINE rec == [record EXCEPT ![j] = [status |-> "queued",
                                         retention |-> retention,
                                         finishedAt |-> 0]]
<1>1. rec \in [Job -> JobRecord]
    BY JobStoreAssumption DEF IInv, TypeOK, StoreTypeOK, JobRecord, Status
<1>2. record[j].status = "unborn"
    BY DEF IInv, StatusMatchesTask, Submit
<1>3. /\ rec[j].status = "queued"
      /\ \A k \in Job \ {j} : rec[k] = record[k]
    BY DEF IInv, TypeOK, StoreTypeOK
<1>4. Put(j, rec)
    BY DEF Submit
<1> HIDE DEF rec
<1>5. StoreTypeOK' /\ StoreInv' /\ record' = rec
    BY <1>1, <1>2, <1>3, <1>4, PutPreserves DEF IInv, TypeOK, IsTerminal, TerminalStatus
<1>6. TypeOK'
    BY <1>5 DEF Submit, IInv, TypeOK, TaskState
<1>7. StatusMatchesTask'
    BY <1>3, <1>5 DEF Submit, IInv, TypeOK, StatusMatchesTask
<1>8. QED
    BY <1>5, <1>6, <1>7 DEF IInv

\* What a task writes to its own record when it ends keeps the type of all of them.
LEMMA FinishedTyped ==
    ASSUME StoreTypeOK, NEW j \in Job, NEW status \in TerminalStatus
    PROVE  /\ Finished(j, status) \in [Job -> JobRecord]
           /\ Finished(j, status)[j].status = status
           /\ \A k \in Job \ {j} : Finished(j, status)[k] = record[k]
<1> DEFINE old == record[j]
           new == [old EXCEPT !.status = status, !.finishedAt = now]
<1>1. record \in [Job -> JobRecord] /\ now \in 0..MaxTime
    BY DEF StoreTypeOK
<1>2. old \in JobRecord
    BY <1>1
<1>3. status \in Status
    BY DEF Status
<1>4. new \in JobRecord /\ new.status = status
    <2> HIDE DEF old
    <2>1. QED  BY <1>1, <1>2, <1>3 DEF JobRecord
<1>5. Finished(j, status) = [record EXCEPT ![j] = new]
    BY <1>1 DEF Finished
<1> HIDE DEF new, old
<1>6. QED
    BY <1>1, <1>4, <1>5

LEMMA CancelIInv ==
    ASSUME IInv, NEW j \in Job, Cancel(j)
    PROVE  IInv'
<1> DEFINE rec == Finished(j, "cancelled")
<1>0. StoreTypeOK /\ "cancelled" \in TerminalStatus
    BY DEF IInv, TypeOK, TerminalStatus
<1>1. rec \in [Job -> JobRecord]
    BY <1>0, FinishedTyped
<1>2. /\ rec[j].status = "cancelled"
      /\ \A k \in Job \ {j} : rec[k] = record[k]
    BY <1>0, FinishedTyped
<1>3. Put(j, rec)
    BY DEF Cancel
<1> HIDE DEF rec
<1>4. StoreTypeOK' /\ StoreInv' /\ record' = rec
    BY <1>1, <1>2, <1>3, PutPreserves DEF IInv, TypeOK, IsTerminal, TerminalStatus
<1>5. TypeOK'
    BY <1>4 DEF Cancel, CancelledTask, IInv, TypeOK, TaskState, QueueState
<1>6. record[j].status \in {"queued", "running"} /\ server = "open"
    BY DEF Cancel, Unexpired, IInv, TypeOK, StoreTypeOK, StoreInv, JobRecord, Status,
           IsTerminal
<1>7. task[j] \in {"created", "waiting", "granted", "working"}
    BY <1>6 DEF IInv, StatusMatchesTask
<1>8. task' = [task EXCEPT ![j] = CancelledTask(task[j])] /\ server' = server
    BY DEF Cancel
<1>9. task'[j] \in {"doomed", "dropped", "revoked", "unwinding"}
    BY <1>7, <1>8 DEF CancelledTask, IInv, TypeOK
<1>10. StatusMatchesTask'
    BY <1>2, <1>4, <1>8, <1>9 DEF IInv, TypeOK, StatusMatchesTask
<1>11. QED
    BY <1>4, <1>5, <1>10 DEF IInv

\* A job put into RUNNING was queued: its task had begun, and had not been
\* cancelled.
LEMMA RunningPut ==
    ASSUME IInv, NEW j \in Job, task[j] \in {"created", "granted"},
           Put(j, Running(j))
    PROVE  /\ StoreTypeOK' /\ StoreInv'
           /\ record' = Running(j)
           /\ record'[j].status = "running"
           /\ \A k \in Job \ {j} : record'[k] = record[k]
<1> DEFINE rec == Running(j)
<1>1. rec \in [Job -> JobRecord]
    BY DEF Running, IInv, TypeOK, StoreTypeOK, JobRecord, Status
<1>2. /\ rec[j].status = "running"
      /\ \A k \in Job \ {j} : rec[k] = record[k]
    BY DEF Running, IInv, TypeOK, StoreTypeOK, JobRecord
<1>3. record[j].status = "queued"
    <2>1. record[j].status \in Status \cup {"unborn"}
        BY DEF IInv, TypeOK, StoreTypeOK, JobRecord
    <2>2. QED
        BY <2>1 DEF IInv, StatusMatchesTask, Status, TerminalStatus
<1>4. rec = Running(j)
    OBVIOUS
<1> HIDE DEF rec
<1>5. StoreTypeOK' /\ StoreInv' /\ record' = rec
    BY <1>1, <1>2, <1>3, <1>4, PutPreserves DEF IInv, TypeOK, IsTerminal, TerminalStatus
<1>6. QED
    BY <1>2, <1>4, <1>5

LEMMA BeginIInv ==
    ASSUME IInv, NEW j \in Job, Begin(j)
    PROVE  IInv'
<1>1. CASE ~Locked /\ value' = value - 1 /\ task' = [task EXCEPT ![j] = "working"]
           /\ Put(j, Running(j))
    <2>1. /\ StoreTypeOK' /\ StoreInv'
          /\ record'[j].status = "running"
          /\ \A k \in Job \ {j} : record'[k] = record[k]
        BY <1>1, RunningPut DEF Begin
    <2>2. TypeOK'
        BY <1>1, <2>1 DEF Begin, IInv, TypeOK, TaskState
    <2>3. StatusMatchesTask'
        BY <1>1, <2>1 DEF Begin, IInv, TypeOK, StatusMatchesTask
    <2>4. QED
        BY <2>1, <2>2, <2>3 DEF IInv
<1>2. CASE Locked /\ task' = [task EXCEPT ![j] = "waiting"]
           /\ UNCHANGED <<storeVars, value>>
    <2>1. UNCHANGED <<now, record, jobs, settled, waiter, value, server>>
        BY <1>2 DEF storeVars, Begin
    <2>2. TypeOK'
        BY <1>2, <2>1 DEF IInv, TypeOK, StoreTypeOK, TaskState, QueueState
    <2>3. StoreInv'
        BY <2>1 DEF IInv, StoreInv, UnfinishedKept, EventsMatchJobs, NoLostWakeUp, Live,
                    IsTerminal
    <2>4. StatusMatchesTask'
        BY <1>2, <2>1 DEF Begin, IInv, TypeOK, StatusMatchesTask
    <2>5. QED
        BY <2>2, <2>3, <2>4 DEF IInv
<1>3. QED
    BY <1>1, <1>2 DEF Begin

LEMMA AdmitIInv ==
    ASSUME IInv, NEW j \in Job, Admit(j)
    PROVE  IInv'
<1> DEFINE t == [task EXCEPT ![j] = "working"]
<1>1. /\ StoreTypeOK' /\ StoreInv'
      /\ record'[j].status = "running"
      /\ \A k \in Job \ {j} : record'[k] = record[k]
    BY RunningPut DEF Admit
<1>2. t \in [Job -> TaskState]
    BY DEF IInv, TypeOK, TaskState
<1>3. /\ t[j] = "working"
      /\ \A k \in Job \ {j} : t[k] = task[k]
    BY DEF IInv, TypeOK
<1>4. WakeUp(t, value, value) /\ server' = server
    BY DEF Admit, HandOut
<1> HIDE DEF t
<1>5. /\ task' \in [Job -> TaskState]
      /\ value' \in Int
      /\ \A k \in Job : task'[k] = t[k] \/ (t[k] = "waiting" /\ task'[k] = "granted")
    BY <1>2, <1>4, WakeUpEffect DEF IInv, TypeOK
<1>6. TypeOK'
    BY <1>1, <1>4, <1>5 DEF IInv, TypeOK
<1>7. StatusMatchesTask'
    BY <1>1, <1>3, <1>4, <1>5 DEF IInv, StatusMatchesTask
<1>8. QED
    BY <1>1, <1>6, <1>7 DEF IInv

LEMMA FinishIInv ==
    ASSUME IInv, NEW j \in Job, NEW status \in TerminalStatus, Finish(j, status)
    PROVE  IInv'
<1> DEFINE rec == Finished(j, status)
           t == [task EXCEPT ![j] = "done"]
<1>0. StoreTypeOK
    BY DEF IInv, TypeOK
<1>1. rec \in [Job -> JobRecord]
    BY <1>0, FinishedTyped
<1>2. /\ rec[j].status = status
      /\ \A k \in Job \ {j} : rec[k] = record[k]
    BY <1>0, FinishedTyped
<1>3. Put(j, rec) /\ WakeUp(t, value + 1, 1) /\ server' = server
    BY DEF Finish, Release
<1>4. t \in [Job -> TaskState]
    BY DEF IInv, TypeOK, TaskState
<1>5. /\ t[j] = "done"
      /\ \A k \in Job \ {j} : t[k] = task[k]
    BY DEF IInv, TypeOK
<1> HIDE DEF rec, t
<1>6. StoreTypeOK' /\ StoreInv' /\ record' = rec
    BY <1>1, <1>2, <1>3, PutPreserves DEF IInv, TypeOK, IsTerminal, TerminalStatus
<1>7. /\ task' \in [Job -> TaskState]
      /\ value' \in Int
      /\ \A k \in Job : task'[k] = t[k] \/ (t[k] = "waiting" /\ task'[k] = "granted")
    BY <1>3, <1>4, WakeUpEffect DEF IInv, TypeOK
<1>8. TypeOK'
    BY <1>3, <1>6, <1>7 DEF IInv, TypeOK
<1>9. StatusMatchesTask'
    <2>1. task'[j] = "done" /\ record'[j].status \in TerminalStatus
        BY <1>2, <1>5, <1>6, <1>7
    <2>2. \A k \in Job \ {j} :
            /\ record'[k] = record[k]
            /\ task'[k] = task[k] \/ (task[k] = "waiting" /\ task'[k] = "granted")
        BY <1>2, <1>5, <1>6, <1>7
    <2>3. QED
        BY <1>3, <2>1, <2>2 DEF IInv, StatusMatchesTask, TerminalStatus
<1>10. QED
    BY <1>6, <1>8, <1>9 DEF IInv

\* Steps that leave the store alone, or change it as a reader does.
LEMMA StoreUnchanged ==
    ASSUME IInv, UNCHANGED storeVars
    PROVE  StoreTypeOK' /\ StoreInv' /\ record' = record
<1>1. UNCHANGED <<now, record, jobs, settled, waiter>>
    BY DEF storeVars
<1>2. StoreTypeOK'
    BY <1>1 DEF IInv, TypeOK, StoreTypeOK
<1>3. StoreInv'
    BY <1>1 DEF IInv, StoreInv, UnfinishedKept, EventsMatchJobs, NoLostWakeUp, Live, IsTerminal
<1>4. QED
    BY <1>1, <1>2, <1>3

LEMMA RequestIInv ==
    ASSUME IInv, UNCHANGED <<task, value, server>>,
           \/ Purge
           \/ \E r \in Request, j \in Job : BeginWait(r, j)
           \/ \E r \in Request : AnswerWait(r)
    PROVE  IInv'
<1>1. StoreTypeOK' /\ StoreInv'
    BY PurgePreserves, BeginWaitPreserves, AnswerWaitPreserves DEF IInv, TypeOK
<1>2. record' = record
    BY DEF Purge, BeginWait, AnswerWait
<1>3. QED
    BY <1>1, <1>2 DEF IInv, TypeOK, StatusMatchesTask

LEMMA PassTimeIInv ==
    ASSUME IInv, PassTime
    PROVE  IInv'
<1>1. StoreTypeOK'
    BY JobStoreAssumption DEF PassTime, Tick, IInv, TypeOK, StoreTypeOK
<1>2. StoreInv'
    BY DEF PassTime, Tick, IInv, StoreInv, UnfinishedKept, EventsMatchJobs, NoLostWakeUp,
           Live, IsTerminal
<1>3. QED
    BY <1>1, <1>2 DEF PassTime, Tick, IInv, TypeOK, StatusMatchesTask

\* The steps of a task that leave the store alone.
LEMMA QuietTaskIInv ==
    ASSUME IInv, NEW j \in Job, NeverBegin(j) \/ LeaveQueue(j) \/ Forget(j)
    PROVE  IInv'
<1>1. StoreTypeOK' /\ StoreInv' /\ record' = record /\ server' = server
    BY StoreUnchanged DEF NeverBegin, LeaveQueue, Forget
<1>2. CASE NeverBegin(j)
    BY <1>1, <1>2 DEF NeverBegin, IInv, TypeOK, TaskState, StatusMatchesTask
<1>3. CASE Forget(j)
    BY <1>1, <1>3 DEF Forget, IInv, TypeOK, TaskState, StatusMatchesTask
<1>4. CASE LeaveQueue(j)
    <2> DEFINE t == [task EXCEPT ![j] = "done"]
    <2>1. t \in [Job -> TaskState]
        BY DEF IInv, TypeOK, TaskState
    <2>2. /\ task[j] \in {"dropped", "revoked"}
          /\ t[j] = "done"
          /\ \A k \in Job \ {j} : t[k] = task[k]
        BY <1>4 DEF LeaveQueue, IInv, TypeOK
    <2>3. WakeUp(t, value, value) \/ WakeUp(t, value + 1, value + 1)
        BY <1>4 DEF LeaveQueue, HandOut
    <2>4. value + 1 \in Int
        BY DEF IInv, TypeOK
    <2> HIDE DEF t
    <2>5. /\ task' \in [Job -> TaskState]
          /\ value' \in Int
          /\ \A k \in Job : task'[k] = t[k] \/ (t[k] = "waiting" /\ task'[k] = "granted")
        BY <2>1, <2>3, <2>4, WakeUpEffect DEF IInv, TypeOK
    <2>6. TypeOK'
        BY <1>1, <2>5 DEF IInv, TypeOK
    <2>7. StatusMatchesTask'
        <3>1. task'[j] = "done"
            BY <2>2, <2>5
        <3>2. \A k \in Job \ {j} :
                task'[k] = task[k] \/ (task[k] = "waiting" /\ task'[k] = "granted")
            BY <2>2, <2>5
        <3>3. QED
            BY <1>1, <2>2, <3>1, <3>2 DEF IInv, StatusMatchesTask
    <2>8. QED
        BY <1>1, <2>6, <2>7 DEF IInv
<1>5. QED
    BY <1>2, <1>3, <1>4

LEMMA CloseIInv ==
    ASSUME IInv, Close \/ Closed
    PROVE  IInv'
<1>1. StoreTypeOK' /\ StoreInv' /\ record' = record
    BY StoreUnchanged DEF Close, Closed
<1>2. CASE Close
    <2>1. TypeOK'
        BY <1>1, <1>2 DEF Close, CancelledTask, IInv, TypeOK, TaskState, QueueState
    <2>2. StatusMatchesTask'
        BY <1>1, <1>2 DEF Close, CancelledTask, IInv, TypeOK, StatusMatchesTask
    <2>3. QED
        BY <1>1, <2>1, <2>2 DEF IInv
<1>3. CASE Closed
    BY <1>1, <1>3 DEF Closed, IInv, TypeOK, StatusMatchesTask
<1>4. QED
    BY <1>2, <1>3

LEMMA NextIInv == IInv /\ [Next]_vars => IInv'
<1> SUFFICES ASSUME IInv, [Next]_vars PROVE IInv'
    OBVIOUS
<1>1. ASSUME NEW j \in Job, NEW retention \in Retention \cup {NoRetention},
             Submit(j, retention)
      PROVE  IInv'
    BY <1>1, SubmitIInv
<1>2. CASE Read
    BY <1>2, RequestIInv DEF Read
<1>3. ASSUME NEW j \in Job, Cancel(j)
      PROVE  IInv'
    BY <1>3, CancelIInv
<1>4. ASSUME NEW j \in Job, TaskStep(j)
      PROVE  IInv'
    BY <1>4, BeginIInv, AdmitIInv, FinishIInv, QuietTaskIInv DEF TaskStep
<1>5. ASSUME NEW r \in Request, NEW j \in Job, LongPoll(r, j)
      PROVE  IInv'
    BY <1>5, RequestIInv DEF LongPoll
<1>6. ASSUME NEW r \in Request, Answer(r) \/ GiveUp(r)
      PROVE  IInv'
    BY <1>6, RequestIInv DEF Answer, GiveUp, ResumeWait, TimeOutWait
<1>7. CASE Close \/ Closed
    BY <1>7, CloseIInv
<1>8. CASE PassTime
    BY <1>8, PassTimeIInv
<1>9. CASE UNCHANGED vars
    <2>1. UNCHANGED storeVars /\ UNCHANGED <<task, value, server>>
        BY <1>9 DEF vars, storeVars
    <2>2. QED
        BY <2>1, StoreUnchanged DEF IInv, TypeOK, StatusMatchesTask
<1>10. QED
    BY <1>1, <1>2, <1>3, <1>4, <1>5, <1>6, <1>7, <1>8, <1>9 DEF Next

-------------------------------------------------------------------------------
LEMMA AlwaysIInv == Spec => []IInv
    BY InitIInv, NextIInv, PTL DEF Spec

\* Every variable of the runner keeps its type.
THEOREM TypeCorrect == Spec => []TypeOK
<1>1. IInv => TypeOK
    BY DEF IInv
<1>2. QED
    BY <1>1, AlwaysIInv, PTL

\* No purge or eviction, at any cap and any retention, drops an unfinished job.
THEOREM UnfinishedAlwaysKept == Spec => []UnfinishedKept
<1>1. IInv => UnfinishedKept
    BY DEF IInv, StoreInv
<1>2. QED
    BY <1>1, AlwaysIInv, PTL

\* The store never leaks an Event, nor holds one that disagrees with its job.
THEOREM EventsAlwaysMatch == Spec => []EventsMatchJobs
<1>1. IInv => EventsMatchJobs
    BY DEF IInv, StoreInv
<1>2. QED
    BY <1>1, AlwaysIInv, PTL

\* No long poll sleeps through the end of its job, and none is woken early.
THEOREM NeverALostWakeUp == Spec => []NoLostWakeUp
<1>1. IInv => NoLostWakeUp
    BY DEF IInv, StoreInv
<1>2. QED
    BY <1>1, AlwaysIInv, PTL

\* A job's recorded status always says what its task is doing.
THEOREM StatusAlwaysMatches == Spec => []StatusMatchesTask
<1>1. IInv => StatusMatchesTask
    BY DEF IInv
<1>2. QED
    BY <1>1, AlwaysIInv, PTL

-------------------------------------------------------------------------------
(* The semaphore. *)

\* No more slots are handed out than there are.
LEMMA FirstBounded ==
    ASSUME NEW t, NEW n \in Nat
    PROVE  Cardinality(First(t, n)) <= n
<1> DEFINE ahead(m) == {k \in Pending(t) : k < m}
<1>1. First(t, n) \in SUBSET Job /\ Pending(t) \in SUBSET Job
    BY DEF First, Pending
<1>2. CASE First(t, n) = {}
    BY <1>2, FS_EmptySet
<1>3. CASE First(t, n) # {}
    <2>1. PICK m \in First(t, n) : \A k \in First(t, n) : k <= m
        BY <1>1, <1>3, YoungestExists
    <2>2. ahead(m) \in SUBSET Job /\ m \in Job
        BY <1>1, <2>1
    <2>3. Cardinality(ahead(m)) < n
        BY <2>1 DEF First
    <2>4. First(t, n) \subseteq ahead(m) \cup {m}
        BY <1>1, <2>1, JobStoreAssumption DEF First, Job
    <2> HIDE DEF ahead
    <2>5. ahead(m) \cup {m} \in SUBSET Job
        BY <2>2
    <2>6. Cardinality(First(t, n)) <= Cardinality(ahead(m) \cup {m})
        BY <2>4, <2>5, JobsCountable, FS_Subset
    <2>7. Cardinality(ahead(m) \cup {m}) <= Cardinality(ahead(m)) + 1
        BY <2>2, JobsCountable, FS_AddElement
    <2>8. /\ Cardinality(First(t, n)) \in Nat
          /\ Cardinality(ahead(m)) \in Nat
          /\ Cardinality(ahead(m) \cup {m}) \in Nat
        BY <1>1, <2>2, <2>5, JobsCountable
    <2>9. QED
        BY <2>3, <2>6, <2>7, <2>8
<1>4. QED
    BY <1>2, <1>3

\* A slot to hand out goes to the oldest job that waits, if one does.
LEMMA FirstNotEmpty ==
    ASSUME NEW t, NEW n \in Nat, n > 0, Pending(t) # {}
    PROVE  First(t, n) # {}
<1>1. Pending(t) \in SUBSET Job
    BY DEF Pending
<1>2. PICK m \in Pending(t) : \A k \in Pending(t) : m <= k
    BY <1>1, OldestExists
<1>3. {k \in Pending(t) : k < m} = {}
    BY <1>1, <1>2, JobStoreAssumption DEF Job
<1>4. Cardinality({k \in Pending(t) : k < m}) < n
    BY <1>3, FS_EmptySet
<1>5. QED
    BY <1>2, <1>4 DEF First

\* Whoever is ahead of a job that is handed a slot is handed one as well.
LEMMA FirstIsAPrefix ==
    ASSUME NEW t, NEW n \in Nat, NEW k \in First(t, n), NEW j \in Pending(t), j < k
    PROVE  j \in First(t, n)
<1> DEFINE ahead(m) == {p \in Pending(t) : p < m}
<1>1. Pending(t) \in SUBSET Job /\ k \in Pending(t)
    BY DEF First, Pending
<1>2. ahead(j) \in SUBSET ahead(k) /\ ahead(k) \in SUBSET Job
    BY <1>1, JobStoreAssumption DEF Job
<1>3. Cardinality(ahead(k)) < n
    BY DEF First
<1> HIDE DEF ahead
<1>4. /\ Cardinality(ahead(j)) <= Cardinality(ahead(k))
      /\ Cardinality(ahead(j)) \in Nat
      /\ Cardinality(ahead(k)) \in Nat
    BY <1>2, JobsCountable, FS_Subset
<1>5. Cardinality(ahead(j)) < n
    BY <1>3, <1>4
<1>6. QED
    BY <1>5 DEF First, ahead

\* Waking waiters moves slots from the counter to the tasks, loses none, and
\* leaves none free while a job waits and nobody has been woken.
LEMMA WakeUpAccounts ==
    ASSUME NEW t \in [Job -> TaskState], NEW v \in Nat, NEW n \in Nat, n <= v,
           WakeUp(t, v, n)
    PROVE  /\ value' \in Nat
           /\ value' + Cardinality(Holders(task')) = v + Cardinality(Holders(t))
           /\ n > 0 /\ Pending(t) # {} => \E j \in Job : task'[j] = "granted"
           /\ \A j \in Job : task'[j] = "waiting" => t[j] = "waiting"
           /\ \A j, k \in Job :
                j < k /\ task'[j] = "waiting" /\ task'[k] # t[k] => FALSE
<1> DEFINE F == First(t, n)
<1>1. F \in SUBSET Job /\ F \subseteq Pending(t) /\ Holders(t) \in SUBSET Job
    BY DEF First, Pending, Holders
<1>2. task' = [j \in Job |-> IF j \in F THEN "granted" ELSE t[j]]
    BY DEF WakeUp
<1>3. value' = v - Cardinality(F)
    BY DEF WakeUp
<1>4. n > 0 /\ Pending(t) # {} => F # {}
    BY FirstNotEmpty
<1>5. Cardinality(F) <= n
    BY FirstBounded
<1>6. ASSUME NEW j \in Pending(t), NEW k \in F, j < k PROVE j \in F
    BY <1>6, FirstIsAPrefix
<1> HIDE DEF F
<1>7. Cardinality(F) \in Nat /\ Cardinality(Holders(t)) \in Nat
    BY <1>1, JobsCountable
<1>8. value' \in Nat
    BY <1>3, <1>5, <1>7
<1>9. Holders(task') = Holders(t) \cup F
    BY <1>1, <1>2 DEF Holders
<1>10. Holders(t) \cap F = {}
    BY <1>1 DEF Holders, Pending
<1>11. Cardinality(Holders(task')) = Cardinality(Holders(t)) + Cardinality(F)
    <2>1. IsFiniteSet(Holders(t)) /\ IsFiniteSet(F)
        BY <1>1, JobsCountable
    <2>2. Cardinality(Holders(t) \cup F)
            = Cardinality(Holders(t)) + Cardinality(F) - Cardinality(Holders(t) \cap F)
        BY <2>1, FS_Union
    <2>3. Cardinality(Holders(t) \cap F) = 0
        BY <1>10, FS_EmptySet
    <2>4. QED
        BY <1>7, <1>9, <2>2, <2>3
<1>12. value' + Cardinality(Holders(task')) = v + Cardinality(Holders(t))
    BY <1>3, <1>7, <1>11
<1>13. \A j \in Job : task'[j] = "waiting" => j \in Pending(t) /\ j \notin F
    BY <1>2 DEF Pending
<1>14. \A k \in Job : task'[k] # t[k] => k \in F
    BY <1>2
<1>15. n > 0 /\ Pending(t) # {} => \E j \in Job : task'[j] = "granted"
    BY <1>1, <1>2, <1>4
<1>16. \A j \in Job : task'[j] = "waiting" => t[j] = "waiting"
    BY <1>13 DEF Pending
<1>17. \A j, k \in Job : j < k /\ task'[j] = "waiting" /\ task'[k] # t[k] => FALSE
    BY <1>6, <1>13, <1>14
<1>18. QED
    BY <1>8, <1>12, <1>15, <1>16, <1>17

-------------------------------------------------------------------------------
\* Tasks are created, and begin, in the order of their jobs: what makes the
\* order of the queue, and so NoOvertaking, inductive.
BegunInOrder ==
    \A j, k \in Job :
        j < k => /\ task[j] = "none" => task[k] = "none"
                 /\ task[j] \in {"created", "doomed"} =>
                      task[k] \in {"none", "created", "doomed"}

SlotInv ==
    /\ SlotsConserved
    /\ FreeSlotIsPassedOn
    /\ NoOvertaking
    /\ BegunInOrder

LEMMA InitSlotInv == Init => SlotInv
<1> SUFFICES ASSUME Init PROVE SlotInv
    OBVIOUS
<1>1. task = [j \in Job |-> "none"] /\ value = MaxConcurrent
    BY DEF Init
<1>2. Holders(task) = {} /\ Pending(task) = {}
    BY <1>1 DEF Holders, Pending
<1>3. Cardinality(Holders(task)) = 0
    BY <1>2, FS_EmptySet
<1>4. QED
    BY <1>1, <1>2, <1>3, MaxConcurrentAssumption
       DEF SlotInv, SlotsConserved, FreeSlotIsPassedOn, NoOvertaking, BegunInOrder

\* A step that moves no task in or out of a slot or the queue, and begins none
\* out of order.
LEMMA SlotsUntouched ==
    ASSUME SlotInv, value' = value,
           \A j \in Job :
              \/ task'[j] = task[j]
              \/ /\ task[j] = "none" /\ task'[j] = "created"
                 /\ \A k \in Job : k < j => task[k] # "none"
              \/ task[j] = "created" /\ task'[j] = "doomed"
              \/ task[j] = "doomed" /\ task'[j] = "done" /\ FirstToBegin(j)
              \/ task[j] = "waiting" /\ task'[j] = "dropped"
              \/ task[j] = "granted" /\ task'[j] = "revoked"
              \/ task[j] = "working" /\ task'[j] = "unwinding"
              \/ task[j] = "done" /\ task'[j] = "gone"
    PROVE  SlotInv'
<1>1. Holders(task') = Holders(task)
    BY DEF Holders
<1>2. \A j \in Job : task'[j] = "waiting" => task[j] = "waiting"
    OBVIOUS
<1>3. SlotsConserved'
    BY <1>1 DEF SlotInv, SlotsConserved
<1>4. FreeSlotIsPassedOn'
    BY <1>2 DEF SlotInv, FreeSlotIsPassedOn, Pending
<1>5. NoOvertaking'
    BY <1>1, <1>2 DEF SlotInv, NoOvertaking
<1>6. BegunInOrder'
    BY JobStoreAssumption DEF SlotInv, BegunInOrder, FirstToBegin, Job
<1>7. QED
    BY <1>3, <1>4, <1>5, <1>6 DEF SlotInv

\* A step in which a task that has begun moves on and waiters are woken.
LEMMA SlotsHandedOn ==
    ASSUME SlotInv, TypeOK, NEW j \in Job, NEW x \in {"working", "done"},
           task[j] \in {"granted", "dropped", "revoked", "working", "unwinding"},
           x = "working" => task[j] = "granted",
           NEW v \in Nat, NEW n \in Nat, n <= v, v > 0 => n > 0,
           v + Cardinality(Holders([task EXCEPT ![j] = x])) = MaxConcurrent,
           WakeUp([task EXCEPT ![j] = x], v, n)
    PROVE  SlotInv'
<1> DEFINE t == [task EXCEPT ![j] = x]
<1>1. t \in [Job -> TaskState]
    BY DEF TypeOK, TaskState
<1>2. t[j] = x /\ \A k \in Job \ {j} : t[k] = task[k]
    BY DEF TypeOK
<1>3. v + Cardinality(Holders(t)) = MaxConcurrent /\ WakeUp(t, v, n)
    OBVIOUS
<1> HIDE DEF t
<1>4. /\ value' \in Nat
      /\ value' + Cardinality(Holders(task')) = v + Cardinality(Holders(t))
      /\ n > 0 /\ Pending(t) # {} => \E k \in Job : task'[k] = "granted"
      /\ \A k \in Job : task'[k] = "waiting" => t[k] = "waiting"
      /\ \A i, k \in Job : i < k /\ task'[i] = "waiting" /\ task'[k] # t[k] => FALSE
    BY <1>1, <1>3, WakeUpAccounts
<1>5. \A k \in Job : task'[k] = t[k] \/ (t[k] = "waiting" /\ task'[k] = "granted")
    BY <1>1, <1>3, WakeUpEffect
<1>6. SlotsConserved'
    BY <1>3, <1>4 DEF SlotsConserved
<1>7. FreeSlotIsPassedOn'
    <2>1. SUFFICES ASSUME value' > 0, Pending(task') # {}
                   PROVE  \E k \in Job : task'[k] = "granted"
        BY DEF FreeSlotIsPassedOn
    <2>2. Pending(t) # {}
        BY <1>4, <2>1 DEF Pending
    <2>3. v > 0
        <3>1. Cardinality(First(t, n)) \in Nat
            BY JobsCountable DEF First, Pending
        <3>2. value' = v - Cardinality(First(t, n))
            BY <1>3 DEF WakeUp
        <3>3. QED
            BY <2>1, <3>1, <3>2
    <2>4. QED
        BY <1>4, <2>2, <2>3
<1>8. NoOvertaking'
    <2>1. SUFFICES ASSUME NEW i \in Job, NEW k \in Job, i < k,
                          task'[i] = "waiting", k \in Holders(task')
                   PROVE  FALSE
        BY DEF NoOvertaking
    <2>2. task'[k] = t[k]
        BY <1>4, <2>1
    <2>3. k \in Holders(task)
        BY <1>2, <2>1, <2>2 DEF Holders
    <2>4. task[i] = "waiting"
        BY <1>2, <1>4, <2>1
    <2>5. QED
        BY <2>1, <2>3, <2>4 DEF SlotInv, NoOvertaking
<1>9. BegunInOrder'
    <2>1. \A k \in Job :
            \/ task'[k] = task[k]
            \/ /\ task[k] \notin {"none", "created", "doomed"}
               /\ task'[k] \notin {"none", "created", "doomed"}
        BY <1>2, <1>5
    <2>2. QED
        BY <2>1 DEF SlotInv, BegunInOrder
<1>10. QED
    BY <1>6, <1>7, <1>8, <1>9 DEF SlotInv

\* The slot of a task that ends goes back.
LEMMA HolderLeaves ==
    ASSUME TypeOK, NEW j \in Holders(task)
    PROVE  Cardinality(Holders([task EXCEPT ![j] = "done"])) = Cardinality(Holders(task)) - 1
<1>1. Holders([task EXCEPT ![j] = "done"]) = Holders(task) \ {j}
    BY DEF Holders, TypeOK
<1>2. IsFiniteSet(Holders(task))
    BY JobsCountable DEF Holders
<1>3. QED
    BY <1>1, <1>2, FS_RemoveElement

LEMMA BeginSlots ==
    ASSUME SlotInv, TypeOK, NEW j \in Job, Begin(j)
    PROVE  SlotInv'
<1>1. task[j] = "created" /\ FirstToBegin(j)
    BY DEF Begin
<1>2. BegunInOrder'
    <2>1. task' = [task EXCEPT ![j] = "working"] \/ task' = [task EXCEPT ![j] = "waiting"]
        BY DEF Begin
    <2>2. QED
        BY <1>1, <2>1, JobStoreAssumption DEF SlotInv, BegunInOrder, FirstToBegin, TypeOK, Job
<1>3. CASE ~Locked /\ value' = value - 1 /\ task' = [task EXCEPT ![j] = "working"]
    <2>1. value > 0 /\ Pending(task) = {}
        BY <1>3 DEF Locked, Pending, SlotInv, SlotsConserved, TypeOK
    <2>2. Pending(task') = {} /\ Holders(task') = Holders(task) \cup {j}
        BY <1>1, <1>3, <2>1 DEF Pending, Holders, TypeOK
    <2>3. j \notin Holders(task) /\ Holders(task) \in SUBSET Job
        BY <1>1 DEF Holders
    <2>4. Cardinality(Holders(task')) = Cardinality(Holders(task)) + 1
        BY <2>2, <2>3, JobsCountable, FS_AddElement
    <2>5. Cardinality(Holders(task)) \in Nat
        BY <2>3, JobsCountable
    <2>6. SlotsConserved'
        BY <1>3, <2>1, <2>4, <2>5, MaxConcurrentAssumption DEF SlotInv, SlotsConserved, TypeOK
    <2>7. FreeSlotIsPassedOn' /\ NoOvertaking'
        BY <2>2 DEF FreeSlotIsPassedOn, NoOvertaking, Pending
    <2>8. QED
        BY <1>2, <2>6, <2>7 DEF SlotInv
<1>4. CASE Locked /\ value' = value /\ task' = [task EXCEPT ![j] = "waiting"]
    <2>1. Holders(task') = Holders(task)
        BY <1>1, <1>4 DEF Holders, TypeOK
    <2>2. SlotsConserved'
        BY <1>4, <2>1 DEF SlotInv, SlotsConserved
    <2>3. FreeSlotIsPassedOn'
        <3>1. SUFFICES ASSUME value > 0
                       PROVE  \E k \in Job : task'[k] \in {"granted", "revoked"}
            BY <1>4 DEF FreeSlotIsPassedOn
        <3>2. PICK k \in Job : task[k] \in {"waiting", "granted", "revoked"}
            BY <1>4, <3>1 DEF Locked
        <3>3. PICK i \in Job : task[i] \in {"granted", "revoked"}
            BY <3>1, <3>2 DEF SlotInv, FreeSlotIsPassedOn, Pending
        <3>4. task'[i] = task[i]
            BY <1>1, <1>4, <3>3 DEF TypeOK
        <3>5. QED
            BY <3>3, <3>4
    <2>4. NoOvertaking'
        <3>1. \A k \in Job : j < k => k \notin Holders(task)
            BY <1>1 DEF SlotInv, BegunInOrder, Holders
        <3>2. \A i \in Job : task'[i] = "waiting" => i = j \/ task[i] = "waiting"
            BY <1>4 DEF TypeOK
        <3>3. QED
            BY <2>1, <3>1, <3>2 DEF SlotInv, NoOvertaking
    <2>5. QED
        BY <1>2, <2>2, <2>3, <2>4 DEF SlotInv
<1>5. QED
    BY <1>3, <1>4 DEF Begin

\* The steps that take a task out of the semaphore, or into its slot.
LEMMA LeaveSlots ==
    ASSUME SlotInv, TypeOK, NEW j \in Job,
           \/ Admit(j)
           \/ LeaveQueue(j)
           \/ \E status \in TerminalStatus : Finish(j, status)
    PROVE  SlotInv'
<1> DEFINE t == [task EXCEPT ![j] = "done"]
<1>1. value \in Nat /\ value + 1 \in Nat /\ value + 1 > 0
    BY DEF SlotInv, SlotsConserved, TypeOK
<1>2. value + Cardinality(Holders(task)) = MaxConcurrent
    BY DEF SlotInv, SlotsConserved
<1>3. Cardinality(Holders(task)) \in Nat
    BY JobsCountable DEF Holders
<1>4. CASE Admit(j)
    <2>1. task[j] = "granted" /\ WakeUp([task EXCEPT ![j] = "working"], value, value)
        BY <1>4 DEF Admit, HandOut
    <2>2. Holders([task EXCEPT ![j] = "working"]) = Holders(task)
        BY <2>1 DEF Holders, TypeOK
    <2>3. value + Cardinality(Holders([task EXCEPT ![j] = "working"])) = MaxConcurrent
        BY <1>2, <2>2
    <2>4. value <= value /\ (value > 0 => value > 0)
        BY <1>1
    <2>5. QED
        BY <1>1, <2>1, <2>3, <2>4, SlotsHandedOn
<1>5. CASE task[j] = "dropped" /\ HandOut(t, value)
    <2>1. WakeUp(t, value, value)
        BY <1>5 DEF HandOut
    <2>2. Holders(t) = Holders(task)
        BY <1>5 DEF Holders, TypeOK
    <2>3. value + Cardinality(Holders(t)) = MaxConcurrent
        BY <1>2, <2>2
    <2>4. value <= value /\ (value > 0 => value > 0)
        BY <1>1
    <2>5. QED
        BY <1>1, <1>5, <2>1, <2>3, <2>4, SlotsHandedOn
<1>6. CASE task[j] \in {"revoked", "working", "unwinding"}
           /\ (WakeUp(t, value + 1, value + 1) \/ WakeUp(t, value + 1, 1))
    <2>1. Cardinality(Holders(t)) = Cardinality(Holders(task)) - 1
        BY <1>6, HolderLeaves DEF Holders
    <2>2. value + 1 + Cardinality(Holders(t)) = MaxConcurrent
        BY <1>1, <1>2, <1>3, <2>1
    <2>3. 1 <= value + 1 /\ value + 1 <= value + 1 /\ 1 \in Nat /\ 1 > 0
        BY <1>1
    <2>4. CASE WakeUp(t, value + 1, value + 1)
        BY <1>1, <1>6, <2>2, <2>3, <2>4, SlotsHandedOn
    <2>5. CASE WakeUp(t, value + 1, 1)
        BY <1>1, <1>6, <2>2, <2>3, <2>5, SlotsHandedOn
    <2>6. QED
        BY <1>6, <2>4, <2>5
<1>7. QED
    BY <1>4, <1>5, <1>6 DEF LeaveQueue, Finish, HandOut, Release

LEMMA NextSlotInv == IInv /\ SlotInv /\ [Next]_vars => SlotInv'
<1> SUFFICES ASSUME IInv, SlotInv, [Next]_vars PROVE SlotInv'
    OBVIOUS
<1>1. TypeOK
    BY DEF IInv
<1>2. ASSUME NEW j \in Job, NEW retention \in Retention \cup {NoRetention},
             Submit(j, retention)
      PROVE  SlotInv'
    <2>1. value' = value /\ task' = [task EXCEPT ![j] = "created"]
          /\ task[j] = "none" /\ \A k \in Job : k < j => task[k] # "none"
        BY <1>2 DEF Submit
    <2>2. \A i \in Job : task'[i] = task[i]
             \/ (task[i] = "none" /\ task'[i] = "created"
                 /\ \A k \in Job : k < i => task[k] # "none")
        BY <1>1, <2>1 DEF TypeOK
    <2>3. QED
        BY <2>1, <2>2, SlotsUntouched
<1>3. CASE Read \/ Closed \/ PassTime \/ UNCHANGED vars
    BY <1>3, SlotsUntouched DEF Read, Closed, PassTime, vars
<1>4. ASSUME NEW j \in Job, Cancel(j)
      PROVE  SlotInv'
    <2>1. value' = value /\ task' = [task EXCEPT ![j] = CancelledTask(task[j])]
        BY <1>4 DEF Cancel
    <2>2. \A i \in Job : task'[i] = task[i] \/ task'[i] = CancelledTask(task[i])
        BY <1>1, <2>1 DEF TypeOK
    <2>3. QED
        BY <2>1, <2>2, SlotsUntouched DEF CancelledTask
<1>5. ASSUME NEW j \in Job, TaskStep(j)
      PROVE  SlotInv'
    <2>1. CASE NeverBegin(j) \/ Forget(j)
        <3>1. value' = value /\ \A i \in Job : i # j => task'[i] = task[i]
            BY <1>1, <2>1 DEF NeverBegin, Forget, TypeOK
        <3>2. \/ task[j] = "doomed" /\ task'[j] = "done" /\ FirstToBegin(j)
              \/ task[j] = "done" /\ task'[j] = "gone"
            BY <1>1, <2>1 DEF NeverBegin, Forget, TypeOK
        <3>3. QED
            BY <3>1, <3>2, SlotsUntouched
    <2>2. QED
        BY <1>1, <1>5, <2>1, BeginSlots, LeaveSlots DEF TaskStep
<1>6. ASSUME NEW r \in Request, NEW j \in Job, LongPoll(r, j)
      PROVE  SlotInv'
    BY <1>6, SlotsUntouched DEF LongPoll
<1>7. ASSUME NEW r \in Request, Answer(r) \/ GiveUp(r)
      PROVE  SlotInv'
    BY <1>7, SlotsUntouched DEF Answer, GiveUp
<1>8. CASE Close
    BY <1>8, SlotsUntouched DEF Close, CancelledTask
<1>9. QED
    BY <1>2, <1>3, <1>4, <1>5, <1>6, <1>7, <1>8 DEF Next

LEMMA AlwaysSlotInv == Spec => []SlotInv
    BY InitSlotInv, NextSlotInv, AlwaysIInv, PTL DEF Spec

-------------------------------------------------------------------------------
\* For any number of jobs and any limit: every slot is either free or held by
\* one task, so at most MaxConcurrent jobs are in work() at once.
THEOREM SlotsAlwaysConserved == Spec => []SlotsConserved
<1>1. SlotInv => SlotsConserved
    BY DEF SlotInv
<1>2. QED
    BY <1>1, AlwaysSlotInv, PTL

\* No free slot is forgotten: while a job waits, someone is about to hand it on.
THEOREM FreeSlotAlwaysPassedOn == Spec => []FreeSlotIsPassedOn
<1>1. SlotInv => FreeSlotIsPassedOn
    BY DEF SlotInv
<1>2. QED
    BY <1>1, AlwaysSlotInv, PTL

\* Jobs are admitted in the order they were submitted.
THEOREM NeverOvertaken == Spec => []NoOvertaking
<1>1. SlotInv => NoOvertaking
    BY DEF SlotInv
<1>2. QED
    BY <1>1, AlwaysSlotInv, PTL

-------------------------------------------------------------------------------
\* Once aclose has returned every task is gone.
TasksGone == server = "closed" => \A j \in Job : task[j] \in {"none", "gone"}

LEMMA NextTasksGone == TasksGone /\ [Next]_vars => TasksGone'
<1> SUFFICES ASSUME TasksGone, [Next]_vars, server' = "closed"
             PROVE  \A j \in Job : task'[j] \in {"none", "gone"}
    BY DEF TasksGone
<1>1. CASE Closed
    BY <1>1 DEF Closed
<1>2. ASSUME NEW j \in Job, TaskStep(j)
      PROVE  FALSE
    <2>1. server = "closed"
        BY <1>2 DEF TaskStep, Begin, NeverBegin, Admit, LeaveQueue, Finish, Forget
    <2>2. task[j] \in {"none", "gone"}
        BY <2>1 DEF TasksGone
    <2>3. QED
        BY <1>2, <2>2 DEF TaskStep, Begin, NeverBegin, Admit, LeaveQueue, Finish, Forget
<1>3. CASE \/ PassTime \/ UNCHANGED vars
           \/ \E r \in Request : Answer(r) \/ GiveUp(r)
    BY <1>3 DEF TasksGone, PassTime, Answer, GiveUp, vars
<1>4. ASSUME \/ Read \/ Close
             \/ \E j \in Job, retention \in Retention \cup {NoRetention} : Submit(j, retention)
             \/ \E j \in Job : Cancel(j)
             \/ \E r \in Request, j \in Job : LongPoll(r, j)
      PROVE  FALSE
    BY <1>4 DEF Read, Close, Submit, Cancel, LongPoll
<1>5. QED
    BY <1>1, <1>2, <1>3, <1>4 DEF Next

\* When aclose has returned, no job is recorded as running and every slot is
\* free, whatever was queued, running or unwinding when it was called.
THEOREM NothingEverRunsAfterClose == Spec => []NothingRunsAfterClose
<1>1. Init => TasksGone
    BY DEF Init, TasksGone
<1>2. IInv /\ SlotInv /\ TasksGone => NothingRunsAfterClose
    <2>1. SUFFICES ASSUME IInv, SlotInv, TasksGone, server = "closed"
                   PROVE  (\A j \in Job : record[j].status # "running") /\ value = MaxConcurrent
        BY DEF NothingRunsAfterClose
    <2>2. \A j \in Job : task[j] \in {"none", "gone"}
        BY <2>1 DEF TasksGone
    <2>3. \A j \in Job : record[j].status # "running"
        BY <2>1, <2>2 DEF IInv, StatusMatchesTask
    <2>4. Holders(task) = {}
        BY <2>2 DEF Holders
    <2>5. value = MaxConcurrent
        BY <2>1, <2>4, FS_EmptySet DEF SlotInv, SlotsConserved, IInv, TypeOK
    <2>6. QED
        BY <2>3, <2>5
<1>3. QED
    BY <1>1, <1>2, NextTasksGone, AlwaysIInv, AlwaysSlotInv, PTL DEF Spec
-------------------------------------------------------------------------------
(* What a client sees of a job: what may happen to its record, and the lifecycle. *)

\* What a step of the runner may do to the Job objects: nothing, or one change to
\* one of them, in step with its task.
RecordStep(j) ==
    /\ \A k \in Job \ {j} : record'[k] = record[k]
    /\ \/ record[j].status = "unborn" /\ record'[j].status = "queued"
       \/ record[j].status = "queued" /\ record'[j].status = "running"
       \/ record[j].status \in {"queued", "running"} /\ record'[j].status = "cancelled"
       \/ task[j] = "working" /\ record[j].status = "running"
          /\ record'[j].status \in TerminalStatus
       \/ task[j] = "unwinding" /\ record[j].status \in {"running", "cancelled"}
          /\ record'[j].status \in {"cancelled", "failed"}

LEMMA RecordSteps ==
    ASSUME IInv, [Next]_vars
    PROVE  record' = record \/ \E j \in Job : RecordStep(j)
<1>1. TypeOK /\ StoreTypeOK /\ StatusMatchesTask
    BY DEF IInv, TypeOK
<1>2. \A j \in Job : record[j].status \in {"unborn", "queued", "running"} \cup TerminalStatus
    BY <1>1 DEF StoreTypeOK, JobRecord, Status
<1>3. ASSUME NEW j \in Job, NEW retention \in Retention \cup {NoRetention},
             Submit(j, retention)
      PROVE  RecordStep(j)
    <2>1. record' = [record EXCEPT ![j] = [status |-> "queued",
                                           retention |-> retention,
                                           finishedAt |-> 0]]
        BY <1>3 DEF Submit, Put
    <2>2. record[j].status = "unborn"
        BY <1>1, <1>3 DEF Submit, StatusMatchesTask
    <2>3. QED
        BY <1>1, <2>1, <2>2 DEF RecordStep, StoreTypeOK
<1>4. ASSUME NEW j \in Job, Cancel(j)
      PROVE  RecordStep(j)
    <2>1. record' = Finished(j, "cancelled") /\ ~IsTerminal(record, j) /\ j \in jobs
        BY <1>4 DEF Cancel, Put, Unexpired
    <2>2. record[j].status \in {"queued", "running"}
        BY <1>2, <2>1 DEF IsTerminal, IInv, StoreInv
    <2>3. QED
        BY <1>1, <2>1, <2>2 DEF RecordStep, Finished, StoreTypeOK, JobRecord
<1>5. ASSUME NEW j \in Job, task[j] \in {"created", "granted"}, record' = Running(j)
      PROVE  RecordStep(j)
    <2>1. record[j].status = "queued"
        BY <1>1, <1>2, <1>5 DEF StatusMatchesTask, TerminalStatus
    <2>2. QED
        BY <1>1, <1>5, <2>1 DEF RecordStep, Running, StoreTypeOK, JobRecord
<1>6. ASSUME NEW j \in Job, NEW status \in TerminalStatus, Finish(j, status)
      PROVE  RecordStep(j)
    <2>1. record' = Finished(j, status)
        BY <1>6 DEF Finish, Put
    <2>2. \/ task[j] = "working" /\ record[j].status = "running"
          \/ /\ task[j] = "unwinding" /\ record[j].status \in {"running", "cancelled"}
             /\ status \in {"cancelled", "failed"}
        BY <1>1, <1>2, <1>6 DEF Finish, StatusMatchesTask, TerminalStatus
    <2>3. record'[j].status = status /\ \A k \in Job \ {j} : record'[k] = record[k]
        BY <1>1, <2>1 DEF Finished, StoreTypeOK, JobRecord
    <2>4. QED
        BY <2>2, <2>3 DEF RecordStep
<1>7. ASSUME NEW j \in Job, TaskStep(j)
      PROVE  record' = record \/ RecordStep(j)
    BY <1>5, <1>6, <1>7 DEF TaskStep, Begin, NeverBegin, Admit, LeaveQueue, Forget, Put,
                            storeVars
<1>8. ASSUME \/ Read \/ Close \/ Closed \/ PassTime \/ UNCHANGED vars
             \/ \E r \in Request, j \in Job : LongPoll(r, j)
             \/ \E r \in Request : Answer(r) \/ GiveUp(r)
      PROVE  record' = record
    BY <1>8 DEF Read, Purge, Close, Closed, PassTime, Tick, vars, storeVars, LongPoll,
                BeginWait, Answer, GiveUp, ResumeWait, TimeOutWait, AnswerWait
<1>9. QED
    BY <1>3, <1>4, <1>7, <1>8 DEF Next

-------------------------------------------------------------------------------
\* An eviction takes no more than brings the store back to its cap: all victims but the
\* youngest are among the finished jobs older than that one, of which there are too few.
LEMMA VictimsBounded ==
    ASSUME NEW rec, NEW held \in SUBSET Job, Victims(rec, held) # {}
    PROVE  Cardinality(held \ Victims(rec, held)) >= MaxJobs
<1> DEFINE V == Victims(rec, held)
<1>1. V \subseteq held /\ V \subseteq Job
    BY DEF Victims
<1>2. PICK v \in V : \A k \in V : k <= v
    BY <1>1, YoungestExists
<1> DEFINE older == {k \in held : k < v /\ IsTerminal(rec, k)}
<1>3. Cardinality(older) < Cardinality(held) - MaxJobs
    BY <1>2 DEF Victims
<1>4. V \ {v} \subseteq older
    <2>1. ASSUME NEW k \in V, k # v PROVE k < v
        BY <1>1, <1>2, <2>1 DEF Job
    <2>2. \A k \in V : IsTerminal(rec, k)
        BY DEF Victims
    <2> HIDE DEF V
    <2>3. QED
        BY <1>1, <2>1, <2>2
<1> HIDE DEF V, older
<1>5. older \subseteq held
    BY DEF older
<1>6. Cardinality(V \ {v}) <= Cardinality(older)
    BY <1>4, <1>5, JobsCountable, FS_Subset
<1>7. Cardinality(V \ {v}) = Cardinality(V) - 1
    BY <1>1, <1>2, JobsCountable, FS_RemoveElement
<1>8. Cardinality(held \ V) = Cardinality(held) - Cardinality(V)
    BY <1>1, JobsCountable, FS_Difference
<1>9. /\ Cardinality(V) \in Nat /\ Cardinality(held) \in Nat /\ Cardinality(older) \in Nat
      /\ MaxJobs \in Nat
    BY <1>1, <1>5, JobsCountable, JobStoreAssumption
<1>10. Cardinality(held \ V) >= MaxJobs
    BY <1>3, <1>6, <1>7, <1>8, <1>9
<1>11. QED
    BY <1>10 DEF V

\* A finished job that is kept is younger than every victim.
LEMMA VictimsOldest ==
    ASSUME NEW rec, NEW held \in SUBSET Job, NEW j \in Victims(rec, held),
           NEW k \in held \ Victims(rec, held), IsTerminal(rec, k)
    PROVE  k > j
<1> DEFINE Older(i) == {l \in held : l < i /\ IsTerminal(rec, l)}
<1>1. j \in held /\ Cardinality(Older(j)) < Cardinality(held) - MaxJobs
    BY DEF Victims
<1>2. ~(Cardinality(Older(k)) < Cardinality(held) - MaxJobs)
    BY DEF Victims
<1>3. j # k /\ j \in Int /\ k \in Int
    BY <1>1, JobStoreAssumption DEF Job
<1>4. ASSUME k < j PROVE FALSE
    <2>1. Older(k) \subseteq Older(j)
        <3>1. ASSUME NEW l \in held, l < k PROVE l < j
            BY <1>3, <1>4, <3>1 DEF Job
        <3>2. QED
            BY <3>1
    <2>2. Older(k) \in SUBSET Job /\ Older(j) \in SUBSET Job
        OBVIOUS
    <2> HIDE DEF Older
    <2>3. Cardinality(Older(k)) <= Cardinality(Older(j))
        BY <2>1, <2>2, JobsCountable, FS_Subset
    <2>4. /\ Cardinality(Older(k)) \in Nat /\ Cardinality(Older(j)) \in Nat
          /\ Cardinality(held) \in Nat /\ MaxJobs \in Nat
        BY <2>2, JobsCountable, JobStoreAssumption
    <2>5. QED
        BY <1>1, <1>2, <2>3, <2>4
<1>5. QED
    BY <1>3, <1>4

\* put drops what has expired, and what an eviction takes.
LEMMA PutRemoves ==
    ASSUME StoreTypeOK, NEW j \in Job, NEW rec,
           \A k \in Job \ {j} : rec[k] = record[k], Put(j, rec)
    PROVE  RemovalJustifiedStep
<1> DEFINE held == Unexpired(rec) \cup {j}
<1>1. record' = rec /\ jobs' = held \ Victims(rec, held)
    BY DEF Put
<1>2. held \in SUBSET Job /\ jobs \in SUBSET Job
    BY DEF Unexpired, StoreTypeOK
<1> SUFFICES ASSUME NEW k \in jobs, k \notin jobs'
             PROVE  /\ IsTerminal(rec, k)
                    /\ \/ Expired(record, k)
                       \/ /\ Cardinality(jobs') >= MaxJobs
                          /\ \A l \in jobs' : IsTerminal(rec, l) => l > k
    BY <1>1 DEF RemovalJustifiedStep, IsTerminal
<1>3. CASE k \notin held
    <2>1. k # j /\ Expired(rec, k)
        BY <1>3 DEF Unexpired
    <2>2. QED
        BY <1>2, <2>1 DEF Expired, IsTerminal, RetentionOf
<1>4. CASE k \in held
    <2>1. k \in Victims(rec, held) /\ IsTerminal(rec, k)
        BY <1>1, <1>4 DEF Victims
    <2> HIDE DEF held
    <2>2. QED
        BY <1>1, <1>2, <2>1, VictimsBounded, VictimsOldest
<1>5. QED
    BY <1>3, <1>4

\* A purge drops only what has expired.
LEMMA PurgeRemoves ==
    ASSUME jobs' = Unexpired(record), record' = record
    PROVE  RemovalJustifiedStep
BY DEF Unexpired, RemovalJustifiedStep, Expired, IsTerminal

\* A job leaves the store only when its retention has run out, or to bring the store back
\* to its cap, with every older finished job (memory.py, _expired and _evict_locked).
THEOREM RemovalAlwaysJustified == Spec => RemovalJustified
<1>1. ASSUME IInv, [Next]_vars PROVE RemovalJustifiedStep
    <2>1. StoreTypeOK
        BY <1>1 DEF IInv, TypeOK
    <2>2. ASSUME NEW j \in Job, NEW fields,
                 Put(j, [record EXCEPT ![j] = fields])
          PROVE  RemovalJustifiedStep
        <3>1. \A k \in Job \ {j} : [record EXCEPT ![j] = fields][k] = record[k]
            BY <2>1 DEF StoreTypeOK
        <3>2. QED
            BY <2>1, <2>2, <3>1, PutRemoves
    <2>3. ASSUME NEW j \in Job,
                 Put(j, Running(j)) \/ \E status \in TerminalStatus : Put(j, Finished(j, status))
          PROVE  RemovalJustifiedStep
        <3>1. CASE Put(j, Running(j))
            <4>1. \A k \in Job \ {j} : Running(j)[k] = record[k]
                BY <2>1 DEF Running, StoreTypeOK
            <4>2. QED
                BY <2>1, <3>1, <4>1, PutRemoves
        <3>2. ASSUME NEW status \in TerminalStatus, Put(j, Finished(j, status))
              PROVE  RemovalJustifiedStep
            <4>1. \A k \in Job \ {j} : Finished(j, status)[k] = record[k]
                BY <2>1 DEF Finished, StoreTypeOK
            <4>2. QED
                BY <2>1, <3>2, <4>1, PutRemoves
        <3>3. QED
            BY <2>3, <3>1, <3>2
    <2>4. CASE jobs' = jobs
        BY <2>4 DEF RemovalJustifiedStep
    <2>5. ASSUME NEW j \in Job, NEW retention \in Retention \cup {NoRetention},
                 Submit(j, retention)
          PROVE  RemovalJustifiedStep
        BY <2>2, <2>5 DEF Submit
    <2>6. ASSUME NEW j \in Job, Cancel(j) PROVE RemovalJustifiedStep
        BY <2>3, <2>6 DEF Cancel, TerminalStatus
    <2>7. ASSUME NEW j \in Job, TaskStep(j) PROVE RemovalJustifiedStep
        <3>1. \/ Put(j, Running(j))
              \/ \E status \in TerminalStatus : Put(j, Finished(j, status))
              \/ jobs' = jobs
            BY <2>7 DEF TaskStep, Begin, NeverBegin, Admit, LeaveQueue, Finish, Forget, storeVars
        <3>2. QED
            BY <2>3, <2>4, <3>1
    <2>8. CASE \/ Read
               \/ \E r \in Request, j \in Job : LongPoll(r, j)
               \/ \E r \in Request : Answer(r) \/ GiveUp(r)
        <3>1. jobs' = Unexpired(record) /\ record' = record
            BY <2>8 DEF Read, Purge, LongPoll, BeginWait, Answer, GiveUp, ResumeWait,
                        TimeOutWait, AnswerWait
        <3>2. QED
            BY <3>1, PurgeRemoves
    <2>9. CASE Close \/ Closed \/ PassTime \/ UNCHANGED vars
        BY <2>4, <2>9 DEF Close, Closed, PassTime, Tick, vars, storeVars
    <2>10. QED
        BY <1>1, <2>5, <2>6, <2>7, <2>8, <2>9 DEF Next
<1>2. QED
    BY AlwaysIInv, <1>1, PTL DEF Spec, RemovalJustified

-------------------------------------------------------------------------------
\* A success or failure, once recorded, is final for ever, and a cancellation is
\* replaced only by the failure of the cancelled job's own clean-up.
THEOREM OutcomeAlwaysKept == Spec => OutcomeKept
<1>1. IInv /\ [Next]_vars => OutcomeKeptStep
    <2>1. SUFFICES ASSUME IInv, [Next]_vars, NEW j \in Job,
                          IsTerminal(record, j), record'[j].status # record[j].status
                   PROVE  task[j] = "unwinding" /\ record'[j].status = "failed"
        BY DEF OutcomeKeptStep
    <2>2. PICK i \in Job : RecordStep(i)
        BY <2>1, RecordSteps
    <2>3. i = j
        BY <2>1, <2>2 DEF RecordStep
    <2>4. QED
        BY <2>1, <2>2, <2>3 DEF RecordStep, IsTerminal, TerminalStatus
<1>2. QED
    BY <1>1, AlwaysIInv, PTL DEF Spec, OutcomeKept

-------------------------------------------------------------------------------
\* What GET answers, by the job's recorded status.
LEMMA ShownStatus ==
    ASSUME IInv, NEW j \in Job
    PROVE  /\ record[j].status = "unborn" => Shown[j] = "unknown"
           /\ record[j].status \in {"queued", "running"} => Shown[j] = record[j].status
           /\ record[j].status \in TerminalStatus => Shown[j] \in {record[j].status, "lost"}
           /\ Lingering[j] <=> (task[j] = "unwinding" /\ record[j].status = "cancelled")
           /\ Lingering[j] \in BOOLEAN
<1>1. record[j].status \in {"queued", "running"} => j \in jobs /\ ~Expired(record, j)
    BY DEF IInv, StoreInv, UnfinishedKept, Live, Expired, IsTerminal, TerminalStatus
<1>2. task[j] = "unwinding" => record[j].status \notin {"succeeded", "failed"}
    BY DEF IInv, StatusMatchesTask
<1>3. QED
    BY <1>1, <1>2 DEF Shown, Lingering, IsTerminal, TerminalStatus

\* A job a step does not act on keeps its record, its task does not start to
\* linger nor cease to, and it is not put back into the store.
Bystander(k) ==
    /\ record'[k] = record[k]
    /\ Lingering'[k] = Lingering[k]
    /\ k \in jobs' => k \in jobs

LEMMA BystanderIsPassive ==
    ASSUME IInv, IInv', now' >= now, NEW k \in Job, Bystander(k)
    PROVE  Lifecycle!Passive(Shown[k], Lingering[k], Shown'[k], Lingering'[k])
<1>1. CASE record[k].status \in {"unborn", "queued", "running"}
    <2>1. Shown'[k] = Shown[k]
        <3>1. (record[k].status = "unborn" => Shown[k] = "unknown")
              /\ (record[k].status \in {"queued", "running"} => Shown[k] = record[k].status)
            BY ShownStatus
        <3>2. (record'[k].status = "unborn" => Shown'[k] = "unknown")
              /\ (record'[k].status \in {"queued", "running"} => Shown'[k] = record'[k].status)
            <4>1. record'[k].status \in {"queued", "running"} =>
                    k \in jobs' /\ ~Expired(record, k)'
                BY DEF IInv, StoreInv, UnfinishedKept, Live, Expired, IsTerminal, TerminalStatus
            <4>2. QED
                BY <4>1 DEF Shown
        <3>3. QED
            BY <1>1, <3>1, <3>2 DEF Bystander
    <2>2. QED
        BY <2>1 DEF Bystander, Lifecycle!Passive, Lifecycle!Unchanged
<1>2. CASE record[k].status \in TerminalStatus
    <2>1. Expired(record, k) => Expired(record, k)'
        <3>1. /\ now \in Int /\ now' \in Int
              /\ record[k].finishedAt \in Int
              /\ RetentionOf(record, k) \in Int
            <4>1. now \in 0..MaxTime /\ now' \in 0..MaxTime /\ MaxTime \in Int
                BY JobStoreAssumption DEF IInv, TypeOK, StoreTypeOK
            <4>2. record[k] \in JobRecord
                BY DEF IInv, TypeOK, StoreTypeOK
            <4>3. record[k].finishedAt \in 0..MaxTime
                  /\ record[k].retention \in Retention \cup {NoRetention}
                BY <4>2 DEF JobRecord
            <4>4. RetentionOf(record, k) \in Int
                <5>1. CASE record[k].retention = NoRetention
                    BY <5>1, JobStoreAssumption DEF RetentionOf
                <5>2. CASE record[k].retention # NoRetention
                    <6>1. record[k].retention \in Int
                        BY <4>3, <5>2, JobStoreAssumption, Zenon
                    <6>2. QED
                        BY <5>2, <6>1 DEF RetentionOf
                <5>3. QED
                    BY <5>1, <5>2
            <4>5. QED
                BY <4>1, <4>3, <4>4
        <3>2. RetentionOf(record, k)' = RetentionOf(record, k)
            BY DEF Bystander, RetentionOf
        <3>3. QED
            BY <3>1, <3>2 DEF Expired, IsTerminal, Bystander
    <2>2. Shown'[k] = Shown[k] \/ (Shown[k] = record[k].status /\ Shown'[k] = "lost")
        BY <1>2, <2>1 DEF Shown, Bystander, TerminalStatus
    <2>3. QED
        BY <1>2, <2>2 DEF Bystander, Lifecycle!Passive, Lifecycle!Unchanged, Lifecycle!Dropped,
                          Lifecycle!Outcome, TerminalStatus
<1>3. QED
    BY <1>1, <1>2 DEF IInv, TypeOK, StoreTypeOK, JobRecord, Status

\* What a step does to the job it acts on, as its status and its task show it.
Acts(j) ==
    LET s == record[j].status
        n == record'[j].status
    IN  \/ s = "unborn" /\ n = "queued" /\ task'[j] # "unwinding" 
        \/ s = "queued" /\ n = "running" /\ task'[j] # "unwinding"
        \/ s = "queued" /\ n = "cancelled" /\ task'[j] # "unwinding"
        \/ s = "running" /\ n = "cancelled" /\ task'[j] = "unwinding"
        \/ s = "running" /\ n \in TerminalStatus /\ task'[j] # "unwinding"
        \/ /\ s = "cancelled" /\ task[j] = "unwinding"
           /\ n \in {"cancelled", "failed"} /\ task'[j] # "unwinding"

LEMMA ActsIsAllowed ==
    ASSUME IInv, IInv', NEW j \in Job, Acts(j)
    PROVE  Lifecycle!Allowed(Shown[j], Lingering[j], Shown'[j], Lingering'[j])
<1>1. /\ record[j].status = "unborn" => Shown[j] = "unknown"
      /\ record[j].status \in {"queued", "running"} => Shown[j] = record[j].status
      /\ record[j].status \in TerminalStatus => Shown[j] \in {record[j].status, "lost"}
      /\ Lingering[j] <=> (task[j] = "unwinding" /\ record[j].status = "cancelled")
    BY ShownStatus
<1>2. /\ record'[j].status \in {"queued", "running"} => Shown'[j] = record'[j].status
      /\ record'[j].status \in TerminalStatus => Shown'[j] \in {record'[j].status, "lost"}
      /\ Lingering'[j] <=> (task'[j] = "unwinding" /\ record'[j].status \in TerminalStatus)
    <2>1. record'[j].status \in {"queued", "running"} => j \in jobs' /\ ~Expired(record, j)'
        BY DEF IInv, StoreInv, UnfinishedKept, Live, Expired, IsTerminal, TerminalStatus
    <2>2. QED
        BY <2>1 DEF Shown, Lingering, IsTerminal, TerminalStatus
<1>3. CASE record[j].status \in {"unborn", "queued"}
    BY <1>1, <1>2, <1>3 DEF Acts, TerminalStatus, Lifecycle!Allowed, Lifecycle!Submitted,
                            Lifecycle!Started, Lifecycle!CancelledInQueue
<1>4. CASE record[j].status = "running"
    BY <1>1, <1>2, <1>4 DEF Acts, TerminalStatus, Lifecycle!Allowed, Lifecycle!Outcome,
                            Lifecycle!CancelledAtWork, Lifecycle!Ended
<1>5. CASE record[j].status = "cancelled"
    BY <1>1, <1>2, <1>5 DEF Acts, TerminalStatus, Lifecycle!Allowed, Lifecycle!Unwound
<1>6. QED
    BY <1>3, <1>4, <1>5 DEF Acts

\* A put brings no job but its own into the store.
LEMMA PutStoresOne ==
    ASSUME NEW j \in Job, NEW rec, Put(j, rec)
    PROVE  /\ \A k \in Job \ {j} : k \in jobs' => k \in jobs
           /\ record' = rec
           /\ now' = now
    BY DEF Put, Unexpired

\* The other jobs of a step that puts j are bystanders: at most they are woken.
LEMMA OthersStandBy ==
    ASSUME IInv, NEW j \in Job, NEW rec, Put(j, rec),
           \A k \in Job \ {j} : rec[k] = record[k],
           \A k \in Job \ {j} : \/ task'[k] = task[k]
                                \/ task[k] = "waiting" /\ task'[k] = "granted"
    PROVE  now' = now /\ \A k \in Job \ {j} : Bystander(k)
<1>1. /\ \A k \in Job \ {j} : k \in jobs' => k \in jobs
      /\ record' = rec
      /\ now' = now
    BY PutStoresOne
<1>2. ASSUME NEW k \in Job \ {j} PROVE Bystander(k)
    <2>1. record'[k] = record[k]
        BY <1>1
    <2>2. Lingering'[k] = Lingering[k]
        BY <2>1 DEF Lingering, IsTerminal
    <2>3. QED
        BY <1>1, <2>1, <2>2 DEF Bystander
<1>3. QED
    BY <1>1, <1>2

\* What a step does, job by job.
StepOf(j) ==
    /\ now' >= now
    /\ Acts(j) \/ Bystander(j)
    /\ \A k \in Job \ {j} : Bystander(k)

\* Steps that put nothing: nobody's record changes, and no task whose job has
\* settled starts or stops unwinding.
LEMMA QuietStep ==
    ASSUME now' >= now, record' = record, jobs' \subseteq jobs,
           \A k \in Job : \/ task'[k] = "unwinding" <=> task[k] = "unwinding"
                          \/ ~IsTerminal(record, k)
    PROVE  \A j \in Job : StepOf(j)
<1>1. \A k \in Job : Lingering'[k] = Lingering[k]
    BY DEF Lingering, IsTerminal
<1>2. QED
    BY <1>1 DEF StepOf, Bystander

LEMMA SubmitOrCancelStep ==
    ASSUME IInv, IInv', NEW j \in Job,
           \/ Cancel(j)
           \/ \E retention \in Retention \cup {NoRetention} : Submit(j, retention)
    PROVE  StepOf(j)
<1>1. record \in [Job -> JobRecord] /\ task \in [Job -> TaskState] /\ now \in Int
    BY DEF IInv, TypeOK, StoreTypeOK
<1>2. ASSUME NEW retention \in Retention \cup {NoRetention}, Submit(j, retention)
      PROVE  StepOf(j)
    <2> DEFINE rec == [record EXCEPT ![j] = [status |-> "queued",
                                             retention |-> retention,
                                             finishedAt |-> 0]]
    <2>1. Put(j, rec) /\ task' = [task EXCEPT ![j] = "created"]
        BY <1>2 DEF Submit
    <2>2. rec[j].status = "queued" /\ \A k \in Job \ {j} : rec[k] = record[k]
        BY <1>1
    <2>3. record[j].status = "unborn"
        BY <1>2 DEF Submit, IInv, StatusMatchesTask
    <2> HIDE DEF rec
    <2>4. \A k \in Job \ {j} : task'[k] = task[k]
        BY <1>1, <2>1
    <2>5. now' = now /\ \A k \in Job \ {j} : Bystander(k)
        BY <2>1, <2>2, <2>4, OthersStandBy
    <2>6. record' = rec /\ task'[j] = "created"
        BY <1>1, <2>1, PutStoresOne
    <2>7. QED
        BY <1>1, <2>2, <2>3, <2>5, <2>6 DEF StepOf, Acts
<1>3. CASE Cancel(j)
    <2> DEFINE rec == Finished(j, "cancelled")
    <2>1. Put(j, rec) /\ task' = [task EXCEPT ![j] = CancelledTask(task[j])]
        BY <1>3 DEF Cancel
    <2>2. rec[j].status = "cancelled" /\ \A k \in Job \ {j} : rec[k] = record[k]
        BY <1>1 DEF Finished, JobRecord
    <2>3. record[j].status \in {"queued", "running"}
        BY <1>1, <1>3 DEF Cancel, Unexpired, IsTerminal, IInv, StoreInv, JobRecord, Status
    <2>4. \/ record[j].status = "running" /\ task[j] = "working"
          \/ record[j].status = "queued" /\ task[j] \in {"created", "waiting", "granted"}
        BY <1>3, <2>3 DEF Cancel, IInv, StatusMatchesTask
    <2> HIDE DEF rec
    <2>5. \A k \in Job \ {j} : task'[k] = task[k]
        BY <1>1, <2>1
    <2>6. now' = now /\ \A k \in Job \ {j} : Bystander(k)
        BY <2>1, <2>2, <2>5, OthersStandBy
    <2>7. record' = rec /\ task'[j] = CancelledTask(task[j])
        BY <1>1, <2>1, PutStoresOne
    <2>8. Acts(j)
        BY <2>2, <2>4, <2>7 DEF Acts, CancelledTask
    <2>9. QED
        BY <1>1, <2>6, <2>8 DEF StepOf
<1>4. QED
    BY <1>2, <1>3

\* A task's step that records something: it starts its work, or ends it.
LEMMA PuttingTaskStep ==
    ASSUME IInv, IInv', NEW j \in Job, NEW rec, Put(j, rec),
           \/ rec = Running(j) /\ task[j] \in {"created", "granted"} /\ task'[j] = "working"
           \/ \E status \in TerminalStatus :
                /\ rec = Finished(j, status)
                /\ Finish(j, status)
                /\ task'[j] = "done",
           \A k \in Job \ {j} : \/ task'[k] = task[k]
                                \/ task[k] = "waiting" /\ task'[k] = "granted"
    PROVE  StepOf(j)
<1>1. record \in [Job -> JobRecord] /\ now \in Int
    BY DEF IInv, TypeOK, StoreTypeOK
<1>2. \A k \in Job \ {j} : rec[k] = record[k]
    BY <1>1 DEF Running, Finished
<1>3. now' = now /\ (\A k \in Job \ {j} : Bystander(k)) /\ record' = rec
    BY <1>2, OthersStandBy, PutStoresOne
<1>4. record[j].status \in {"unborn", "queued", "running"} \cup TerminalStatus
    BY <1>1 DEF JobRecord, Status
<1>5. Acts(j)
    <2>1. CASE rec = Running(j) /\ task[j] \in {"created", "granted"} /\ task'[j] = "working"
        <3>1. record[j].status = "queued"
            BY <1>4, <2>1 DEF IInv, StatusMatchesTask, TerminalStatus
        <3>2. rec[j].status = "running"
            BY <1>1, <2>1 DEF Running, JobRecord
        <3>3. QED
            BY <1>3, <2>1, <3>1, <3>2 DEF Acts
    <2>2. ASSUME NEW status \in TerminalStatus, rec = Finished(j, status),
                 Finish(j, status), task'[j] = "done"
          PROVE  Acts(j)
        <3>1. rec[j].status = status
            <4>1. Finished(j, status)[j].status = status
                BY <1>1 DEF Finished, JobRecord
            <4>2. QED
                BY <2>2, <4>1
        <3>2. \/ task[j] = "working" /\ record[j].status = "running"
              \/ /\ task[j] = "unwinding" /\ record[j].status \in {"running", "cancelled"}
                 /\ status \in {"cancelled", "failed"}
            BY <1>4, <2>2 DEF Finish, IInv, StatusMatchesTask, TerminalStatus
        <3>3. QED
            BY <1>3, <2>2, <3>1, <3>2 DEF Acts
    <2>3. QED
        BY <2>1, <2>2
<1>6. QED
    BY <1>1, <1>3, <1>5 DEF StepOf

LEMMA TaskStepOf ==
    ASSUME IInv, IInv', NEW j \in Job, TaskStep(j)
    PROVE  StepOf(j)
<1>1. task \in [Job -> TaskState] /\ value \in Int /\ now \in Int
    BY DEF IInv, TypeOK, StoreTypeOK
<1>2. CASE Begin(j)
    <2>1. CASE task' = [task EXCEPT ![j] = "working"] /\ Put(j, Running(j))
        BY <1>1, <1>2, <2>1, PuttingTaskStep DEF Begin
    <2>2. CASE task' = [task EXCEPT ![j] = "waiting"] /\ UNCHANGED storeVars
        <3>1. now' >= now /\ record' = record /\ jobs' = jobs
            BY <1>1, <2>2 DEF storeVars
        <3>2. \A k \in Job : task'[k] = "unwinding" <=> task[k] = "unwinding"
            BY <1>1, <1>2, <2>2 DEF Begin
        <3>3. QED
            BY <3>1, <3>2, QuietStep
    <2>3. QED
        BY <1>2, <2>1, <2>2 DEF Begin
<1>3. CASE Admit(j)
    <2> DEFINE t == [task EXCEPT ![j] = "working"]
    <2>1. Put(j, Running(j)) /\ WakeUp(t, value, value) /\ task[j] = "granted"
        BY <1>3 DEF Admit, HandOut
    <2>2. /\ t \in [Job -> TaskState]
          /\ t[j] = "working"
          /\ \A k \in Job \ {j} : t[k] = task[k]
        BY <1>1 DEF TaskState
    <2> HIDE DEF t
    <2>3. \A k \in Job : task'[k] = t[k] \/ (t[k] = "waiting" /\ task'[k] = "granted")
        BY <1>1, <2>1, <2>2, WakeUpEffect
    <2>4. /\ task'[j] = "working"
          /\ \A k \in Job \ {j} : \/ task'[k] = task[k]
                                  \/ task[k] = "waiting" /\ task'[k] = "granted"
        BY <2>2, <2>3
    <2>5. QED
        BY <2>1, <2>4, PuttingTaskStep
<1>4. ASSUME NEW status \in TerminalStatus, Finish(j, status)
      PROVE  StepOf(j)
    <2> DEFINE t == [task EXCEPT ![j] = "done"]
    <2>1. Put(j, Finished(j, status)) /\ WakeUp(t, value + 1, 1)
        BY <1>4 DEF Finish, Release
    <2>2. /\ t \in [Job -> TaskState]
          /\ t[j] = "done"
          /\ \A k \in Job \ {j} : t[k] = task[k]
          /\ value + 1 \in Int
        BY <1>1 DEF TaskState
    <2> HIDE DEF t
    <2>3. \A k \in Job : task'[k] = t[k] \/ (t[k] = "waiting" /\ task'[k] = "granted")
        BY <2>1, <2>2, WakeUpEffect
    <2>4. /\ task'[j] = "done"
          /\ \A k \in Job \ {j} : \/ task'[k] = task[k]
                                  \/ task[k] = "waiting" /\ task'[k] = "granted"
        BY <2>2, <2>3
    <2>5. QED
        BY <1>4, <2>1, <2>4, PuttingTaskStep
<1>5. CASE NeverBegin(j) \/ Forget(j) \/ LeaveQueue(j)
    <2>1. now' >= now /\ record' = record /\ jobs' = jobs
        BY <1>1, <1>5 DEF storeVars, NeverBegin, Forget, LeaveQueue
    <2>2. \A k \in Job : task'[k] = "unwinding" <=> task[k] = "unwinding"
        <3>1. CASE NeverBegin(j) \/ Forget(j)
            BY <1>1, <3>1 DEF NeverBegin, Forget
        <3>2. CASE LeaveQueue(j)
            <4> DEFINE t == [task EXCEPT ![j] = "done"]
            <4>1. /\ WakeUp(t, value, value) \/ WakeUp(t, value + 1, value + 1)
                  /\ task[j] \in {"dropped", "revoked"}
                BY <3>2 DEF LeaveQueue, HandOut
            <4>2. /\ t \in [Job -> TaskState]
                  /\ t[j] = "done"
                  /\ \A k \in Job \ {j} : t[k] = task[k]
                  /\ value + 1 \in Int
                BY <1>1 DEF TaskState
            <4> HIDE DEF t
            <4>3. \A k \in Job : task'[k] = t[k] \/ (t[k] = "waiting" /\ task'[k] = "granted")
                BY <1>1, <4>1, <4>2, WakeUpEffect
            <4>4. QED
                BY <4>1, <4>2, <4>3
        <3>3. QED
            BY <1>5, <3>1, <3>2
    <2>3. QED
        BY <2>1, <2>2, QuietStep
<1>6. QED
    BY <1>2, <1>3, <1>4, <1>5 DEF TaskStep

LEMMA StepsOf ==
    ASSUME IInv, IInv', [Next]_vars
    PROVE  \E j \in Job : StepOf(j)
<1>1. now \in Int /\ 1 \in Job
    BY JobStoreAssumption DEF IInv, TypeOK, StoreTypeOK, Job
<1>2. CASE \E j \in Job, retention \in Retention \cup {NoRetention} : Submit(j, retention)
    BY <1>2, SubmitOrCancelStep
<1>3. CASE \E j \in Job : Cancel(j) \/ TaskStep(j)
    BY <1>3, SubmitOrCancelStep, TaskStepOf
<1>4. CASE \/ Read \/ Closed \/ PassTime \/ UNCHANGED vars
           \/ \E r \in Request, j \in Job : LongPoll(r, j)
           \/ \E r \in Request : Answer(r) \/ GiveUp(r)
    <2>1. record' = record /\ task' = task
        BY <1>4 DEF Read, Purge, Closed, PassTime, Tick, vars, storeVars, LongPoll,
                    BeginWait, Answer, GiveUp, ResumeWait, TimeOutWait, AnswerWait
    <2>2. now' >= now
        BY <1>1, <1>4 DEF Read, Purge, Closed, PassTime, Tick, vars, storeVars, LongPoll,
                    BeginWait, Answer, GiveUp, ResumeWait, TimeOutWait, AnswerWait
    <2>3. jobs' \subseteq jobs
        BY <1>4 DEF Read, Purge, Closed, PassTime, Tick, vars, storeVars, LongPoll,
                    BeginWait, Answer, GiveUp, ResumeWait, TimeOutWait, AnswerWait, Unexpired
    <2>4. QED
        BY <1>1, <2>1, <2>2, <2>3, QuietStep
<1>5. CASE Close
    <2>1. record' = record /\ now' >= now /\ jobs' = jobs
        BY <1>1, <1>5 DEF Close, storeVars
    <2>2. ASSUME NEW k \in Job
          PROVE  (task'[k] = "unwinding" <=> task[k] = "unwinding") \/ ~IsTerminal(record, k)
        <3>1. task'[k] = CancelledTask(task[k])
            BY <1>5 DEF Close
        <3>2. task[k] = "working" => ~IsTerminal(record, k)
            BY DEF IInv, StatusMatchesTask, IsTerminal, TerminalStatus
        <3>3. QED
            BY <3>1, <3>2 DEF CancelledTask
    <2>3. QED
        BY <1>1, <2>1, <2>2, QuietStep
<1>6. QED
    BY <1>2, <1>3, <1>4, <1>5 DEF Next

\* Seen through the answers to GET, the runner does only what the lifecycle
\* allows: for any number of jobs and clients, and at any cap and retention.
THEOREM RunnerImplementsLifecycle == Spec => ImplementsLifecycle
<1>1. Init => Lifecycle!Init
    <2>1. SUFFICES ASSUME Init PROVE Lifecycle!Init
        OBVIOUS
    <2>2. \A j \in Job : record[j].status = "unborn" /\ task[j] = "none"
        BY <2>1 DEF Init, StoreInit
    <2>3. Shown = [j \in Job |-> "unknown"]
        BY <2>2 DEF Shown
    <2>4. \A j \in Job : (task[j] = "unwinding" /\ IsTerminal(record, j)) = FALSE
        BY <2>2
    <2>5. Lingering = [j \in Job |-> FALSE]
        BY <2>4, Zenon DEF Lingering
    <2>6. QED
        BY <2>3, <2>5 DEF Lifecycle!Init
<1>2. IInv /\ IInv' /\ [Next]_vars => [Lifecycle!Next]_(Lifecycle!vars)
    <2>1. SUFFICES ASSUME IInv, IInv', [Next]_vars
                   PROVE  Lifecycle!Next
        OBVIOUS
    <2>2. PICK j \in Job : StepOf(j)
        BY <2>1, StepsOf
    <2>3. \A k \in Job :
            Bystander(k) =>
              Lifecycle!Passive(Shown[k], Lingering[k], Shown'[k], Lingering'[k])
        BY <2>1, <2>2, BystanderIsPassive DEF StepOf
    <2>4. Acts(j) =>
            Lifecycle!Allowed(Shown[j], Lingering[j], Shown'[j], Lingering'[j])
        BY <2>1, ActsIsAllowed
    <2>5. \A k \in Job :
            Lifecycle!Allowed(Shown[k], Lingering[k], Shown'[k], Lingering'[k])
        BY <2>2, <2>3, <2>4 DEF StepOf, Lifecycle!Allowed, Lifecycle!Passive
    <2>6. \A i, k \in Job :
            \/ i = k
            \/ Lifecycle!Passive(Shown[i], Lingering[i], Shown'[i], Lingering'[i])
            \/ Lifecycle!Passive(Shown[k], Lingering[k], Shown'[k], Lingering'[k])
        BY <2>2, <2>3 DEF StepOf
    <2>7. QED
        BY <2>5, <2>6 DEF Lifecycle!Next
<1>3. QED
    BY <1>1, <1>2, AlwaysIInv, PTL DEF Spec, ImplementsLifecycle, Lifecycle!Spec
===============================================================================
