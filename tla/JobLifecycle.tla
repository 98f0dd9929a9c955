----------------------------- MODULE JobLifecycle -----------------------------
(***************************************************************************)
(* What a background job promises the client that polls it: the abstract   *)
(* specification of src/app/services/jobs.                                 *)
(*                                                                         *)
(* shown[j] is what GET /v1/jobs/{j} answers: "unknown" before the job is  *)
(* submitted, "lost" once its record is gone.  lingering[j] holds from the *)
(* moment a running job is cancelled until its work has unwound.           *)
(***************************************************************************)
CONSTANT Job

VARIABLES shown, lingering

vars == <<shown, lingering>>

Outcome == {"succeeded", "failed", "cancelled"}

Init ==
    /\ shown = [j \in Job |-> "unknown"]
    /\ lingering = [j \in Job |-> FALSE]

-------------------------------------------------------------------------------
\* What may happen to one job in a step: s and l are what was shown of it and
\* whether it lingered, sn and ln what is after the step.

\* A submitted job is shown.  A store over its cap may lose the outcome of a job
\* in the very step that records it: "lost" is then all a client ever sees.
Submitted(s, l, sn, ln) == s = "unknown" /\ ~l /\ sn = "queued" /\ ~ln

Started(s, l, sn, ln) == s = "queued" /\ ~l /\ sn = "running" /\ ~ln

CancelledInQueue(s, l, sn, ln) ==
    s = "queued" /\ ~l /\ sn \in {"cancelled", "lost"} /\ ~ln

CancelledAtWork(s, l, sn, ln) ==
    s = "running" /\ ~l /\ sn \in {"cancelled", "lost"} /\ ln

Ended(s, l, sn, ln) ==
    s = "running" /\ ~l /\ sn \in Outcome \cup {"lost"} /\ ~ln

\* The work of a cancelled job unwinds: the record may change to a failure, and
\* may come back after it was lost.
Unwound(s, l, sn, ln) ==
    s \in {"cancelled", "lost"} /\ l /\ sn \in {"cancelled", "failed", "lost"} /\ ~ln

\* A finished job's record is dropped.
Dropped(s, l, sn, ln) == s \in Outcome /\ sn = "lost" /\ ln = l

Unchanged(s, l, sn, ln) == sn = s /\ ln = l

-------------------------------------------------------------------------------
Allowed(s, l, sn, ln) ==
    \/ Submitted(s, l, sn, ln)
    \/ Started(s, l, sn, ln)
    \/ CancelledInQueue(s, l, sn, ln)
    \/ CancelledAtWork(s, l, sn, ln)
    \/ Ended(s, l, sn, ln)
    \/ Unwound(s, l, sn, ln)
    \/ Dropped(s, l, sn, ln)
    \/ Unchanged(s, l, sn, ln)

Passive(s, l, sn, ln) == Dropped(s, l, sn, ln) \/ Unchanged(s, l, sn, ln)

\* A step acts on at most one job; others may only lose their record.
Next ==
    /\ \A j \in Job : Allowed(shown[j], lingering[j], shown'[j], lingering'[j])
    /\ \A i, j \in Job :
         \/ i = j
         \/ Passive(shown[i], lingering[i], shown'[i], lingering'[i])
         \/ Passive(shown[j], lingering[j], shown'[j], lingering'[j])

Spec == Init /\ [][Next]_vars
===============================================================================
