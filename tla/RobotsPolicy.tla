----------------------------- MODULE RobotsPolicy -----------------------------
(***************************************************************************)
(* The robots.txt policy (src/app/services/robots.py): one copy of each    *)
(* origin's robots.txt, trusted for Ttl, fetched again under a lock of the *)
(* origin's own.                                                           *)
(*                                                                         *)
(* A fetch is named after the page fetch that makes it.  queue[s] is the   *)
(* lock of origin s: its head holds it, or is next to resume.  The origins *)
(* change their minds: refuses[s] says whether robots.txt of s disallows   *)
(* the pages that are asked for, and since[s] when it last changed.        *)
(***************************************************************************)
EXTENDS Integers, SequencesExt

CONSTANTS
    Fetch,       \* the page fetches
    Site,        \* the origins they, and redirects, name
    Ttl,         \* ROBOTS_CACHE_TTL_SECONDS
    MaxTime,     \* the clock stops here (a bound of the model)
    NoCopy       \* an origin whose robots.txt was never fetched

ASSUME RobotsAssumption ==
    /\ Ttl \in Nat \ {0}
    /\ MaxTime \in Nat

VARIABLES
    now,         \* the monotonic clock
    refuses,     \* what each origin's robots.txt says
    since,       \* since when it says so
    copy,        \* _parsers: the copy held of each origin's and its time; one that is
                 \* "unread" could not be had and allows everything
    queue        \* _locks: who holds, and who waits for, each origin's lock

robotsVars == <<now, refuses, since, copy, queue>>

RobotsInit ==
    /\ now = 0
    /\ refuses = [s \in Site |-> FALSE]
    /\ since = [s \in Site |-> 0]
    /\ copy = [s \in Site |-> NoCopy]
    /\ queue = [s \in Site |-> <<>>]

-------------------------------------------------------------------------------
\* Mutant: a copy is trusted until the process ends.
Fresh_ForEver(s) == copy[s] # NoCopy

\* _fresh.
Fresh(s) == copy[s] # NoCopy /\ now - copy[s].at < Ttl

\* can_fetch, once there is a copy: only a rule that was read can refuse.
Allows(says) == says # "refuses"

\* The origin's lock is asked for; whoever finds it free has it at once.
JoinQueue(c, s) == queue' = [queue EXCEPT ![s] = Append(@, c)]

\* The lock is released, or a wait for it is cancelled.
QuitQueue(c, s) == queue' = [queue EXCEPT ![s] = RemoveFirst(@, c)]

\* What a GET of robots.txt brings: its rules, or nothing usable (a transport
\* failure, or any status but 200).
Answers(s) == {"unread", IF refuses[s] THEN "refuses" ELSE "allows"}

\* The answer is kept, with the time it came.
Keep(s, says) == copy' = [copy EXCEPT ![s] = [says |-> says, at |-> now]]

-------------------------------------------------------------------------------
\* An origin rewrites its robots.txt.
Rewrite(s) ==
    /\ refuses' = [refuses EXCEPT ![s] = ~@]
    /\ since' = [since EXCEPT ![s] = now]
    /\ UNCHANGED <<now, copy, queue>>

PassTime ==
    /\ now < MaxTime
    /\ now' = now + 1
    /\ UNCHANGED <<refuses, since, copy, queue>>
===============================================================================
