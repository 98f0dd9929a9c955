----------------------------- MODULE ModelCatalog -----------------------------
(***************************************************************************)
(* The catalogue of models each caller is served: the TTL cache            *)
(* (src/app/core/cache.py) and the registry's bounded set of such caches   *)
(* (src/app/services/llm/registry.py, _cache_for and catalog).             *)
(*                                                                         *)
(* A cache is named after the call of catalog that created it, and a       *)
(* catalogue after the call whose probe it came from.  A call that has     *)
(* looked its cache up holds the object even when the registry has evicted *)
(* it since.  A probe classifies every error of every provider, so it ends *)
(* in a catalogue unless it is cancelled; what it holds is left out.       *)
(***************************************************************************)
EXTENDS Integers, FiniteSets, SequencesExt

CONSTANTS
    Call,        \* calls of catalog, each made once
    Key,         \* the account, profile and disabled providers of a call
    None,
    TTL,         \* cache_ttl_seconds
    MaxCached,   \* max_cached_callers
    MaxTime      \* last value of the clock (bound)

ASSUME ModelCatalogAssumption ==
    /\ None \notin Call \cup Key
    /\ TTL \in Int
    /\ MaxCached \in Nat \ {0}
    /\ MaxTime \in Nat

VARIABLES
    now,
    registered,  \* _caches, in insertion order
    stored,      \* _value of each cache
    storedAt,    \* _stored_at of each cache
    queue,       \* the holder of each cache's lock and those waiting for it
    at,          \* where each call stands
    key,         \* the key of each call
    cache,       \* the cache each call looked up
    answer,      \* the catalogue each call returned
    refreshing,  \* history: the calls with refresh set
    dropped      \* history: when a call came, the probes whose catalogues a refresh
                 \* of its key had dropped

vars == <<now, registered, stored, storedAt, queue, at, key, cache, answer, refreshing, dropped>>

Init ==
    /\ now = 0
    /\ registered = <<>>
    /\ stored = [c \in Call |-> None]
    /\ storedAt = [c \in Call |-> 0]
    /\ queue = [c \in Call |-> <<>>]
    /\ at = [c \in Call |-> "idle"]
    /\ key = [c \in Call |-> None]
    /\ cache = [c \in Call |-> None]
    /\ answer = [c \in Call |-> None]
    /\ refreshing = {}
    /\ dropped = [c \in Call |-> {}]

\* The calls whose probes have ended in a catalogue.
Stored == {c \in Call : answer[c] = c}

Probing == {c \in Call : at[c] = "probing"}

-------------------------------------------------------------------------------
\* _cache_for.

\* Mutant: the key leaves the disabled providers, or the caller, out.
CachesOf_Anyone(k) == ToSet(registered)

\* The cache registered for a key, if there is one.
CachesOf(k) == {c \in ToSet(registered) : key[c] = k}

\* _caches with a new cache: the oldest makes room for it.
Admitted(c) ==
    Append(IF Len(registered) >= MaxCached THEN Tail(registered) ELSE registered, c)

-------------------------------------------------------------------------------
\* TTLCache.

\* peek finds a value.
Fresh(value, d) == value # None /\ TTL > 0 /\ now - storedAt[d] < TTL

\* Mutant: a refresh of a key leaves what is stored.
AfterRefresh_Kept(d, refresh) == stored[d]

\* _value of a cache after the invalidate of a call that refreshes.
AfterRefresh(d, refresh) == IF refresh THEN None ELSE stored[d]

\* catalog as far as its first await.  A call that finds a fresh value returns it;
\* one that finds the lock free probes at once, and its second peek finds what the
\* first did.
Come(c, k, refresh) ==
    /\ at[c] = "idle"
    /\ \E d \in IF CachesOf(k) = {} THEN {c} ELSE CachesOf(k) :
          LET value == AfterRefresh(d, refresh)
              fresh == Fresh(value, d)
          IN  /\ registered' = IF d = c THEN Admitted(c) ELSE registered
              /\ stored' = [stored EXCEPT ![d] = value]
              /\ cache' = [cache EXCEPT ![c] = d]
              /\ at' = [at EXCEPT ![c] = IF fresh THEN "answered"
                                         ELSE IF queue[d] = <<>> THEN "probing"
                                         ELSE "waiting"]
              /\ answer' = [answer EXCEPT ![c] = IF fresh THEN value ELSE None]
              /\ queue' = [queue EXCEPT ![d] = IF fresh THEN @ ELSE Append(@, c)]
    /\ key' = [key EXCEPT ![c] = k]
    /\ refreshing' = IF refresh THEN refreshing \cup {c} ELSE refreshing
    /\ dropped' = [dropped EXCEPT ![c] =
                      (IF refresh THEN Stored ELSE {})
                      \cup UNION {dropped[d] : d \in {e \in Call : key[e] = k}}]
    /\ UNCHANGED <<now, storedAt>>

\* Mutant: a call that was waiting for the lock does not look again.
LookAgain_Never(d) == FALSE

\* The second peek of get.
LookAgain(d) == Fresh(stored[d], d)

\* The lock is c's: it returns what another call has stored in the meantime, or
\* probes.
Resume(c) ==
    /\ at[c] = "waiting"
    /\ Head(queue[cache[c]]) = c
    /\ IF LookAgain(cache[c])
       THEN /\ at' = [at EXCEPT ![c] = "answered"]
            /\ answer' = [answer EXCEPT ![c] = stored[cache[c]]]
            /\ queue' = [queue EXCEPT ![cache[c]] = Tail(@)]
       ELSE /\ at' = [at EXCEPT ![c] = "probing"]
            /\ UNCHANGED <<answer, queue>>
    /\ UNCHANGED <<now, registered, stored, storedAt, key, cache, refreshing, dropped>>

\* The probe ends; its catalogue is stored, whatever has been invalidated since.
EndProbe(c) ==
    /\ at[c] = "probing"
    /\ at' = [at EXCEPT ![c] = "answered"]
    /\ answer' = [answer EXCEPT ![c] = c]
    /\ stored' = [stored EXCEPT ![cache[c]] = c]
    /\ storedAt' = [storedAt EXCEPT ![cache[c]] = now]
    /\ queue' = [queue EXCEPT ![cache[c]] = Tail(@)]
    /\ UNCHANGED <<now, registered, key, cache, refreshing, dropped>>

\* Mutant: a cancelled call keeps the lock or its place in the queue.
Cancelled_LockKept(c) ==
    /\ at[c] \in {"waiting", "probing"}
    /\ at' = [at EXCEPT ![c] = "cancelled"]
    /\ UNCHANGED <<now, registered, stored, storedAt, queue, key, cache, answer, refreshing, dropped>>

\* The job a call is made for is cancelled; the lock is released on the way out.
Cancelled(c) ==
    /\ at[c] \in {"waiting", "probing"}
    /\ at' = [at EXCEPT ![c] = "cancelled"]
    /\ queue' = [queue EXCEPT ![cache[c]] = RemoveFirst(@, c)]
    /\ UNCHANGED <<now, registered, stored, storedAt, key, cache, answer, refreshing, dropped>>

PassTime ==
    /\ now < MaxTime
    /\ now' = now + 1
    /\ UNCHANGED <<registered, stored, storedAt, queue, at, key, cache, answer, refreshing, dropped>>

-------------------------------------------------------------------------------
Next ==
    \/ \E c \in Call, k \in Key, refresh \in BOOLEAN : Come(c, k, refresh)
    \/ \E c \in Call : Resume(c) \/ EndProbe(c) \/ Cancelled(c)
    \/ PassTime

Spec == Init /\ [][Next]_vars

\* Each provider is given a deadline, so a probe ends, and a task that is given a
\* lock runs.
FairSpec == Spec /\ \A c \in Call : WF_vars(Resume(c) \/ EndProbe(c))

-------------------------------------------------------------------------------
\* A call is answered with a catalogue probed for its own account, profile and
\* disabled providers, however caches are shared, evicted and made anew
\* (registry.py, _cache_for and _disabled_cache_token).
OwnCatalogue == \A c \in Call : answer[c] # None => key[answer[c]] = key[c]

\* Calls that meet a probe of their key share it: of one cache at most one probe
\* runs at a time, and until its catalogue expires or somebody asks for a refresh no
\* other is stored (TTLCache: "wait for the in-flight refresh rather than each
\* triggering their own").
NoStampede ==
    /\ \A c, d \in Probing : cache[c] = cache[d] => c = d
    /\ now < TTL /\ refreshing = {} =>
           \A c, d \in Stored : cache[c] = cache[d] => c = d

\* A catalogue that was stored when a refresh of its key came is served to no call
\* that comes with the refresh or after it, not even from a cache evicted in the
\* meantime (TTLCache.invalidate).
RefreshDropsStored == \A c \in Call : answer[c] \notin dropped[c]

\* Every call ends, even if the one it waits for is cancelled (TTLCache's lock).
EveryCallEnds == \A c \in Call : at[c] = "waiting" ~> at[c] \in {"answered", "cancelled"}
===============================================================================
