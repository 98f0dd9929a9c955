-------------------------- MODULE ModelCatalogProofs --------------------------
(***************************************************************************)
(* Whose catalogue a call is served, that a refresh is not undone, and     *)
(* that calls share a probe, for any number of calls, keys and caches, any *)
(* TTL and any evictions.                                                  *)
(***************************************************************************)
EXTENDS ModelCatalog, WellFoundedInduction, TLAPS

\* The type of what the two properties depend on: the queues and the clock are not in it.
Shape ==
    /\ registered \in Seq(Call)
    /\ stored \in [Call -> Call \cup {None}]
    /\ at \in [Call -> {"idle", "waiting", "probing", "answered", "cancelled"}]
    /\ key \in [Call -> Key \cup {None}]
    /\ cache \in [Call -> Call \cup {None}]
    /\ answer \in [Call -> Call \cup {None}]
    /\ dropped \in [Call -> SUBSET Call]

\* A call has no key, cache, value or answer before it comes; afterwards its cache is one
\* of its key, and only an answered call has an answer.
Placed ==
    \A c \in Call :
        /\ at[c] = "idle" => key[c] = None /\ stored[c] = None
        /\ at[c] # "idle" => key[c] \in Key /\ cache[c] \in Call /\ key[cache[c]] = key[c]
        /\ at[c] # "answered" => answer[c] = None

\* What a cache stores, and what a call was answered, was probed under its key.
SameKey ==
    /\ \A d \in Call : stored[d] # None => key[stored[d]] = key[d] /\ key[d] \in Key
    /\ OwnCatalogue

\* A key has at most one registered cache, made by a call that came, and only catalogues
\* that ended are dropped.
Unique ==
    /\ \A c \in ToSet(registered) : at[c] # "idle"
    /\ \A c, d \in ToSet(registered) : key[c] = key[d] => c = d
    /\ \A c \in Call : dropped[c] \subseteq Stored

\* What a refresh dropped is in no registered cache of its key, nor in the cache of a
\* call that waits and came with the refresh or after it.
NotStored ==
    /\ \A d \in ToSet(registered), c \in Call : key[c] = key[d] => stored[d] \notin dropped[c]
    /\ \A c \in Call : at[c] = "waiting" => stored[cache[c]] \notin dropped[c]
    /\ RefreshDropsStored

IInv == Shape /\ Placed /\ SameKey /\ Unique /\ NotStored

-------------------------------------------------------------------------------
\* Registering a cache adds no member but it.
LEMMA AdmittedMembers ==
    ASSUME registered \in Seq(Call), NEW c \in Call
    PROVE  /\ Admitted(c) \in Seq(Call)
           /\ ToSet(Admitted(c)) \subseteq ToSet(registered) \cup {c}
<1> DEFINE kept == IF Len(registered) >= MaxCached THEN Tail(registered) ELSE registered
<1>1. kept \in Seq(Call) /\ ToSet(kept) \subseteq ToSet(registered)
    <2>1. CASE Len(registered) >= MaxCached
        <3>1. registered # <<>>
            BY <2>1, ModelCatalogAssumption
        <3>2. /\ Tail(registered) \in Seq(Call)
              /\ Len(Tail(registered)) = Len(registered) - 1
              /\ \A i \in 1 .. Len(Tail(registered)) : Tail(registered)[i] = registered[i + 1]
            BY <3>1
        <3>3. QED
            BY <2>1, <3>2 DEF ToSet
    <2>2. QED
        BY <2>1
<1> HIDE DEF kept
<1>2. /\ Append(kept, c) \in Seq(Call)
      /\ Len(Append(kept, c)) = Len(kept) + 1
      /\ \A i \in 1 .. Len(kept) : Append(kept, c)[i] = kept[i]
      /\ Append(kept, c)[Len(kept) + 1] = c
    BY <1>1
<1>3. ToSet(Append(kept, c)) \subseteq ToSet(kept) \cup {c}
    BY <1>1, <1>2 DEF ToSet
<1>4. QED
    BY <1>1, <1>2, <1>3 DEF Admitted, kept

LEMMA InitIInv == Init => IInv
<1> SUFFICES ASSUME Init PROVE IInv
    OBVIOUS
<1>1. Shape
    BY DEF Init, Shape
<1>2. Placed
    BY DEF Init, Placed
<1>3. SameKey
    BY DEF Init, SameKey, OwnCatalogue
<1>4. ToSet(registered) = {}
    BY DEF Init, ToSet
<1>5. Unique /\ NotStored
    BY <1>4, ModelCatalogAssumption DEF Init, Unique, NotStored, RefreshDropsStored
<1>6. QED
    BY <1>1, <1>2, <1>3, <1>5 DEF IInv

\* A call comes, and perhaps refreshes, registers a cache, evicts one or is answered.
LEMMA ComeIInv ==
    ASSUME IInv, NEW c \in Call, NEW k \in Key, NEW refresh \in BOOLEAN, Come(c, k, refresh)
    PROVE  IInv'
<1> USE ModelCatalogAssumption
<1>1. PICK d \in IF CachesOf(k) = {} THEN {c} ELSE CachesOf(k) :
         LET value == AfterRefresh(d, refresh)
             fresh == Fresh(value, d)
         IN  /\ registered' = IF d = c THEN Admitted(c) ELSE registered
             /\ stored' = [stored EXCEPT ![d] = value]
             /\ cache' = [cache EXCEPT ![c] = d]
             /\ at' = [at EXCEPT ![c] = IF fresh THEN "answered"
                                        ELSE IF queue[d] = <<>> THEN "probing"
                                        ELSE "waiting"]
             /\ answer' = [answer EXCEPT ![c] = IF fresh THEN value ELSE None]
    BY DEF Come
<1> DEFINE value == AfterRefresh(d, refresh)
<1>2. /\ at[c] = "idle"
      /\ key' = [key EXCEPT ![c] = k]
      /\ dropped' = [dropped EXCEPT ![c] = (IF refresh THEN Stored ELSE {})
                        \cup UNION {dropped[e] : e \in {e \in Call : key[e] = k}}]
    BY DEF Come
<1>3. Shape /\ Placed /\ SameKey /\ Unique /\ NotStored
    BY DEF IInv
<1>4. key[c] = None /\ stored[c] = None /\ answer[c] = None /\ c \notin Stored
    BY <1>2, <1>3 DEF Placed, Stored
<1>5. /\ ToSet(registered) \subseteq Call
      /\ d \in Call
      /\ d # c => d \in ToSet(registered) /\ key[d] = k
      /\ d = c => CachesOf(k) = {}
      /\ c \notin ToSet(registered)
    BY <1>1, <1>2, <1>3, <1>4 DEF CachesOf, Shape, Unique, ToSet
<1>6. value \in {stored[d], None} /\ (refresh => value = None)
    BY DEF AfterRefresh
<1>7. /\ at'[c] \in {"answered", "probing", "waiting"}
      /\ answer'[c] \in {value, None}
      /\ at'[c] # "answered" => answer'[c] = None
      /\ \A e \in Call \ {c} : at'[e] = at[e] /\ answer'[e] = answer[e]
      /\ at' \in [Call -> {"idle", "waiting", "probing", "answered", "cancelled"}]
      /\ answer' \in [Call -> Call \cup {None}]
    BY <1>1, <1>3, <1>5, <1>6 DEF Shape
<1> HIDE DEF value
<1>8. stored' = [stored EXCEPT ![d] = value] /\ cache' = [cache EXCEPT ![c] = d]
    BY <1>1 DEF value
<1>9. /\ registered' \in Seq(Call)
      /\ ToSet(registered') \subseteq ToSet(registered) \cup {c}
      /\ d # c => registered' = registered
    BY <1>1, <1>3, AdmittedMembers DEF Shape
<1>10. Stored \subseteq Call /\ Stored \subseteq Stored'
    BY <1>4, <1>7 DEF Stored
<1>11. Shape'
    BY <1>2, <1>3, <1>5, <1>6, <1>7, <1>8, <1>9, <1>10 DEF Shape
<1>12. Placed'
    BY <1>2, <1>3, <1>4, <1>5, <1>6, <1>7, <1>8 DEF Shape, Placed
<1>13. SameKey'
    BY <1>2, <1>3, <1>4, <1>5, <1>6, <1>7, <1>8 DEF Shape, Placed, SameKey, OwnCatalogue
<1>14. /\ \A e \in Call \ {c} : dropped'[e] = dropped[e]
       /\ \A x \in dropped'[c] : (refresh /\ x \in Stored)
                                 \/ \E e \in Call : key[e] = k /\ x \in dropped[e]
    BY <1>2, <1>3 DEF Shape
<1>15. \A e \in Call : dropped'[e] \subseteq Stored
    BY <1>3, <1>14 DEF Unique
<1>16. \A e, f \in ToSet(registered') : key'[e] = key'[f] => e = f
    <2>1. CASE d # c
        BY <2>1, <1>2, <1>3, <1>4, <1>5, <1>9 DEF Unique, Shape
    <2>2. CASE d = c
        BY <2>2, <1>2, <1>3, <1>4, <1>5, <1>9 DEF Unique, Shape, CachesOf
    <2>3. QED
        BY <2>1, <2>2
<1>17. Unique'
    <2>1. \A e \in ToSet(registered') : at'[e] # "idle"
        BY <1>3, <1>5, <1>7, <1>9 DEF Unique
    <2>2. QED
        BY <2>1, <1>10, <1>15, <1>16 DEF Unique
<1>18. value \notin dropped'[c]
    <2>1. CASE value = None
        BY <2>1, <1>10, <1>15
    <2>2. CASE value # None
        BY <2>2, <1>3, <1>4, <1>5, <1>6, <1>14 DEF NotStored
    <2>3. QED
        BY <2>1, <2>2
<1>19. \A e \in Call : stored'[e] \in {stored[e], None}
    BY <1>3, <1>6, <1>8 DEF Shape
<1>20. \A e \in Call : None \notin dropped'[e]
    BY <1>10, <1>15
<1>21. \A e \in ToSet(registered'), f \in Call : key'[f] = key'[e] => stored'[e] \notin dropped'[f]
    <2> SUFFICES ASSUME NEW e \in ToSet(registered'), NEW f \in Call, key'[f] = key'[e]
                 PROVE  stored'[e] \notin dropped'[f]
        OBVIOUS
    <2>1. e \in Call /\ (e # c => e \in ToSet(registered))
        BY <1>5, <1>9
    <2>2. CASE e = c
        BY <2>2, <1>4, <1>19, <1>20
    <2>3. CASE e # c /\ f # c
        BY <2>1, <2>3, <1>2, <1>3, <1>14, <1>19, <1>20 DEF NotStored, Shape
    <2>4. CASE e # c /\ f = c
        <3>1. key[e] = k
            <4>1. key'[f] = k
                BY <2>4, <1>2, <1>3 DEF Shape
            <4>2. key'[e] = key[e]
                BY <2>1, <2>4, <1>2, <1>3 DEF Shape
            <4>3. QED
                BY <4>1, <4>2
        <3>2. d # c
            BY <3>1, <2>1, <2>4, <1>5 DEF CachesOf
        <3>3. e = d
            BY <3>1, <3>2, <2>1, <2>4, <1>3, <1>5 DEF Unique
        <3>4. QED
            BY <3>3, <2>4, <1>3, <1>5, <1>8, <1>18 DEF Shape
    <2>5. QED
        BY <2>2, <2>3, <2>4
<1>22. \A e \in Call : at'[e] = "waiting" => stored'[cache'[e]] \notin dropped'[e]
    <2> SUFFICES ASSUME NEW e \in Call, at'[e] = "waiting"
                 PROVE  stored'[cache'[e]] \notin dropped'[e]
        OBVIOUS
    <2>1. CASE e = c
        BY <2>1, <1>3, <1>5, <1>8, <1>18 DEF Shape
    <2>2. CASE e # c
        <3>1. at[e] = "waiting" /\ cache'[e] = cache[e] /\ cache[e] \in Call
            BY <2>2, <1>3, <1>7, <1>8 DEF Shape, Placed
        <3>2. QED
            BY <3>1, <2>2, <1>3, <1>14, <1>19, <1>20 DEF NotStored
    <2>3. QED
        BY <2>1, <2>2
<1>23. RefreshDropsStored'
    BY <1>3, <1>7, <1>14, <1>18, <1>20 DEF NotStored, RefreshDropsStored
<1>24. NotStored'
    BY <1>21, <1>22, <1>23 DEF NotStored
<1>25. QED
    BY <1>11, <1>12, <1>13, <1>17, <1>24 DEF IInv

\* A call that waited is answered from its cache, or begins to probe.
LEMMA ResumeIInv ==
    ASSUME IInv, NEW c \in Call, Resume(c) PROVE IInv'
<1>1. Shape' /\ Placed'
    BY DEF IInv, Shape, Placed, Resume, LookAgain, Fresh
<1>2. SameKey'
    BY DEF IInv, Shape, Placed, SameKey, OwnCatalogue, Resume, LookAgain, Fresh
<1>3. NotStored'
    BY DEF IInv, Shape, Placed, NotStored, RefreshDropsStored, Resume, LookAgain, Fresh
<1>4. Unique'
    <2>1. Stored \subseteq Stored'
        BY ModelCatalogAssumption DEF IInv, Shape, Placed, Resume, Stored
    <2>2. \A e \in ToSet(registered) : at'[e] # "idle"
        <3>1. ToSet(registered) \subseteq Call
            BY DEF IInv, Shape, ToSet
        <3>2. QED
            BY <3>1 DEF IInv, Shape, Unique, Resume
    <2>3. registered' = registered /\ key' = key /\ dropped' = dropped
        BY DEF Resume
    <2>4. QED
        BY <2>1, <2>2, <2>3 DEF IInv, Unique
<1>5. QED
    BY <1>1, <1>2, <1>3, <1>4 DEF IInv

\* A probe ends: its catalogue is new, so no refresh has dropped it.
LEMMA EndProbeIInv ==
    ASSUME IInv, NEW c \in Call, EndProbe(c) PROVE IInv'
<1> USE ModelCatalogAssumption
<1>1. /\ c \notin Stored
      /\ \A e \in Call : c \notin dropped[e]
      /\ key[c] \in Key /\ cache[c] \in Call /\ key[cache[c]] = key[c]
      /\ ToSet(registered) \subseteq Call
    BY DEF IInv, Placed, Unique, Stored, EndProbe, Shape, ToSet
<1>2. Shape' /\ Placed' /\ Unique'
    BY <1>1 DEF IInv, Shape, Placed, Unique, EndProbe, Stored
<1>3. SameKey'
    BY <1>1 DEF IInv, Shape, SameKey, OwnCatalogue, EndProbe
<1>4. NotStored'
    BY <1>1 DEF IInv, Shape, Placed, NotStored, RefreshDropsStored, EndProbe
<1>5. QED
    BY <1>2, <1>3, <1>4 DEF IInv

LEMMA CancelledIInv ==
    ASSUME IInv, NEW c \in Call, Cancelled(c) PROVE IInv'
<1>1. Shape' /\ Placed'
    BY DEF IInv, Shape, Placed, Cancelled
<1>2. SameKey'
    BY DEF IInv, Shape, SameKey, OwnCatalogue, Cancelled
<1>3. NotStored'
    BY DEF IInv, Shape, NotStored, RefreshDropsStored, Cancelled
<1>4. Unique'
    BY DEF IInv, Unique, Stored, Cancelled
<1>5. QED
    BY <1>1, <1>2, <1>3, <1>4 DEF IInv

LEMMA NextIInv == IInv /\ [Next]_vars => IInv'
<1> SUFFICES ASSUME IInv, [Next]_vars PROVE IInv'
    OBVIOUS
<1>1. ASSUME NEW c \in Call, NEW k \in Key, NEW refresh \in BOOLEAN, Come(c, k, refresh)
      PROVE  IInv'
    BY <1>1, ComeIInv
<1>2. ASSUME NEW c \in Call, Resume(c) \/ EndProbe(c) \/ Cancelled(c) PROVE IInv'
    BY <1>2, ResumeIInv, EndProbeIInv, CancelledIInv
<1>3. CASE PassTime \/ UNCHANGED vars
    BY <1>3 DEF PassTime, vars, IInv, Shape, Placed, SameKey, OwnCatalogue, Unique, Stored,
                NotStored, RefreshDropsStored
<1>4. QED
    BY <1>1, <1>2, <1>3 DEF Next

LEMMA AlwaysIInv == Spec => []IInv
<1>1. QED
    BY InitIInv, NextIInv, PTL DEF Spec

-------------------------------------------------------------------------------
\* A call is answered with a catalogue probed for its own account, profile and disabled
\* providers (registry.py, _cache_for and _disabled_cache_token).
THEOREM AlwaysOwnCatalogue == Spec => []OwnCatalogue
<1>1. IInv => OwnCatalogue
    BY DEF IInv, SameKey
<1>2. QED
    BY AlwaysIInv, <1>1, PTL

\* A catalogue that a refresh has dropped is served to no call that comes with it or
\* after it (cache.py, TTLCache.invalidate).
THEOREM AlwaysRefreshDropsStored == Spec => []RefreshDropsStored
<1>1. IInv => RefreshDropsStored
    BY DEF IInv, NotStored
<1>2. QED
    BY AlwaysIInv, <1>1, PTL

-------------------------------------------------------------------------------
\* One probe of a cache at a time, which needs the locks and the clock.

\* The types left out of Shape.
Queues ==
    /\ now \in Nat
    /\ storedAt \in [Call -> Nat]
    /\ queue \in [Call -> Seq(Call)]
    /\ refreshing \in SUBSET Call

In(v, q) == \E i \in 1 .. Len(q) : q[i] = v

\* The call that probes is at the head of its cache's lock, and a call that waits in its queue.
Lock ==
    /\ \A c \in Call : at[c] = "probing" => queue[cache[c]] # <<>> /\ Head(queue[cache[c]]) = c
    /\ \A c \in Call : at[c] = "waiting" => In(c, queue[cache[c]])

\* A stored catalogue was returned by the call that probed it.  As long as nothing can have
\* expired and nobody has asked for a refresh, it stays, and whoever probes has found nothing.
Kept ==
    /\ \A d \in Call : stored[d] # None => stored[d] \in Stored
    /\ now < TTL /\ refreshing = {} =>
          /\ \A c \in Stored : stored[cache[c]] = c
          /\ \A c \in Probing : stored[cache[c]] = None

LInv == Queues /\ Lock /\ Kept

\* A set of positions that is not empty has a first.
LEMMA FirstExists ==
    ASSUME NEW S \in SUBSET Nat, S # {}
    PROVE  \E m \in S : \A k \in S : m <= k
<1> DEFINE R == {pair \in Nat \X Nat : pair[1] < pair[2]}
<1>1. PICK m \in S : \A k \in S : ~(<<k, m>> \in R)
    <2>1. IsWellFoundedOn(R, Nat)
        BY NatLessThanWellFounded, Zenon DEF OpToRel
    <2>2. QED
        BY <2>1, WFMin
<1>2. ASSUME NEW k \in S PROVE m <= k
    <2>1. ~(k < m)
        BY <1>1
    <2>2. QED
        BY <2>1
<1>3. QED
    BY <1>2

\* Whoever leaves a lock's queue without being its head leaves the head where it is, and
\* the others in the queue.
LEMMA HeadStays ==
    ASSUME NEW q \in Seq(Call), NEW c \in Call
    PROVE  /\ RemoveFirst(q, c) \in Seq(Call)
           /\ q # <<>> /\ Head(q) # c => /\ RemoveFirst(q, c) # <<>>
                                         /\ Head(RemoveFirst(q, c)) = Head(q)
           /\ \A v : v # c /\ In(v, q) => In(v, RemoveFirst(q, c))
<1> DEFINE I == {i \in 1 .. Len(q) : q[i] = c}
           k == SelectInSeq(q, LAMBDA v : v = c)
<1>1. CASE I = {}
    <2>1. RemoveFirst(q, c) = q
        BY <1>1 DEF RemoveFirst
    <2>2. QED
        BY <2>1
<1>2. CASE I # {}
    <2>1. k \in I
        <3>1. k = CHOOSE x \in I : \A y \in I : x <= y
            BY <1>2 DEF SelectInSeq, Min
        <3>2. I \in SUBSET Nat
            OBVIOUS
        <3> HIDE DEF I, k
        <3>3. \E m \in I : \A i \in I : m <= i
            BY <1>2, <3>2, FirstExists, Zenon
        <3>4. QED
            BY <3>1, <3>3, Zenon
    <2>2. RemoveFirst(q, c) = SubSeq(q, 1, k - 1) \o SubSeq(q, k + 1, Len(q))
        BY <1>2 DEF RemoveFirst, RemoveAt
    <2> HIDE DEF k
    <2>3. k \in 1 .. Len(q) /\ q[k] = c
        BY <2>1
    <2>4. /\ SubSeq(q, 1, k - 1) \in Seq(Call)
          /\ SubSeq(q, k + 1, Len(q)) \in Seq(Call)
        BY <2>3
    <2>5. RemoveFirst(q, c) \in Seq(Call)
        BY <2>2, <2>4
    <2>6. ASSUME q # <<>>, Head(q) # c
          PROVE  RemoveFirst(q, c) # <<>> /\ Head(RemoveFirst(q, c)) = Head(q)
        <3>1. k # 1 /\ k - 1 \in 1 .. Len(q)
            BY <2>3, <2>6
        <3>2. Len(SubSeq(q, 1, k - 1)) = k - 1 /\ SubSeq(q, 1, k - 1)[1] = q[1]
            BY <2>3, <3>1
        <3>3. QED
            BY <2>2, <2>4, <3>1, <3>2
    <2>7. ASSUME NEW v, v # c, NEW i \in 1 .. Len(q), q[i] = v
          PROVE  In(v, RemoveFirst(q, c))
        <3>1. i # k
            BY <2>3, <2>7
        <3>2. CASE i < k
            <4>1. SubSeq(q, 1, k - 1)[i] = v /\ i \in 1 .. Len(SubSeq(q, 1, k - 1))
                BY <2>3, <2>7, <3>2
            <4>2. RemoveFirst(q, c)[i] = v /\ i \in 1 .. Len(RemoveFirst(q, c))
                BY <2>2, <2>4, <4>1
            <4>3. QED
                BY <4>2 DEF In
        <3>3. CASE i > k
            <4>1. /\ SubSeq(q, k + 1, Len(q))[i - k] = v
                  /\ i - k \in 1 .. Len(SubSeq(q, k + 1, Len(q)))
                  /\ Len(SubSeq(q, 1, k - 1)) = k - 1
                BY <2>3, <2>7, <3>3
            <4> DEFINE front == SubSeq(q, 1, k - 1)
                       rest == SubSeq(q, k + 1, Len(q))
            <4>2. front \in Seq(Call) /\ rest \in Seq(Call) /\ Len(front) = k - 1
                BY <2>4, <4>1
            <4>3. rest[i - k] = v /\ i - k \in 1 .. Len(rest)
                BY <4>1
            <4>4. RemoveFirst(q, c) = front \o rest
                BY <2>2
            <4> HIDE DEF front, rest
            <4>5. i - 1 \in 1 .. Len(front \o rest) /\ (front \o rest)[i - 1] = v
                BY <2>3, <3>3, <4>2, <4>3
            <4>6. QED
                BY <4>4, <4>5 DEF In
        <3>4. QED
            BY <2>3, <2>7, <3>1, <3>2, <3>3
    <2>8. QED
        BY <2>5, <2>6, <2>7 DEF In
<1>3. QED
    BY <1>1, <1>2

\* Whoever leaves the lock's queue as its head leaves the others in it.
LEMMA TailKeeps ==
    ASSUME NEW q \in Seq(Call), q # <<>>
    PROVE  /\ Tail(q) \in Seq(Call)
           /\ \A v : v # Head(q) /\ In(v, q) => In(v, Tail(q))
<1>1. /\ Tail(q) \in Seq(Call) /\ Len(Tail(q)) = Len(q) - 1 /\ Len(q) \in Nat
      /\ \A i \in 1 .. Len(q) - 1 : Tail(q)[i] = q[i + 1]
      /\ Head(q) = q[1]
    OBVIOUS
<1>2. ASSUME NEW v, v # Head(q), NEW i \in 1 .. Len(q), q[i] = v
      PROVE  In(v, Tail(q))
    <2>1. i - 1 \in 1 .. Len(Tail(q)) /\ i - 1 + 1 = i
        BY <1>1, <1>2
    <2>2. Tail(q)[i - 1] = v
        BY <1>1, <1>2, <2>1
    <2>3. QED
        BY <2>1, <2>2 DEF In
<1>3. QED
    BY <1>1, <1>2 DEF In

\* Whoever joins the lock's queue is its head only if it was empty.
LEMMA AppendKeeps ==
    ASSUME NEW q \in Seq(Call), NEW c \in Call
    PROVE  /\ Append(q, c) \in Seq(Call) /\ Append(q, c) # <<>>
           /\ Head(Append(q, c)) = IF q = <<>> THEN c ELSE Head(q)
           /\ In(c, Append(q, c))
           /\ \A v : In(v, q) => In(v, Append(q, c))
<1>1. /\ Append(q, c) \in Seq(Call) /\ Len(Append(q, c)) = Len(q) + 1 /\ Len(q) \in Nat
      /\ \A i \in 1 .. Len(q) : Append(q, c)[i] = q[i]
      /\ Append(q, c)[Len(q) + 1] = c
    OBVIOUS
<1>2. Append(q, c) # <<>>
    BY <1>1
<1>3. In(c, Append(q, c)) /\ \A v : In(v, q) => In(v, Append(q, c))
    BY <1>1 DEF In
<1>4. Head(Append(q, c)) = IF q = <<>> THEN c ELSE Head(q)
    OBVIOUS
<1>5. QED
    BY <1>1, <1>2, <1>3, <1>4

LEMMA InitLInv == Init => LInv
<1> SUFFICES ASSUME Init PROVE LInv
    OBVIOUS
<1>1. Queues /\ Lock
    BY DEF Init, Queues, Lock
<1>2. Kept
    BY ModelCatalogAssumption DEF Init, Kept, Stored, Probing
<1>3. QED
    BY <1>1, <1>2 DEF LInv

\* A call comes: it joins the lock's queue unless it is answered at once.
LEMMA ComeLInv ==
    ASSUME IInv, LInv, NEW c \in Call, NEW k \in Key, NEW refresh \in BOOLEAN, Come(c, k, refresh)
    PROVE  LInv'
<1> USE ModelCatalogAssumption
<1>1. PICK d \in IF CachesOf(k) = {} THEN {c} ELSE CachesOf(k) :
         LET value == AfterRefresh(d, refresh)
             fresh == Fresh(value, d)
         IN  /\ stored' = [stored EXCEPT ![d] = value]
             /\ cache' = [cache EXCEPT ![c] = d]
             /\ at' = [at EXCEPT ![c] = IF fresh THEN "answered"
                                        ELSE IF queue[d] = <<>> THEN "probing"
                                        ELSE "waiting"]
             /\ answer' = [answer EXCEPT ![c] = IF fresh THEN value ELSE None]
             /\ queue' = [queue EXCEPT ![d] = IF fresh THEN @ ELSE Append(@, c)]
    BY DEF Come
<1> DEFINE value == AfterRefresh(d, refresh)
           fresh == Fresh(value, d)
<1>2. /\ at[c] = "idle"
      /\ refreshing' = IF refresh THEN refreshing \cup {c} ELSE refreshing
      /\ now' = now /\ storedAt' = storedAt
    BY DEF Come
<1>3. /\ Shape /\ Placed /\ Queues /\ Lock /\ Kept
    BY DEF IInv, LInv
<1>4. /\ stored[c] = None /\ answer[c] = None /\ c \notin Stored /\ c \notin Probing
    BY <1>2, <1>3 DEF Placed, Stored, Probing
<1>5. d \in Call /\ queue[d] \in Seq(Call) /\ stored[d] \in Call \cup {None} /\ storedAt[d] \in Nat
    BY <1>1, <1>3 DEF CachesOf, Shape, Queues, ToSet
<1>6. value \in {stored[d], None} /\ (refresh => value = None) /\ (~refresh => value = stored[d])
    BY DEF AfterRefresh
<1>7. fresh <=> value # None /\ TTL > 0 /\ now - storedAt[d] < TTL
    BY DEF Fresh
<1> HIDE DEF value, fresh
<1>8. /\ stored' = [stored EXCEPT ![d] = value]
      /\ cache' = [cache EXCEPT ![c] = d]
      /\ queue' = [queue EXCEPT ![d] = IF fresh THEN @ ELSE Append(@, c)]
      /\ at' = [at EXCEPT ![c] = IF fresh THEN "answered"
                                 ELSE IF queue[d] = <<>> THEN "probing"
                                 ELSE "waiting"]
      /\ answer' = [answer EXCEPT ![c] = IF fresh THEN value ELSE None]
    BY <1>1 DEF value, fresh
<1>9. /\ \A e \in Call \ {c} : at'[e] = at[e] /\ answer'[e] = answer[e] /\ cache'[e] = cache[e]
      /\ cache'[c] = d
      /\ at'[c] = IF fresh THEN "answered" ELSE IF queue[d] = <<>> THEN "probing" ELSE "waiting"
      /\ answer'[c] = IF fresh THEN value ELSE None
      /\ \A e \in Call : stored'[e] = IF e = d THEN value ELSE stored[e]
      /\ \A e \in Call : queue'[e] = IF e = d /\ ~fresh THEN Append(queue[d], c) ELSE queue[e]
    BY <1>3, <1>5, <1>8 DEF Shape, Queues
<1>10. /\ Append(queue[d], c) \in Seq(Call) /\ Append(queue[d], c) # <<>>
       /\ Head(Append(queue[d], c)) = IF queue[d] = <<>> THEN c ELSE Head(queue[d])
       /\ In(c, Append(queue[d], c))
       /\ \A v : In(v, queue[d]) => In(v, Append(queue[d], c))
    BY <1>5, AppendKeeps
<1>11. Queues'
    <2>1. queue' \in [Call -> Seq(Call)]
        BY <1>3, <1>8, <1>10 DEF Queues
    <2>2. QED
        BY <1>2, <1>3, <2>1 DEF Queues
<1>12. ASSUME NEW e \in Call
       PROVE  /\ at'[e] = "probing" => queue'[cache'[e]] # <<>> /\ Head(queue'[cache'[e]]) = e
              /\ at'[e] = "waiting" => In(e, queue'[cache'[e]])
    <2>1. CASE e = c
        BY <1>5, <1>9, <1>10, <2>1
    <2>2. CASE e # c
        <3>1. at[e] = at'[e] /\ cache'[e] = cache[e]
            BY <1>9, <2>2
        <3>2. at[e] # "idle" => cache[e] \in Call
            BY <1>3 DEF Placed
        <3>3. at[e] = "probing" => queue'[cache[e]] # <<>> /\ Head(queue'[cache[e]]) = e
            BY <1>3, <1>9, <1>10, <3>2 DEF Lock
        <3>4. at[e] = "waiting" => In(e, queue'[cache[e]])
            BY <1>3, <1>9, <1>10, <3>2 DEF Lock
        <3>5. QED
            BY <3>1, <3>3, <3>4
    <2>3. QED
        BY <2>1, <2>2
<1>13. Lock'
    BY <1>12 DEF Lock
<1>14. \A e \in Call : stored[e] # None => stored[e] \in Stored /\ stored[e] # c
    BY <1>3, <1>4 DEF Kept
<1>15. Stored' = Stored
    <2>1. answer'[c] # c
        BY <1>5, <1>6, <1>9, <1>14
    <2>2. QED
        BY <1>4, <1>9, <2>1 DEF Stored
<1>16. \A e \in Call : stored'[e] # None => stored'[e] \in Stored'
    BY <1>5, <1>6, <1>9, <1>14, <1>15
<1>17. ASSUME now' < TTL, refreshing' = {}
       PROVE  /\ \A e \in Stored' : stored'[cache'[e]] = e
              /\ \A e \in Probing' : stored'[cache'[e]] = None
    <2>1. ~refresh /\ refreshing = {} /\ now < TTL
        BY <1>2, <1>17
    <2>2. /\ \A e \in Call : stored'[e] = stored[e]
          /\ value = stored[d]
        BY <1>6, <1>9, <2>1
    <2>3. \A e \in Stored : stored'[cache'[e]] = e
        <3>1. \A e \in Stored : e \in Call /\ e # c /\ cache[e] \in Call
            BY <1>3, <1>4 DEF Stored, Placed
        <3>2. QED
            BY <1>3, <1>9, <2>1, <2>2, <3>1 DEF Kept
    <2>4. ASSUME NEW e \in Probing'
          PROVE  stored'[cache'[e]] = None
        <3>1. CASE e = c
            <4>1. ~fresh
                BY <1>9, <2>4, <3>1 DEF Probing
            <4>2. TTL > 0 /\ now - storedAt[d] < TTL
                BY <1>3, <1>5, <2>1 DEF Queues
            <4>3. QED
                BY <1>5, <1>7, <1>9, <2>2, <3>1, <4>1, <4>2
        <3>2. CASE e # c
            <4>1. e \in Probing /\ e \in Call /\ cache[e] \in Call
                BY <1>3, <1>9, <2>4, <3>2 DEF Probing, Placed
            <4>2. QED
                BY <1>3, <1>9, <2>1, <2>2, <3>2, <4>1 DEF Kept
        <3>3. QED
            BY <3>1, <3>2
    <2>5. QED
        BY <1>15, <2>3, <2>4
<1>18. Kept'
    BY <1>16, <1>17 DEF Kept
<1>19. QED
    BY <1>11, <1>13, <1>18 DEF LInv

\* Whoever holds the lock, or is next, leaves the queue of its cache by its head.
LEMMA HeadLeaves ==
    ASSUME IInv, LInv, NEW c \in Call, at[c] \in {"waiting", "probing"},
           Head(queue[cache[c]]) = c, UNCHANGED cache,
           queue' = [queue EXCEPT ![cache[c]] = Tail(@)],
           \A e \in Call \ {c} : at'[e] = at[e],
           at'[c] = "answered"
    PROVE  queue' \in [Call -> Seq(Call)] /\ Lock'
<1> DEFINE d == cache[c]
<1>1. Shape /\ Placed /\ Queues /\ Lock
    BY DEF IInv, LInv
<1>2. d \in Call /\ queue[d] \in Seq(Call)
    BY <1>1 DEF Placed, Queues
<1>3. queue[d] # <<>>
    BY <1>1, <1>2 DEF Lock, In
<1>4. Tail(queue[d]) \in Seq(Call) /\ \A v : v # c /\ In(v, queue[d]) => In(v, Tail(queue[d]))
    BY <1>2, <1>3, TailKeeps
<1>5. queue' \in [Call -> Seq(Call)]
    BY <1>1, <1>4 DEF Queues
<1>6. \A e \in Call : queue'[e] = IF e = d THEN Tail(queue[d]) ELSE queue[e]
    BY <1>1 DEF Queues
<1>7. ASSUME NEW e \in Call, e # c
      PROVE  /\ at[e] = "probing" => queue'[cache[e]] # <<>> /\ Head(queue'[cache[e]]) = e
             /\ at[e] = "waiting" => In(e, queue'[cache[e]])
    <2>1. at[e] # "idle" => cache[e] \in Call
        BY <1>1 DEF Placed
    <2>2. at[e] = "probing" => queue'[cache[e]] # <<>> /\ Head(queue'[cache[e]]) = e
        BY <1>1, <1>6, <1>7, <2>1 DEF Lock
    <2>3. at[e] = "waiting" => In(e, queue'[cache[e]])
        BY <1>1, <1>4, <1>6, <1>7, <2>1 DEF Lock
    <2>4. QED
        BY <2>2, <2>3
<1>8. Lock'
    BY <1>7 DEF Lock
<1>9. QED
    BY <1>5, <1>8

LEMMA ResumeLInv ==
    ASSUME IInv, LInv, NEW c \in Call, Resume(c)
    PROVE  LInv'
<1> USE ModelCatalogAssumption
<1>1. /\ Shape /\ Placed /\ Queues /\ Lock /\ Kept
      /\ at[c] = "waiting" /\ Head(queue[cache[c]]) = c /\ cache[c] \in Call
      /\ UNCHANGED <<now, stored, storedAt, cache, refreshing>>
      /\ c \notin Stored
    BY DEF IInv, LInv, Resume, Placed, Stored
<1>2. stored[cache[c]] # c
    BY <1>1 DEF Kept
<1>3. CASE /\ LookAgain(cache[c])
           /\ at' = [at EXCEPT ![c] = "answered"]
           /\ answer' = [answer EXCEPT ![c] = stored[cache[c]]]
           /\ queue' = [queue EXCEPT ![cache[c]] = Tail(@)]
    <2>1. at'[c] = "answered" /\ \A e \in Call \ {c} : at'[e] = at[e] /\ answer'[e] = answer[e]
        BY <1>1, <1>3 DEF Shape
    <2>2. queue' \in [Call -> Seq(Call)] /\ Lock'
        BY <1>1, <1>3, <2>1, HeadLeaves
    <2>3. Queues'
        BY <1>1, <2>2 DEF Queues
    <2>4. Stored' = Stored
        BY <1>1, <1>2, <1>3, <2>1 DEF Stored, Shape
    <2>5. Probing' \subseteq Probing
        BY <2>1 DEF Probing
    <2>6. Kept'
        BY <1>1, <2>4, <2>5 DEF Kept
    <2>7. QED
        BY <2>2, <2>3, <2>6 DEF LInv
<1>4. CASE /\ ~LookAgain(cache[c])
           /\ at' = [at EXCEPT ![c] = "probing"]
           /\ UNCHANGED <<answer, queue>>
    <2>1. at'[c] = "probing" /\ \A e \in Call \ {c} : at'[e] = at[e]
        BY <1>1, <1>4 DEF Shape
    <2>2. Queues'
        BY <1>1, <1>4 DEF Queues
    <2>3. queue[cache[c]] # <<>>
        BY <1>1 DEF Lock, In
    <2>4. Lock'
        BY <1>1, <1>4, <2>1, <2>3 DEF Lock
    <2>5. Stored' = Stored
        BY <1>4 DEF Stored
    <2>6. now < TTL => stored[cache[c]] = None
        <3>1. storedAt[cache[c]] \in Nat /\ now \in Nat
            BY <1>1 DEF Queues
        <3>2. now < TTL => TTL > 0 /\ now - storedAt[cache[c]] < TTL
            BY <3>1
        <3>3. QED
            BY <1>4, <3>2 DEF LookAgain, Fresh
    <2>7. Probing' = Probing \cup {c}
        BY <2>1 DEF Probing
    <2>8. Kept'
        BY <1>1, <2>5, <2>6, <2>7 DEF Kept
    <2>9. QED
        BY <2>2, <2>4, <2>8 DEF LInv
<1>5. QED
    BY <1>3, <1>4 DEF Resume

LEMMA EndProbeLInv ==
    ASSUME IInv, LInv, NEW c \in Call, EndProbe(c)
    PROVE  LInv'
<1> USE ModelCatalogAssumption
<1> DEFINE d == cache[c]
<1>1. /\ Shape /\ Placed /\ Queues /\ Lock /\ Kept
      /\ at[c] = "probing" /\ d \in Call
      /\ at' = [at EXCEPT ![c] = "answered"]
      /\ answer' = [answer EXCEPT ![c] = c]
      /\ stored' = [stored EXCEPT ![d] = c]
      /\ storedAt' = [storedAt EXCEPT ![d] = now]
      /\ queue' = [queue EXCEPT ![d] = Tail(@)]
      /\ UNCHANGED <<now, cache, refreshing>>
    BY DEF IInv, LInv, EndProbe, Placed
<1>2. Head(queue[d]) = c /\ c \in Probing
    BY <1>1 DEF Lock, Probing
<1>3. /\ at'[c] = "answered" /\ \A e \in Call \ {c} : at'[e] = at[e]
      /\ answer'[c] = c /\ \A e \in Call \ {c} : answer'[e] = answer[e]
      /\ \A e \in Call : stored'[e] = IF e = d THEN c ELSE stored[e]
    BY <1>1 DEF Shape
<1>4. queue' \in [Call -> Seq(Call)] /\ Lock'
    BY <1>1, <1>2, <1>3, HeadLeaves
<1>5. Queues'
    BY <1>1, <1>4 DEF Queues
<1>6. Stored' = Stored \cup {c} /\ Probing' = Probing \ {c}
    BY <1>3 DEF Stored, Probing
<1>7. \A e \in Call : stored'[e] # None => stored'[e] \in Stored'
    BY <1>1, <1>3, <1>6 DEF Kept
<1>8. ASSUME now' < TTL, refreshing' = {}
      PROVE  /\ \A e \in Stored' : stored'[cache'[e]] = e
             /\ \A e \in Probing' : stored'[cache'[e]] = None
    <2>1. now < TTL /\ refreshing = {}
        BY <1>1, <1>8
    <2>2. stored[d] = None
        BY <1>1, <1>2, <2>1 DEF Kept
    <2>3. ASSUME NEW e \in Stored'
          PROVE  stored'[cache[e]] = e
        <3>1. CASE e = c
            BY <1>1, <1>3, <3>1
        <3>2. CASE e # c
            <4>1. e \in Stored /\ e \in Call /\ e # None
                BY <1>6, <2>3, <3>2 DEF Stored
            <4>2. stored[cache[e]] = e /\ cache[e] \in Call
                BY <1>1, <2>1, <4>1 DEF Kept, Placed, Stored
            <4>3. QED
                BY <1>3, <2>2, <4>1, <4>2
        <3>3. QED
            BY <3>1, <3>2
    <2>4. ASSUME NEW e \in Probing'
          PROVE  stored'[cache[e]] = None
        <3>1. e \in Probing /\ e # c /\ e \in Call
            BY <1>6, <2>4 DEF Probing
        <3>2. Head(queue[cache[e]]) = e /\ cache[e] \in Call /\ stored[cache[e]] = None
            BY <1>1, <2>1, <3>1 DEF Lock, Probing, Placed, Kept
        <3>3. cache[e] # d
            BY <1>2, <3>1, <3>2
        <3>4. QED
            BY <1>3, <3>2, <3>3
    <2>5. QED
        BY <1>1, <2>3, <2>4
<1>9. Kept'
    BY <1>7, <1>8 DEF Kept
<1>10. QED
    BY <1>4, <1>5, <1>9 DEF LInv

LEMMA CancelledLInv ==
    ASSUME IInv, LInv, NEW c \in Call, Cancelled(c)
    PROVE  LInv'
<1> DEFINE d == cache[c]
<1>1. /\ Shape /\ Placed /\ Queues /\ Lock /\ Kept
      /\ d \in Call /\ queue[d] \in Seq(Call)
      /\ at' = [at EXCEPT ![c] = "cancelled"]
      /\ queue' = [queue EXCEPT ![d] = RemoveFirst(@, c)]
      /\ UNCHANGED <<now, stored, storedAt, cache, refreshing, answer>>
    BY DEF IInv, LInv, Cancelled, Placed, Queues
<1>2. /\ RemoveFirst(queue[d], c) \in Seq(Call)
      /\ queue[d] # <<>> /\ Head(queue[d]) # c =>
             RemoveFirst(queue[d], c) # <<>> /\ Head(RemoveFirst(queue[d], c)) = Head(queue[d])
      /\ \A v : v # c /\ In(v, queue[d]) => In(v, RemoveFirst(queue[d], c))
    BY <1>1, HeadStays
<1>3. /\ at'[c] = "cancelled" /\ \A e \in Call \ {c} : at'[e] = at[e]
      /\ \A e \in Call : queue'[e] = IF e = d THEN RemoveFirst(queue[d], c) ELSE queue[e]
    BY <1>1 DEF Shape, Queues
<1>4. Queues'
    BY <1>1, <1>2 DEF Queues
<1>5. ASSUME NEW e \in Call, e # c
      PROVE  /\ at[e] = "probing" => queue'[cache[e]] # <<>> /\ Head(queue'[cache[e]]) = e
             /\ at[e] = "waiting" => In(e, queue'[cache[e]])
    <2>1. at[e] # "idle" => cache[e] \in Call
        BY <1>1 DEF Placed
    <2>2. at[e] = "probing" => queue'[cache[e]] # <<>> /\ Head(queue'[cache[e]]) = e
        BY <1>1, <1>2, <1>3, <1>5, <2>1 DEF Lock
    <2>3. at[e] = "waiting" => In(e, queue'[cache[e]])
        BY <1>1, <1>2, <1>3, <1>5, <2>1 DEF Lock
    <2>4. QED
        BY <2>2, <2>3
<1>6. Lock'
    BY <1>1, <1>3, <1>5 DEF Lock
<1>7. Stored' = Stored /\ Probing' \subseteq Probing
    BY <1>1, <1>3 DEF Stored, Probing
<1>8. Kept'
    BY <1>1, <1>7 DEF Kept
<1>9. QED
    BY <1>4, <1>6, <1>8 DEF LInv

LEMMA NextLInv ==
    ASSUME IInv, LInv, [Next]_vars
    PROVE  LInv'
<1>1. ASSUME NEW c \in Call, NEW k \in Key, NEW refresh \in BOOLEAN, Come(c, k, refresh)
      PROVE  LInv'
    BY <1>1, ComeLInv
<1>2. ASSUME NEW c \in Call, Resume(c) \/ EndProbe(c) \/ Cancelled(c)
      PROVE  LInv'
    BY <1>2, ResumeLInv, EndProbeLInv, CancelledLInv
<1>3. CASE PassTime \/ UNCHANGED vars
    <2>1. /\ UNCHANGED <<stored, storedAt, queue, at, cache, answer, refreshing>>
          /\ now' \in {now, now + 1} /\ now \in Nat
        BY <1>3 DEF PassTime, vars, LInv, Queues
    <2>2. Queues' /\ Lock'
        BY <2>1 DEF LInv, Queues, Lock
    <2>3. now' < TTL => now < TTL
        BY <2>1, ModelCatalogAssumption
    <2>4. Kept'
        BY <2>1, <2>3 DEF LInv, Kept, Stored, Probing
    <2>5. QED
        BY <2>2, <2>4 DEF LInv
<1>4. QED
    BY <1>1, <1>2, <1>3 DEF Next

LEMMA AlwaysLInv == Spec => []LInv
<1>1. IInv /\ LInv /\ [Next]_vars => LInv'
    BY NextLInv
<1>2. QED
    BY <1>1, InitLInv, AlwaysIInv, PTL DEF Spec

\* Of one cache at most one probe runs, and until its catalogue can have expired or somebody
\* asks for a refresh no other is stored (cache.py, TTLCache.get).
THEOREM AlwaysNoStampede == Spec => []NoStampede
<1>1. LInv => NoStampede
    <2>1. SUFFICES ASSUME LInv PROVE NoStampede
        OBVIOUS
    <2>2. \A c, d \in Probing : cache[c] = cache[d] => c = d
        BY <2>1 DEF LInv, Lock, Probing
    <2>3. now < TTL /\ refreshing = {} => \A c, d \in Stored : cache[c] = cache[d] => c = d
        BY <2>1 DEF LInv, Kept
    <2>4. QED
        BY <2>2, <2>3 DEF NoStampede
<1>2. QED
    BY <1>1, AlwaysLInv, PTL
===============================================================================
