--------------------------- MODULE PageFetchProofs ---------------------------
(***************************************************************************)
(* Page fetches and the robots.txt they share, for any number of fetches,  *)
(* origins and redirects, any Ttl and any order in which origins change    *)
(* their minds: what a fallback costs, how often robots.txt is asked for,  *)
(* and how long a refusal can go unheeded.                                 *)
(***************************************************************************)
EXTENDS PageFetch, WellFoundedInduction, TLAPS

\* A copy of robots.txt is a record, and NoCopy is none.
Copy == [says : {"unread", "allows", "refuses"}, at : Nat]

Phase == Ended \cup {"idle", "queued", "asking", "requesting", "rendering"}

\* The types of what the three properties depend on.
Shape ==
    /\ now \in Nat
    /\ refuses \in [Site -> BOOLEAN]
    /\ since \in [Site -> Nat]
    /\ copy \in [Site -> Copy \cup {NoCopy}]
    /\ queue \in [Site -> Seq(Fetch)]
    /\ phase \in [Fetch -> Phase]
    /\ origin \in [Fetch -> Site]
    /\ text \in [Fetch -> Length \cup {NoText}]
    /\ shown \in [Fetch -> Length \cup {NoText}]

\* A fetch that asks for robots.txt is at the head of its origin's lock, and no copy has
\* come to be trusted since it looked.
Held ==
    \A c \in Fetch : phase[c] = "asking" =>
        /\ queue[origin[c]] # <<>> /\ Head(queue[origin[c]]) = c
        /\ ~Fresh(origin[c])

\* No copy is from the future, and one that allows what its origin now refuses was read
\* before the origin changed its mind.
Dated ==
    \A s \in Site : copy[s] # NoCopy =>
        /\ copy[s].at <= now
        /\ copy[s].says = "allows" /\ refuses[s] => copy[s].at <= since[s]

\* A text a browser may do better than.
Thin(c) == mode[c] = "auto" /\ browser /\ text[c] < Threshold

\* Once HTTP has brought a text, a fetch has ended with a page at least as long, or the text
\* is thin and the fetch is in its fallback, or has ended by a timeout, an unforeseen
\* exception or a cancellation.
Brought ==
    \A c \in Fetch : text[c] # NoText =>
        /\ phase[c] \in {"rendering", "page", "timeout", "crashed", "cancelled"}
        /\ phase[c] = "page" => shown[c] >= text[c]
        /\ phase[c] # "page" => Thin(c)

In(v, q) == \E i \in 1 .. Len(q) : q[i] = v

\* A fetch that waits for a lock is in its queue.
Waits == \A c \in Fetch : phase[c] = "queued" => In(c, queue[origin[c]])

IInv == Shape /\ Held /\ Waits /\ Dated /\ Brought

-------------------------------------------------------------------------------
\* A set of positions that is not empty has a first.
LEMMA FirstExists ==
    ASSUME NEW S \in SUBSET Nat, S # {}
    PROVE  \E m \in S : \A k \in S : m <= k
<1> DEFINE R == {pair \in Nat \X Nat : pair[1] < pair[2]}
<1>1. PICK m \in S : \A k \in S : ~(<<k, m>> \in R)
    <2>1. IsWellFoundedOn(R, Nat)
        BY NatLessThanWellFounded, Zenon DEF OpToRel
    <2>2. QED
        BY <2>1, WFMin
<1>2. ASSUME NEW k \in S PROVE m <= k
    <2>1. ~(k < m)
        BY <1>1
    <2>2. QED
        BY <2>1
<1>3. QED
    BY <1>2

\* Whoever leaves a lock's queue without being its head leaves the head where it is, and
\* the others in the queue.
LEMMA HeadStays ==
    ASSUME NEW q \in Seq(Fetch), NEW c \in Fetch
    PROVE  /\ RemoveFirst(q, c) \in Seq(Fetch)
           /\ q # <<>> /\ Head(q) # c => /\ RemoveFirst(q, c) # <<>>
                                         /\ Head(RemoveFirst(q, c)) = Head(q)
           /\ \A v : v # c /\ In(v, q) => In(v, RemoveFirst(q, c))
<1> DEFINE I == {i \in 1 .. Len(q) : q[i] = c}
           k == SelectInSeq(q, LAMBDA v : v = c)
<1>1. CASE I = {}
    <2>1. RemoveFirst(q, c) = q
        BY <1>1 DEF RemoveFirst
    <2>2. QED
        BY <2>1
<1>2. CASE I # {}
    <2>1. k \in I
        <3>1. k = CHOOSE x \in I : \A y \in I : x <= y
            BY <1>2 DEF SelectInSeq, Min
        <3>2. I \in SUBSET Nat
            OBVIOUS
        <3> HIDE DEF I, k
        <3>3. \E m \in I : \A i \in I : m <= i
            BY <1>2, <3>2, FirstExists, Zenon
        <3>4. QED
            BY <3>1, <3>3, Zenon
    <2>2. RemoveFirst(q, c) = SubSeq(q, 1, k - 1) \o SubSeq(q, k + 1, Len(q))
        BY <1>2 DEF RemoveFirst, RemoveAt
    <2> HIDE DEF k
    <2>3. k \in 1 .. Len(q) /\ q[k] = c
        BY <2>1
    <2>4. /\ SubSeq(q, 1, k - 1) \in Seq(Fetch)
          /\ SubSeq(q, k + 1, Len(q)) \in Seq(Fetch)
        BY <2>3
    <2>5. RemoveFirst(q, c) \in Seq(Fetch)
        BY <2>2, <2>4
    <2>6. ASSUME q # <<>>, Head(q) # c
          PROVE  RemoveFirst(q, c) # <<>> /\ Head(RemoveFirst(q, c)) = Head(q)
        <3>1. k # 1 /\ k - 1 \in 1 .. Len(q)
            BY <2>3, <2>6
        <3>2. Len(SubSeq(q, 1, k - 1)) = k - 1 /\ SubSeq(q, 1, k - 1)[1] = q[1]
            BY <2>3, <3>1
        <3>3. QED
            BY <2>2, <2>4, <3>1, <3>2
    <2>7. ASSUME NEW v, v # c, NEW i \in 1 .. Len(q), q[i] = v
          PROVE  In(v, RemoveFirst(q, c))
        <3>1. i # k
            BY <2>3, <2>7
        <3>2. CASE i < k
            <4>1. SubSeq(q, 1, k - 1)[i] = v /\ i \in 1 .. Len(SubSeq(q, 1, k - 1))
                BY <2>3, <2>7, <3>2
            <4>2. RemoveFirst(q, c)[i] = v /\ i \in 1 .. Len(RemoveFirst(q, c))
                BY <2>2, <2>4, <4>1
            <4>3. QED
                BY <4>2 DEF In
        <3>3. CASE i > k
            <4>1. /\ SubSeq(q, k + 1, Len(q))[i - k] = v
                  /\ i - k \in 1 .. Len(SubSeq(q, k + 1, Len(q)))
                  /\ Len(SubSeq(q, 1, k - 1)) = k - 1
                BY <2>3, <2>7, <3>3
            <4> DEFINE front == SubSeq(q, 1, k - 1)
                       rest == SubSeq(q, k + 1, Len(q))
            <4>2. front \in Seq(Fetch) /\ rest \in Seq(Fetch) /\ Len(front) = k - 1
                BY <2>4, <4>1
            <4>3. rest[i - k] = v /\ i - k \in 1 .. Len(rest)
                BY <4>1
            <4>4. RemoveFirst(q, c) = front \o rest
                BY <2>2
            <4> HIDE DEF front, rest
            <4>5. i - 1 \in 1 .. Len(front \o rest) /\ (front \o rest)[i - 1] = v
                BY <2>3, <3>3, <4>2, <4>3
            <4>6. QED
                BY <4>4, <4>5 DEF In
        <3>4. QED
            BY <2>3, <2>7, <3>1, <3>2, <3>3
    <2>8. QED
        BY <2>5, <2>6, <2>7 DEF In
<1>3. QED
    BY <1>1, <1>2

-------------------------------------------------------------------------------
\* At the start no fetch has gone anywhere.
LEMMA InitIInv == Init => IInv
<1> SUFFICES ASSUME Init PROVE IInv
    OBVIOUS
<1>1. Shape
    BY DEF Init, RobotsInit, Shape, Phase
<1>2. Held /\ Waits /\ Brought
    BY DEF Init, RobotsInit, Held, Waits, Brought
<1>3. Dated
    BY DEF Init, RobotsInit, Dated
<1>4. QED
    BY <1>1, <1>2, <1>3 DEF IInv

\* What a fetch does that neither waits for a lock nor holds one leaves the locks alone.
LEMMA Elsewhere ==
    ASSUME IInv, NEW c \in Fetch, NEW where \in Phase \ {"queued", "asking"},
           Goes(c, where), UNCHANGED <<robotsVars, origin>>
    PROVE  Held' /\ Waits' /\ Dated'
<1>1. \A d \in Fetch : phase'[d] \in {"queued", "asking"} => phase'[d] = phase[d]
    BY DEF IInv, Shape, Goes
<1>2. Held'
    BY <1>1 DEF IInv, Held, Fresh, robotsVars
<1>3. Waits'
    BY <1>1 DEF IInv, Waits, robotsVars
<1>4. Dated'
    BY DEF IInv, Dated, robotsVars
<1>5. QED
    BY <1>2, <1>3, <1>4

\* A fetch that leaves a lock's queue takes nobody's lock or place, and only the one that
\* holds the lock brings a copy that is trusted.
LEMMA Leaves ==
    ASSUME IInv, NEW c \in Fetch, NEW where \in Phase \ {"queued", "asking"},
           Goes(c, where), QuitQueue(c, origin[c]), UNCHANGED origin,
           \A s \in Site : Fresh(s)' => Fresh(s) \/ (s = origin[c] /\ phase[c] = "asking")
    PROVE  queue' \in [Site -> Seq(Fetch)] /\ Held' /\ Waits'
<1> DEFINE o == origin[c]
<1>1. /\ queue \in [Site -> Seq(Fetch)] /\ origin \in [Fetch -> Site]
      /\ phase \in [Fetch -> Phase]
    BY DEF IInv, Shape
<1>2. o \in Site /\ queue[o] \in Seq(Fetch)
    BY <1>1
<1>3. \A s \in Site : queue'[s] = IF s = o THEN RemoveFirst(queue[o], c) ELSE queue[s]
    BY <1>1 DEF QuitQueue
<1>4. RemoveFirst(queue[o], c) \in Seq(Fetch)
    BY <1>2, HeadStays
<1>5. queue' \in [Site -> Seq(Fetch)]
    BY <1>1, <1>4 DEF QuitQueue
<1>6. \A d \in Fetch : phase'[d] \in {"queued", "asking"} => d # c /\ phase'[d] = phase[d]
    BY <1>1 DEF Goes
<1>7. ASSUME NEW d \in Fetch, phase'[d] = "asking"
      PROVE  /\ queue'[origin[d]] # <<>> /\ Head(queue'[origin[d]]) = d
             /\ ~Fresh(origin[d])'
    <2>1. d # c /\ phase[d] = "asking"
        BY <1>6, <1>7
    <2>2. queue[origin[d]] # <<>> /\ Head(queue[origin[d]]) = d /\ ~Fresh(origin[d])
        BY <2>1 DEF IInv, Held
    <2>3. queue'[origin[d]] # <<>> /\ Head(queue'[origin[d]]) = d
        <3>1. CASE origin[d] = o
            <4>1. queue[o] # <<>> /\ Head(queue[o]) = d
                BY <2>2, <3>1
            <4>2. RemoveFirst(queue[o], c) # <<>> /\ Head(RemoveFirst(queue[o], c)) = d
                BY <1>2, <2>1, <4>1, HeadStays
            <4>3. QED
                BY <1>2, <1>3, <3>1, <4>2
        <3>2. CASE origin[d] # o
            BY <1>1, <1>3, <2>2, <3>2
        <3>3. QED
            BY <3>1, <3>2
    <2>4. ~(origin[d] = o /\ phase[c] = "asking")
        BY <2>1, <2>2 DEF IInv, Held
    <2>5. origin[d] \in Site /\ origin' = origin
        BY <1>1
    <2>6. ~Fresh(origin[d])'
        <3>1. PICK s \in Site : s = origin[d]
            BY <2>5
        <3>2. ~Fresh(s)'
            BY <2>2, <2>4, <3>1
        <3>3. QED
            BY <2>5, <3>1, <3>2 DEF Fresh
    <2>7. QED
        BY <2>3, <2>6
<1>8. Held'
    BY <1>7 DEF Held
<1>9. ASSUME NEW d \in Fetch, phase'[d] = "queued"
      PROVE  In(d, queue'[origin[d]])
    <2>1. d # c /\ In(d, queue[origin[d]])
        BY <1>6, <1>9 DEF IInv, Waits
    <2>2. CASE origin[d] = o
        <3>1. In(d, RemoveFirst(queue[o], c))
            BY <1>2, <2>1, <2>2, HeadStays
        <3>2. QED
            BY <1>2, <1>3, <2>2, <3>1
    <2>3. CASE origin[d] # o
        BY <1>1, <1>3, <2>1, <2>3
    <2>4. QED
        BY <2>2, <2>3
<1>10. Waits'
    BY <1>9 DEF Waits
<1>11. QED
    BY <1>5, <1>8, <1>10

\* A fetch that HTTP brought nothing yet, or that is cancelled, cannot lose a text.
LEMMA BroughtStays ==
    ASSUME IInv, NEW c \in Fetch, NEW where, Goes(c, where), UNCHANGED <<text, shown>>,
           \/ phase[c] \in {"idle", "queued", "asking", "requesting"}
           \/ phase[c] # "page" /\ where \in {"timeout", "crashed", "cancelled"},
           UNCHANGED <<mode, browser>>
    PROVE  Brought'
<1>1. text[c] # NoText => where \in {"timeout", "crashed", "cancelled"} /\ Thin(c)
    BY DEF IInv, Brought
<1>2. \A d \in Fetch : phase'[d] = IF d = c THEN where ELSE phase[d]
    BY DEF IInv, Shape, Goes
<1>3. \A d \in Fetch : Thin(d)' <=> Thin(d)
    BY DEF Thin
<1>4. QED
    BY <1>1, <1>2, <1>3 DEF IInv, Brought

-------------------------------------------------------------------------------
\* Where a fetch goes from the check of robots.txt is neither waiting nor asking.
LEMMA OpenPlaces ==
    ASSUME NEW c \in Fetch, NEW says
    PROVE  /\ OpenPage(c) \in Phase \ {"queued", "asking"}
           /\ Obey(c, says) \in Phase \ {"queued", "asking"}
BY DEF OpenPage, OpenBrowser, Obey, Phase, Ended

\* What every step of a fetch keeps of the shape.
LEMMA ShapeStays ==
    ASSUME IInv, NEW c \in Fetch, NEW where \in Phase, Goes(c, where),
           UNCHANGED <<now, refuses, since, origin>>,
           copy' \in [Site -> Copy \cup {NoCopy}], queue' \in [Site -> Seq(Fetch)],
           text' \in [Fetch -> Length \cup {NoText}], shown' \in [Fetch -> Length \cup {NoText}]
    PROVE  Shape'
BY DEF IInv, Shape, Goes

\* A URL is rejected.
LEMMA RejectIInv ==
    ASSUME IInv, NEW c \in Fetch, Reject(c)
    PROVE  IInv'
<1>1. "refused" \in Phase \ {"queued", "asking"}
    BY DEF Phase, Ended
<1>2. Held' /\ Waits' /\ Dated'
    BY <1>1, Elsewhere DEF Reject
<1>3. Brought'
    BY <1>1, BroughtStays DEF Reject
<1>4. Shape'
    BY <1>1 DEF Reject, IInv, Shape, robotsVars, Goes
<1>5. QED
    BY <1>2, <1>3, <1>4 DEF IInv

\* A fetch begins: it joins a lock's queue at its end, or passes it by.
LEMMA BeginIInv ==
    ASSUME IInv, NEW c \in Fetch, Begin(c)
    PROVE  IInv'
<1> DEFINE o == origin[c]
<1>1. /\ queue \in [Site -> Seq(Fetch)] /\ origin \in [Fetch -> Site]
      /\ phase \in [Fetch -> Phase] /\ phase[c] = "idle"
      /\ copy \in [Site -> Copy \cup {NoCopy}]
      /\ text \in [Fetch -> Length \cup {NoText}] /\ shown \in [Fetch -> Length \cup {NoText}]
      /\ UNCHANGED <<now, refuses, since, copy, origin, text, shown, mode, browser>>
    BY DEF IInv, Shape, Begin
<1>2. o \in Site /\ queue[o] \in Seq(Fetch)
    BY <1>1
<1>3. CASE UNCHANGED queue /\ \E w \in Phase \ {"queued", "asking"} : Goes(c, w)
    <2>1. PICK w \in Phase \ {"queued", "asking"} : Goes(c, w)
        BY <1>3
    <2>2. Held' /\ Waits' /\ Dated'
        BY <1>1, <1>3, <2>1, Elsewhere DEF robotsVars
    <2>3. Brought'
        BY <1>1, <2>1, BroughtStays
    <2>4. Shape'
        BY <1>1, <1>3, <2>1, ShapeStays
    <2>5. QED
        BY <2>2, <2>3, <2>4 DEF IInv
<1>4. CASE /\ ~Fresh(o)
           /\ JoinQueue(c, o)
           /\ Goes(c, IF queue[o] = <<>> THEN "asking" ELSE "queued")
    <2>1. PICK w \in {"asking", "queued"} :
              /\ w = IF queue[o] = <<>> THEN "asking" ELSE "queued"
              /\ Goes(c, w) /\ w \in Phase
        BY <1>4 DEF Phase
    <2>2. \A s \in Site : queue'[s] = IF s = o THEN Append(queue[o], c) ELSE queue[s]
        BY <1>1, <1>2, <1>4 DEF JoinQueue
    <2>3. queue' \in [Site -> Seq(Fetch)]
        BY <1>1, <1>2, <1>4 DEF JoinQueue
    <2>4. Shape'
        BY <1>1, <2>1, <2>3, ShapeStays
    <2>5. Brought'
        BY <1>1, <2>1, BroughtStays
    <2>6. \A d \in Fetch : phase'[d] = IF d = c THEN w ELSE phase[d]
        BY <1>1, <2>1 DEF Goes
    <2>7. /\ Append(queue[o], c) # <<>>
          /\ queue[o] = <<>> => Head(Append(queue[o], c)) = c
          /\ queue[o] # <<>> => Head(Append(queue[o], c)) = Head(queue[o])
          /\ In(c, Append(queue[o], c))
          /\ \A d : In(d, queue[o]) => In(d, Append(queue[o], c))
        <3>1. Len(Append(queue[o], c)) = Len(queue[o]) + 1
            BY <1>2
        <3>2. \A i \in 1 .. Len(queue[o]) : Append(queue[o], c)[i] = queue[o][i]
            BY <1>2
        <3>3. Append(queue[o], c)[Len(queue[o]) + 1] = c
            BY <1>2
        <3>4. Append(queue[o], c) \in Seq(Fetch) /\ Len(queue[o]) \in Nat
            BY <1>2
        <3>5. In(c, Append(queue[o], c))
            BY <3>1, <3>3, <3>4 DEF In
        <3>6. \A d : In(d, queue[o]) => In(d, Append(queue[o], c))
            BY <3>1, <3>2, <3>4 DEF In
        <3>7. Append(queue[o], c) # <<>>
            BY <3>1, <3>4
        <3>8. Head(Append(queue[o], c)) = IF queue[o] = <<>> THEN c ELSE Head(queue[o])
            BY <1>2
        <3>9. QED
            BY <3>5, <3>6, <3>7, <3>8
    <2>8. ASSUME NEW d \in Fetch, phase'[d] = "asking"
          PROVE  /\ queue'[origin[d]] # <<>> /\ Head(queue'[origin[d]]) = d
                 /\ ~Fresh(origin[d])
        <3>1. CASE d = c
            <4>1. queue[o] = <<>>
                BY <2>1, <2>6, <2>8, <3>1
            <4>2. QED
                BY <1>2, <1>4, <2>2, <2>7, <3>1, <4>1
        <3>2. CASE d # c
            <4>1. /\ queue[origin[d]] # <<>> /\ Head(queue[origin[d]]) = d
                  /\ ~Fresh(origin[d])
                BY <2>6, <2>8, <3>2 DEF IInv, Held
            <4>2. QED
                BY <1>1, <1>2, <2>2, <2>7, <4>1
        <3>3. QED
            BY <3>1, <3>2
    <2>9. Held'
        BY <1>1, <2>8 DEF Held, Fresh
    <2>10. ASSUME NEW d \in Fetch, phase'[d] = "queued"
           PROVE  In(d, queue'[origin[d]])
        <3>1. CASE d = c
            BY <1>2, <2>2, <2>7, <3>1
        <3>2. CASE d # c
            <4>1. In(d, queue[origin[d]])
                BY <2>6, <2>10, <3>2 DEF IInv, Waits
            <4>2. QED
                BY <1>1, <1>2, <2>2, <2>7, <4>1
        <3>3. QED
            BY <3>1, <3>2
    <2>11. Waits'
        BY <1>1, <2>10 DEF Waits
    <2>12. Dated'
        BY <1>1 DEF IInv, Dated
    <2>13. QED
        BY <2>4, <2>5, <2>9, <2>11, <2>12 DEF IInv
<1>5. QED
    BY <1>3, <1>4, OpenPlaces DEF Begin

\* A fetch whose turn it is looks again, and asks or releases the lock.
LEMMA ResumeIInv ==
    ASSUME IInv, NEW c \in Fetch, Resume(c)
    PROVE  IInv'
<1> DEFINE o == origin[c]
<1>1. /\ queue \in [Site -> Seq(Fetch)] /\ origin \in [Fetch -> Site]
      /\ phase \in [Fetch -> Phase] /\ phase[c] = "queued"
      /\ c = Head(queue[o])
      /\ copy \in [Site -> Copy \cup {NoCopy}]
      /\ text \in [Fetch -> Length \cup {NoText}] /\ shown \in [Fetch -> Length \cup {NoText}]
      /\ UNCHANGED <<now, refuses, since, copy, origin, text, shown, mode, browser>>
    BY DEF IInv, Shape, Resume
<1>2. o \in Site /\ queue[o] \in Seq(Fetch)
    BY <1>1
<1>3. Dated'
    BY <1>1 DEF IInv, Dated
<1>4. CASE QuitQueue(c, o) /\ \E w \in Phase \ {"queued", "asking"} : Goes(c, w)
    <2>1. PICK w \in Phase \ {"queued", "asking"} : Goes(c, w)
        BY <1>4
    <2>2. \A s \in Site : Fresh(s)' => Fresh(s)
        BY <1>1 DEF Fresh
    <2>3. queue' \in [Site -> Seq(Fetch)] /\ Held' /\ Waits'
        BY <1>1, <1>4, <2>1, <2>2, Leaves
    <2>4. Brought'
        BY <1>1, <2>1, BroughtStays
    <2>5. Shape'
        BY <1>1, <2>1, <2>3, ShapeStays
    <2>6. QED
        BY <1>3, <2>3, <2>4, <2>5 DEF IInv
<1>5. CASE ~Fresh(o) /\ Goes(c, "asking") /\ UNCHANGED queue
    <2>1. "asking" \in Phase
        BY DEF Phase
    <2>2. \A d \in Fetch : phase'[d] = IF d = c THEN "asking" ELSE phase[d]
        BY <1>1, <1>5 DEF Goes
    <2>3. Shape'
        BY <1>1, <1>5, <2>1, ShapeStays
    <2>4. Brought'
        BY <1>1, <1>5, BroughtStays
    <2>5. queue[o] # <<>>
        <3>1. In(c, queue[o])
            BY <1>1 DEF IInv, Waits
        <3>2. QED
            BY <3>1 DEF In
    <2>6. Held'
        BY <1>1, <1>5, <2>2, <2>5 DEF IInv, Held, Fresh
    <2>7. Waits'
        BY <1>1, <1>5, <2>2 DEF IInv, Waits
    <2>8. QED
        BY <1>3, <2>3, <2>4, <2>6, <2>7 DEF IInv
<1>6. QED
    BY <1>4, <1>5, OpenPlaces DEF Resume

\* robots.txt comes, or does not, and the lock is released.
LEMMA AskedIInv ==
    ASSUME IInv, NEW c \in Fetch, Asked(c)
    PROVE  IInv'
<1> DEFINE o == origin[c]
<1>1. /\ queue \in [Site -> Seq(Fetch)] /\ origin \in [Fetch -> Site]
      /\ phase \in [Fetch -> Phase] /\ phase[c] = "asking"
      /\ copy \in [Site -> Copy \cup {NoCopy}] /\ now \in Nat
      /\ text \in [Fetch -> Length \cup {NoText}] /\ shown \in [Fetch -> Length \cup {NoText}]
      /\ UNCHANGED <<now, refuses, since, origin, text, shown, mode, browser>>
      /\ QuitQueue(c, o)
    BY DEF IInv, Shape, Asked
<1>2. o \in Site
    BY <1>1
<1>3. PICK w \in Phase \ {"queued", "asking"} : Goes(c, w)
    BY OpenPlaces DEF Asked, Phase, Ended
<1>4. copy' = copy \/ \E says \in Answers(o) : Keep(o, says)
    BY DEF Asked
<1>5. \A s \in Site : s # o => copy'[s] = copy[s]
    BY <1>1, <1>2, <1>4 DEF Keep
<1>6. /\ copy' \in [Site -> Copy \cup {NoCopy}]
      /\ copy'[o] = copy[o] \/ \E says \in Answers(o) : copy'[o] = [says |-> says, at |-> now]
    <2>1. CASE copy' = copy
        BY <1>1, <2>1
    <2>2. ASSUME NEW says \in Answers(o), Keep(o, says)
          PROVE  /\ copy' \in [Site -> Copy \cup {NoCopy}]
                 /\ \E x \in Answers(o) : copy'[o] = [says |-> x, at |-> now]
        <3>1. [says |-> says, at |-> now] \in Copy
            BY <1>1 DEF Answers, Copy
        <3>2. copy' = [copy EXCEPT ![o] = [says |-> says, at |-> now]]
            BY <2>2 DEF Keep
        <3>3. copy'[o] = [says |-> says, at |-> now]
            BY <1>1, <1>2, <3>2
        <3>4. copy' \in [Site -> Copy \cup {NoCopy}]
            BY <1>1, <1>2, <3>1, <3>2
        <3>5. QED
            BY <3>3, <3>4
    <2>3. QED
        BY <1>4, <2>1, <2>2
<1>7. \A s \in Site : Fresh(s)' => Fresh(s) \/ (s = o /\ phase[c] = "asking")
    BY <1>1, <1>5 DEF Fresh
<1>8. queue' \in [Site -> Seq(Fetch)] /\ Held' /\ Waits'
    BY <1>1, <1>3, <1>7, Leaves
<1>9. Brought'
    BY <1>1, <1>3, BroughtStays
<1>10. Shape'
    BY <1>1, <1>3, <1>6, <1>8, ShapeStays
<1>11. ASSUME NEW s \in Site, copy'[s] # NoCopy
       PROVE  /\ copy'[s].at <= now
              /\ copy'[s].says = "allows" /\ refuses[s] => copy'[s].at <= since[s]
    <2>1. CASE copy'[s] = copy[s]
        BY <1>11, <2>1 DEF IInv, Dated
    <2>2. CASE copy'[s] # copy[s]
        <3>1. PICK says \in Answers(s) : copy'[s] = [says |-> says, at |-> now]
            BY <1>5, <1>6, <2>2
        <3>2. copy'[s].says = says /\ copy'[s].at = now
            BY <3>1
        <3>3. says = "allows" => ~refuses[s]
            BY <3>1 DEF Answers
        <3>4. QED
            BY <1>1, <3>2, <3>3
    <2>3. QED
        BY <2>1, <2>2
<1>12. Dated'
    BY <1>1, <1>11 DEF Dated
<1>13. QED
    BY <1>8, <1>9, <1>10, <1>12 DEF IInv

\* A response is handled, or fails to come: nothing of robots.txt changes, and a text is
\* kept as it comes.
LEMMA RequestIInv ==
    ASSUME IInv, NEW c \in Fetch, Redirect(c) \/ RequestFails(c) \/ Document(c)
    PROVE  IInv'
<1>1. /\ phase[c] = "requesting" /\ phase \in [Fetch -> Phase]
      /\ text \in [Fetch -> Length \cup {NoText}] /\ shown \in [Fetch -> Length \cup {NoText}]
      /\ copy \in [Site -> Copy \cup {NoCopy}] /\ queue \in [Site -> Seq(Fetch)]
      /\ UNCHANGED <<robotsVars, origin, mode, browser>>
    BY DEF IInv, Shape, Redirect, RequestFails, Document
<1>2. text[c] = NoText
    BY <1>1 DEF IInv, Brought
<1>3. CASE Redirect(c) \/ RequestFails(c)
    <2>1. PICK w \in Phase \ {"queued", "asking"} : Goes(c, w)
        BY <1>3 DEF Redirect, Redirected, RequestFails, Phase, Ended
    <2>2. Held' /\ Waits' /\ Dated'
        BY <1>1, <2>1, Elsewhere
    <2>3. UNCHANGED <<text, shown>>
        BY <1>3 DEF Redirect, RequestFails
    <2>4. Brought'
        BY <1>1, <2>1, <2>3, BroughtStays
    <2>5. Shape'
        BY <1>1, <2>1, <2>3, ShapeStays DEF robotsVars
    <2>6. QED
        BY <2>2, <2>4, <2>5 DEF IInv
<1>4. CASE Document(c)
    <2> DEFINE Better(length) == mode[c] = "auto" /\ length < Threshold /\ browser
    <2>1. PICK length \in Length :
              /\ text' = [text EXCEPT ![c] = length]
              /\ IF Better(length) THEN Goes(c, "rendering") /\ UNCHANGED shown ELSE Show(c, length)
        BY <1>4 DEF Document
    <2>2. Better(length) => Thin(c)'
        BY <1>1, <2>1 DEF Thin
    <2> HIDE DEF Better
    <2>3. PICK w \in {"rendering", "page"} :
              /\ Goes(c, w)
              /\ text' = [text EXCEPT ![c] = length]
              /\ shown' = IF w = "page" THEN [shown EXCEPT ![c] = length] ELSE shown
              /\ w = "page" \/ Better(length)
        BY <2>1 DEF Show
    <2>4. w \in Phase \ {"queued", "asking"}
        BY <2>3 DEF Phase, Ended
    <2>5. Held' /\ Waits' /\ Dated'
        BY <1>1, <2>3, <2>4, Elsewhere
    <2>6. /\ text' \in [Fetch -> Length \cup {NoText}]
          /\ shown' \in [Fetch -> Length \cup {NoText}]
        BY <1>1, <2>3
    <2>7. Shape'
        BY <1>1, <2>3, <2>4, <2>6, ShapeStays DEF robotsVars
    <2>8. length >= length
        BY PageFetchAssumption DEF Length
    <2>9. ASSUME NEW d \in Fetch, text'[d] # NoText
          PROVE  /\ phase'[d] \in {"rendering", "page", "timeout", "crashed", "cancelled"}
                 /\ phase'[d] = "page" => shown'[d] >= text'[d]
                 /\ phase'[d] # "page" => Thin(d)'
        <3>1. CASE d = c
            <4>1. phase'[c] = w /\ text'[c] = length /\ (w = "page" => shown'[c] = length)
                BY <1>1, <2>3 DEF Goes
            <4>2. w # "page" => Thin(c)'
                BY <2>3, <2>2
            <4>3. QED
                BY <2>3, <2>8, <3>1, <4>1, <4>2
        <3>2. CASE d # c
            <4>1. phase'[d] = phase[d] /\ text'[d] = text[d] /\ shown'[d] = shown[d]
                BY <1>1, <2>3, <3>2 DEF Goes
            <4>2. Thin(d)' <=> Thin(d)
                BY <1>1, <4>1 DEF Thin
            <4>3. QED
                BY <2>9, <4>1, <4>2 DEF IInv, Brought
        <3>3. QED
            BY <3>1, <3>2
    <2>10. Brought'
        BY <2>9 DEF Brought
    <2>11. QED
        BY <2>5, <2>7, <2>10 DEF IInv
<1>5. QED
    BY <1>3, <1>4

\* The render is over: what it brought counts if there is more of it.
LEMMA RenderIInv ==
    ASSUME IInv, NEW c \in Fetch, Rendered(c) \/ RenderFails(c)
    PROVE  IInv'
<1>1. /\ phase[c] = "rendering" /\ phase \in [Fetch -> Phase]
      /\ text \in [Fetch -> Length \cup {NoText}] /\ shown \in [Fetch -> Length \cup {NoText}]
      /\ copy \in [Site -> Copy \cup {NoCopy}] /\ queue \in [Site -> Seq(Fetch)]
      /\ UNCHANGED <<robotsVars, origin, text, mode, browser>>
    BY DEF IInv, Shape, Rendered, RenderFails
<1>2. text[c] \in Length \cup {NoText} /\ text[c] \in Int /\ Length \subseteq Int
    BY <1>1, PageFetchAssumption DEF Length, NoText
<1> DEFINE To(w, length) ==
               /\ Goes(c, w)
               /\ shown' = [shown EXCEPT ![c] = length]
               /\ text[c] # NoText => w \in {"page", "timeout", "crashed"}
               /\ w = "page" => length >= text[c]
<1>3. PICK w \in Ended, length \in Length \cup {NoText} : To(w, length)
    <2>1. CASE Rendered(c)
        <3>1. PICK length \in Length : Show(c, IF length > text[c] THEN length ELSE text[c])
            BY <2>1 DEF Rendered
        <3> DEFINE most == IF length > text[c] THEN length ELSE text[c]
        <3>2. most \in Length \cup {NoText} /\ most >= text[c]
            <4>1. length \in Int
                BY <1>2
            <4>2. QED
                BY <1>2, <4>1
        <3>3. Goes(c, "page") /\ shown' = [shown EXCEPT ![c] = most]
            BY <3>1 DEF Show
        <3>4. "page" \in Ended /\ "page" \in {"page", "timeout", "crashed"}
            BY DEF Ended
        <3>5. To("page", most)
            BY <3>2, <3>3, <3>4
        <3> HIDE DEF most, To
        <3>6. QED
            BY <3>2, <3>4, <3>5
    <2>2. CASE RenderFails(c)
        <3>1. CASE text[c] # NoText /\ Show(c, text[c])
            <4>1. Goes(c, "page") /\ shown' = [shown EXCEPT ![c] = text[c]]
                BY <3>1 DEF Show
            <4>2. "page" \in Ended /\ "page" \in {"page", "timeout", "crashed"}
                BY DEF Ended
            <4>3. text[c] >= text[c]
                BY <1>2
            <4>4. To("page", text[c])
                BY <4>1, <4>2, <4>3
            <4> HIDE DEF To
            <4>5. QED
                BY <1>2, <4>2, <4>4
        <3>2. CASE /\ \E how \in {"timeout", "crashed"}
                              \cup (IF text[c] = NoText THEN {"upstream"} ELSE {}) : Goes(c, how)
                   /\ UNCHANGED shown
            <4>1. PICK how \in {"timeout", "crashed", "upstream"} :
                      Goes(c, how) /\ (text[c] # NoText => how # "upstream")
                BY <3>2
            <4>2. shown' = [shown EXCEPT ![c] = shown[c]] /\ shown[c] \in Length \cup {NoText}
                BY <1>1, <3>2
            <4>3. /\ how \in Ended /\ how # "page"
                  /\ text[c] # NoText => how \in {"page", "timeout", "crashed"}
                BY <4>1 DEF Ended
            <4>4. To(how, shown[c])
                BY <4>1, <4>2, <4>3
            <4> HIDE DEF To
            <4>5. QED
                BY <4>2, <4>3, <4>4
        <3>3. QED
            BY <2>2, <3>1, <3>2 DEF RenderFails
    <2>3. QED
        BY <2>1, <2>2
<1>4. w \in Phase \ {"queued", "asking"}
    BY DEF Phase, Ended
<1>5. Held' /\ Waits' /\ Dated'
    BY <1>1, <1>3, <1>4, Elsewhere
<1>6. shown' \in [Fetch -> Length \cup {NoText}]
    BY <1>1, <1>3
<1>7. Shape'
    BY <1>1, <1>3, <1>4, <1>6, ShapeStays DEF robotsVars
<1>8. ASSUME NEW d \in Fetch, text'[d] # NoText
      PROVE  /\ phase'[d] \in {"rendering", "page", "timeout", "crashed", "cancelled"}
             /\ phase'[d] = "page" => shown'[d] >= text'[d]
             /\ phase'[d] # "page" => Thin(d)'
    <2> Thin(d)' <=> Thin(d)
        BY <1>1 DEF Thin
    <2>1. CASE d = c
        <3>1. phase'[c] = w /\ text'[c] = text[c] /\ shown'[c] = length
            BY <1>1, <1>3 DEF Goes
        <3>2. text[c] # NoText => Thin(c)
            BY <1>1 DEF IInv, Brought
        <3>3. QED
            BY <1>3, <1>8, <2>1, <3>1, <3>2
    <2>2. CASE d # c
        <3>1. phase'[d] = phase[d] /\ text'[d] = text[d] /\ shown'[d] = shown[d]
            BY <1>1, <1>3, <2>2 DEF Goes
        <3>2. QED
            BY <1>8, <3>1 DEF IInv, Brought
    <2>3. QED
        BY <2>1, <2>2
<1>9. Brought'
    BY <1>8 DEF Brought
<1>10. QED
    BY <1>5, <1>7, <1>9 DEF IInv

\* A fetch is cancelled wherever it is.
LEMMA CancelIInv ==
    ASSUME IInv, NEW c \in Fetch, Cancel(c)
    PROVE  IInv'
<1>1. /\ phase \in [Fetch -> Phase] /\ Goes(c, "cancelled")
      /\ text \in [Fetch -> Length \cup {NoText}] /\ shown \in [Fetch -> Length \cup {NoText}]
      /\ copy \in [Site -> Copy \cup {NoCopy}] /\ queue \in [Site -> Seq(Fetch)]
      /\ UNCHANGED <<now, refuses, since, copy, origin, text, shown, mode, browser>>
      /\ phase[c] # "page" /\ "cancelled" \in Phase \ {"queued", "asking"}
    BY DEF IInv, Shape, Cancel, Phase, Ended
<1>2. Brought'
    BY <1>1, BroughtStays
<1>3. Dated'
    BY <1>1 DEF IInv, Dated
<1>4. CASE QuitQueue(c, origin[c])
    <2>1. \A s \in Site : Fresh(s)' => Fresh(s)
        BY <1>1 DEF Fresh
    <2>2. queue' \in [Site -> Seq(Fetch)] /\ Held' /\ Waits'
        BY <1>1, <1>4, <2>1, Leaves
    <2>3. Shape'
        BY <1>1, <2>2, ShapeStays
    <2>4. QED
        BY <1>2, <1>3, <2>2, <2>3 DEF IInv
<1>5. CASE UNCHANGED queue
    <2>1. Held' /\ Waits'
        BY <1>1, <1>5, Elsewhere DEF robotsVars
    <2>2. Shape'
        BY <1>1, <1>5, ShapeStays
    <2>3. QED
        BY <1>2, <1>3, <2>1, <2>2 DEF IInv
<1>6. QED
    BY <1>4, <1>5 DEF Cancel

\* Time passes, or an origin rewrites its robots.txt: no copy comes to be trusted.
LEMMA OutsideIInv ==
    ASSUME IInv, Outside
    PROVE  IInv'
<1>1. UNCHANGED <<copy, queue, phase, origin, text, shown, mode, browser>>
    BY DEF Outside, PassTime, Rewrite, fetchVars
<1>2. Waits' /\ Brought'
    BY <1>1 DEF IInv, Waits, Brought, Thin
<1>3. Shape
    BY DEF IInv
<1>4. CASE PassTime
    <2>1. now' = now + 1 /\ UNCHANGED <<refuses, since>>
        BY <1>4 DEF PassTime
    <2>2. Shape'
        BY <1>1, <1>3, <2>1 DEF Shape
    <2>3. \A s \in Site : copy[s] # NoCopy => copy[s] \in Copy /\ copy[s].at \in Nat
        BY <1>3 DEF Shape, Copy
    <2>4. \A s \in Site : Fresh(s)' => Fresh(s)
        BY <1>1, <1>3, <2>1, <2>3, RobotsAssumption DEF Shape, Fresh
    <2>5. \A d \in Fetch : origin[d] \in Site
        BY <1>3 DEF Shape
    <2>6. ASSUME NEW d \in Fetch, phase'[d] = "asking"
          PROVE  /\ queue'[origin'[d]] # <<>> /\ Head(queue'[origin'[d]]) = d
                 /\ ~Fresh(origin[d])'
        <3>1. PICK s \in Site : s = origin[d]
            BY <2>5
        <3>2. ~Fresh(s)'
            BY <1>1, <2>4, <2>6, <3>1 DEF IInv, Held
        <3>3. ~Fresh(origin[d])'
            BY <1>1, <3>1, <3>2 DEF Fresh
        <3>4. QED
            BY <1>1, <2>6, <3>3 DEF IInv, Held
    <2>7. Held'
        BY <2>6 DEF Held
    <2>8. \A s \in Site : copy[s] # NoCopy /\ copy[s].at <= now => copy[s].at <= now'
        BY <1>3, <2>1, <2>3 DEF Shape
    <2>9. Dated'
        BY <1>1, <2>1, <2>8 DEF IInv, Dated
    <2>10. QED
        BY <1>2, <2>2, <2>7, <2>9 DEF IInv
<1>5. ASSUME NEW r \in Public, Rewrite(r)
      PROVE  IInv'
    <2>1. r \in Site
        BY PageFetchAssumption
    <2>2. UNCHANGED now
        BY <1>5 DEF Rewrite
    <2>3. Shape'
        BY <1>1, <1>3, <1>5, <2>1 DEF Shape, Rewrite
    <2>4. Held'
        BY <1>1, <2>2 DEF IInv, Held, Fresh
    <2>5. ASSUME NEW s \in Site, copy[s] # NoCopy
          PROVE  /\ copy[s].at <= now
                 /\ copy[s].says = "allows" /\ refuses'[s] => copy[s].at <= since'[s]
        <3>1. CASE s = r
            <4>1. since'[s] = now
                BY <1>3, <1>5, <3>1 DEF Shape, Rewrite
            <4>2. QED
                BY <2>5, <4>1 DEF IInv, Dated
        <3>2. CASE s # r
            <4>1. since'[s] = since[s] /\ refuses'[s] = refuses[s]
                BY <1>3, <1>5, <3>2 DEF Shape, Rewrite
            <4>2. QED
                BY <2>5, <4>1 DEF IInv, Dated
        <3>3. QED
            BY <3>1, <3>2
    <2>6. Dated'
        BY <1>1, <2>2, <2>5 DEF Dated
    <2>7. QED
        BY <1>2, <2>3, <2>4, <2>6 DEF IInv
<1>6. QED
    BY <1>4, <1>5 DEF Outside

-------------------------------------------------------------------------------
\* Every step keeps the invariant.
LEMMA NextIInv ==
    ASSUME IInv, [Next]_vars
    PROVE  IInv'
<1>1. CASE UNCHANGED vars
    <2>1. Shape'
        BY <1>1 DEF IInv, Shape, vars, robotsVars, fetchVars
    <2>2. Held' /\ Waits' /\ Brought' /\ Dated'
        BY <1>1 DEF IInv, Held, Waits, Brought, Thin, Dated, Fresh, vars, robotsVars, fetchVars
    <2>3. QED
        BY <2>1, <2>2 DEF IInv
<1>2. ASSUME NEW c \in Fetch, Reject(c) \/ Begin(c) \/ Progress(c) \/ Cancel(c)
      PROVE  IInv'
    BY <1>2, RejectIInv, BeginIInv, ResumeIInv, AskedIInv, RequestIInv, RenderIInv, CancelIInv
       DEF Progress
<1>3. CASE Outside
    BY <1>3, OutsideIInv
<1>4. QED
    BY <1>1, <1>2, <1>3 DEF Next

LEMMA AlwaysIInv == Spec => []IInv
BY InitIInv, NextIInv, PTL DEF Spec

\* The browser can cost a page only a thin text in mode "auto", when the render times out,
\* raises something unforeseen or is cancelled; what is returned is never thinner than what
\* HTTP brought (PageFetcher.fetch and _try_render).
THEOREM RendersAlwaysRiskThinTextOnly == Spec => []RendersRiskThinTextOnly
<1>1. IInv => RendersRiskThinTextOnly
    BY DEF IInv, Brought, Thin, RendersRiskThinTextOnly
<1>2. QED
    BY <1>1, AlwaysIInv, PTL

-------------------------------------------------------------------------------
\* Only who holds the origin's lock, and found no copy to trust, replaces the copy.
LEMMA CopyChanges ==
    ASSUME IInv, [Next]_vars, NEW s \in Site, copy'[s] # copy[s]
    PROVE  ~Fresh(s)
<1>1. PICK c \in Fetch : Asked(c)
    BY DEF Next, Progress, Outside, Reject, Begin, Resume, Redirect, RequestFails, Document,
           Rendered, RenderFails, Cancel, PassTime, Rewrite, vars, robotsVars
<1>2. phase[c] = "asking" /\ origin[c] \in Site /\ copy \in [Site -> Copy \cup {NoCopy}]
    BY <1>1 DEF Asked, IInv, Shape
<1>3. s = origin[c]
    BY <1>1, <1>2 DEF Asked, Keep
<1>4. QED
    BY <1>2, <1>3 DEF IInv, Held

\* robots.txt is fetched once per Ttl, however many fetches ask at the same time
\* (RobotsPolicy._parser_for).
THEOREM AlwaysOnceInATtl == Spec => OnceInATtl
<1>1. IInv /\ [Next]_vars => [\A s \in Site : copy'[s] # copy[s] => ~Fresh(s)]_vars
    BY CopyChanges
<1>2. QED
    BY <1>1, AlwaysIInv, PTL DEF Spec, OnceInATtl

\* A fetch that goes on to its page after its origin has refused for Ttl has not read a
\* copy that allows it.
LEMMA OpensUnread ==
    ASSUME IInv, [Next]_vars, NEW c \in Fetch, Opens(c), respect, refuses[origin[c]],
           now - since[origin[c]] >= Ttl
    PROVE  copy'[origin[c]].says = "unread"
<1> DEFINE s == origin[c]
<1>1. /\ s \in Site /\ refuses[s] /\ since[s] \in Nat /\ now \in Nat /\ Ttl \in Nat
      /\ phase \in [Fetch -> Phase]
      /\ copy \in [Site -> Copy \cup {NoCopy}]
    BY RobotsAssumption DEF IInv, Shape
<1>2. phase'[c] # phase[c]
    BY DEF Opens
<1>3. Begin(c) \/ Resume(c) \/ Asked(c)
    <2>1. PICK d \in Fetch : Reject(d) \/ Begin(d) \/ Progress(d) \/ Cancel(d)
        BY <1>2 DEF Next, Outside, vars, fetchVars
    <2>2. PICK w : Goes(d, w)
        BY <2>1 DEF Reject, Begin, Progress, Resume, Asked, Redirect, Redirected, RequestFails,
                    Document, Rendered, RenderFails, Cancel, Show
    <2>3. d = c
        BY <1>1, <1>2, <2>2 DEF Goes
    <2>4. ~(Reject(c) \/ Cancel(c))
        BY <1>1 DEF Opens, Reject, Cancel, Goes
    <2>5. ~(Redirect(c) \/ RequestFails(c) \/ Document(c) \/ Rendered(c) \/ RenderFails(c))
        BY DEF Opens, Redirect, RequestFails, Document, Rendered, RenderFails
    <2>6. QED
        BY <2>1, <2>3, <2>4, <2>5 DEF Progress
<1>4. \A w : Goes(c, w) => phase'[c] = w
    BY <1>1 DEF Goes
<1>5. \A says : Goes(c, Obey(c, says)) => says # "refuses"
    BY <1>4 DEF Opens, Obey, Allows
<1>6. CASE Fresh(s) /\ Goes(c, Obey(c, copy[s].says)) /\ UNCHANGED copy
    <2>1. copy[s] \in Copy /\ now - copy[s].at < Ttl
        BY <1>1, <1>6 DEF Fresh
    <2>2. copy[s].at \in Nat /\ copy[s].says \in {"unread", "allows", "refuses"}
        BY <2>1 DEF Copy
    <2>3. copy[s].says # "allows"
        <3>1. SUFFICES ASSUME copy[s].says = "allows" PROVE FALSE
            OBVIOUS
        <3>2. copy[s].at <= since[s]
            BY <1>1, <1>6, <3>1 DEF IInv, Dated, Fresh
        <3>3. QED
            BY <1>1, <2>1, <2>2, <3>2
    <2>4. QED
        BY <1>5, <1>6, <2>2, <2>3
<1>7. CASE Asked(c)
    <2>1. \A w \in {"crashed"} : ~Goes(c, w)
        BY <1>4 DEF Opens
    <2>2. PICK says \in Answers(s) : Keep(s, says) /\ Goes(c, Obey(c, says))
        BY <1>7, <2>1 DEF Asked
    <2>3. says = "unread"
        BY <1>1, <1>5, <2>2 DEF Answers
    <2>4. QED
        BY <1>1, <2>2, <2>3 DEF Keep
<1>8. CASE Begin(c) \/ Resume(c)
    <2>1. ~Goes(c, "asking") /\ ~Goes(c, "queued")
        BY <1>4 DEF Opens
    <2>2. Fresh(s) /\ Goes(c, Obey(c, copy[s].says)) /\ UNCHANGED copy
        BY <1>8, <2>1 DEF Begin, Resume
    <2>3. QED
        BY <1>6, <2>2
<1>9. QED
    BY <1>3, <1>7, <1>8

\* A site that starts refusing crawlers is not crawled longer than Ttl, unless its robots.txt
\* cannot be read (RobotsPolicy._parser_for).
THEOREM AlwaysSiteRefusalHeeded == Spec => SiteRefusalHeeded
<1> DEFINE Heeded == \A c \in Fetch :
               LET s == origin[c]
               IN  Opens(c) /\ respect /\ refuses[s] /\ now - since[s] >= Ttl
                       => copy'[s].says = "unread"
<1>1. IInv /\ [Next]_vars => [Heeded]_vars
    BY OpensUnread
<1>2. QED
    BY <1>1, AlwaysIInv, PTL DEF Spec, SiteRefusalHeeded

===============================================================================
