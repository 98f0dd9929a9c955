----------------------------- MODULE PageProofs -----------------------------
(***************************************************************************)
(* Theorems about a page's results and texts, of any size: what the folds  *)
(* over lines, characters and containers compute, how a text is cut, and   *)
(* which results with which ranks are read off a results page.             *)
(*                                                                         *)
(* Induction over a sequence is by the least number that is not in a set:  *)
(* the set is that of the lengths of which a claim holds.                  *)
(***************************************************************************)
EXTENDS ResultPage, FiniteSetTheorems, SequenceTheorems, WellFoundedInduction, TLAPS

-------------------------------------------------------------------------------
\* The first position of those that match is one of them.
LEMMA FirstExists ==
    ASSUME NEW S \in SUBSET Nat, S # {}
    PROVE  \E m \in S : \A k \in S : m <= k
<1> DEFINE R == {pair \in Nat \X Nat : pair[1] < pair[2]}
<1>1. PICK m \in S : \A k \in S : ~(<<k, m>> \in R)
    <2>1. IsWellFoundedOn(R, Nat)
        BY NatLessThanWellFounded, Zenon DEF OpToRel
    <2>2. QED
        BY <2>1, WFMin
<1>2. ASSUME NEW k \in S PROVE m <= k
    <2>1. ~(k < m)
        BY <1>1
    <2>2. QED
        BY <2>1
<1>3. QED
    BY <1>2

\* The last position of those that match is one of them.
LEMMA LastExists ==
    ASSUME NEW n \in Nat, NEW I \in SUBSET (1 .. n), I # {}
    PROVE  Max(I) \in I /\ \A i \in I : i <= Max(I)
<1> DEFINE Mirror == {n - i : i \in I}
<1>1. Mirror \in SUBSET Nat /\ Mirror # {}
    OBVIOUS
<1>2. PICK m \in Mirror : \A k \in Mirror : m <= k
    <2> HIDE DEF Mirror
    <2>1. QED  BY <1>1, FirstExists
<1>3. PICK i \in I : m = n - i
    OBVIOUS
<1>4. ASSUME NEW j \in I PROVE i >= j
    <2>1. n - j \in Mirror
        OBVIOUS
    <2>2. n - i <= n - j
        BY <1>2, <1>3, <2>1
    <2>3. i \in Int /\ j \in Int
        OBVIOUS
    <2> HIDE DEF Mirror
    <2>4. QED
        BY <2>2, <2>3
<1> HIDE DEF Mirror
<1>5. \E x \in I : \A y \in I : x >= y
    BY <1>4
<1>6. Max(I) \in I /\ \A y \in I : Max(I) >= y
    BY <1>5 DEF Max
<1>7. QED
    BY <1>6

\* A set with zero and, with every number below n, the next one, has every number to n.
LEMMA UpTo ==
    ASSUME NEW n \in Nat, NEW P, 0 \in P, \A i \in 0 .. n - 1 : i \in P => i + 1 \in P
    PROVE  \A i \in 0 .. n : i \in P
<1> DEFINE Rest == {i \in 0 .. n : i \notin P}
<1>1. SUFFICES ASSUME Rest # {} PROVE FALSE
    OBVIOUS
<1>2. PICK m \in Rest : \A k \in Rest : m <= k
    <2>1. Rest \in SUBSET Nat
        OBVIOUS
    <2> HIDE DEF Rest
    <2>2. QED
        BY <1>1, <2>1, FirstExists
<1>3. m # 0 /\ m - 1 \in 0 .. n - 1 /\ (m - 1) + 1 = m
    BY <1>2
<1>4. m - 1 \in P
    <2>1. m - 1 \in 0 .. n /\ ~ (m <= m - 1)
        BY <1>3
    <2>2. m - 1 \notin Rest
        BY <1>2, <2>1
    <2>3. QED
        BY <2>1, <2>2
<1>5. m \in P
    BY <1>3, <1>4
<1>6. QED
    BY <1>2, <1>5

\* A function of the first numbers is a sequence.
LEMMA FunctionIsSeq ==
    ASSUME NEW S, NEW n \in Nat, NEW f \in [1 .. n -> S]
    PROVE  f \in Seq(S) /\ Len(f) = n
<1>1. f \in Seq(S)
    BY SeqDef
<1>2. DOMAIN f = 1 .. n /\ DOMAIN f = 1 .. Len(f) /\ Len(f) \in Nat
    BY <1>1, LenProperties
<1>3. QED
    BY <1>2, <1>1

\* The greatest of the numbers to n is n.
LEMMA GreatestOfThese ==
    ASSUME NEW n \in Nat \ {0}
    PROVE  Max(1 .. n) = n /\ (1 .. n) \ {n} = 1 .. n - 1
<1>1. Max(1 .. n) \in 1 .. n /\ \A i \in 1 .. n : i <= Max(1 .. n)
    <2> DEFINE I == 1 .. n
    <2>1. I \in SUBSET (1 .. n) /\ I # {}
        OBVIOUS
    <2> HIDE DEF I
    <2>2. Max(I) \in I /\ \A i \in I : i <= Max(I)
        BY <2>1, LastExists
    <2>3. QED
        BY <2>2 DEF I
<1>2. n \in 1 .. n
    OBVIOUS
<1>3. Max(1 .. n) = n
    BY <1>1, <1>2
<1>4. QED
    BY <1>3

\* The turns of a fold over n elements, and the function over the sets of positions it is made of.
Turns(n, S) == [(1 .. n) \X S -> S]

Unfolds(f, n, base, step) ==
    \A s \in SUBSET (1 .. n) :
        f[s] = IF s = {} THEN base ELSE step[<<Max(s), f[s \ {Max(s)}]>>]

\* What FoldLeft is made of: there is a function over the sets of positions that takes the
\* last one off at each turn.
LEMMA IterExists ==
    ASSUME NEW n \in Nat, NEW S, NEW base \in S, NEW step \in Turns(n, S)
    PROVE  \E f \in [SUBSET (1 .. n) -> S] : Unfolds(f, n, base, step)
<1> DEFINE Fits(f, s) == f[s] = IF s = {} THEN base ELSE step[<<Max(s), f[s \ {Max(s)}]>>]
           Found(m) == \E f \in [SUBSET (1 .. m) -> S] : \A s \in SUBSET (1 .. m) : Fits(f, s)
           P == {m \in Nat : m <= n => Found(m)}
<1>1. 0 \in P
    <2> DEFINE f == [s \in SUBSET (1 .. 0) |-> base]
    <2>1. f \in [SUBSET (1 .. 0) -> S] /\ \A s \in SUBSET (1 .. 0) : s = {} /\ f[s] = base
        OBVIOUS
    <2> HIDE DEF f
    <2>2. QED
        BY <2>1
<1>2. ASSUME NEW m \in 0 .. n - 1, m \in P PROVE m + 1 \in P
    <2>1. PICK f \in [SUBSET (1 .. m) -> S] : \A s \in SUBSET (1 .. m) : Fits(f, s)
        <3>1. m \in Nat /\ m <= n
            BY <1>2
        <3>2. QED
            BY <1>2, <3>1
    <2> DEFINE g == [s \in SUBSET (1 .. m + 1) |->
                        IF m + 1 \in s THEN step[<<m + 1, f[s \ {m + 1}]>>] ELSE f[s]]
    <2>2. \A s \in SUBSET (1 .. m + 1) :
              /\ m + 1 \in s => s \ {m + 1} \in SUBSET (1 .. m) /\ Max(s) = m + 1
              /\ m + 1 \notin s => s \in SUBSET (1 .. m)
        <3>1. SUFFICES ASSUME NEW s \in SUBSET (1 .. m + 1), m + 1 \in s
                       PROVE  Max(s) = m + 1
            OBVIOUS
        <3>2. Max(s) \in s /\ \A i \in s : i <= Max(s)
            <4>1. s # {} /\ m + 1 \in Nat
                BY <3>1
            <4>2. QED
                BY <4>1, LastExists
        <3>3. Max(s) \in 1 .. m + 1 /\ m + 1 <= Max(s)
            BY <3>1, <3>2
        <3>4. QED
            BY <3>3
    <2>3. g \in [SUBSET (1 .. m + 1) -> S]
        <3>1. ASSUME NEW s \in SUBSET (1 .. m + 1) PROVE g[s] \in S
            <4>1. CASE m + 1 \in s
                <5>1. f[s \ {m + 1}] \in S /\ m + 1 \in 1 .. n
                    BY <2>2, <4>1
                <5>2. step[<<m + 1, f[s \ {m + 1}]>>] \in S
                    BY <5>1 DEF Turns
                <5>3. QED
                    BY <4>1, <5>2
            <4>2. CASE m + 1 \notin s
                BY <2>2, <4>2
            <4>3. QED
                BY <4>1, <4>2
        <3>2. QED
            BY <3>1
    <2>4. ASSUME NEW s \in SUBSET (1 .. m + 1) PROVE Fits(g, s)
        <3>1. CASE m + 1 \in s
            <4>1. s \ {m + 1} \in SUBSET (1 .. m) /\ Max(s) = m + 1 /\ s # {}
                BY <2>2, <3>1
            <4>2. g[s \ {m + 1}] = f[s \ {m + 1}]
                OBVIOUS
            <4>3. g[s] = step[<<m + 1, f[s \ {m + 1}]>>]
                BY <3>1
            <4> HIDE DEF g
            <4>4. QED
                BY <4>1, <4>2, <4>3
        <3>2. CASE m + 1 \notin s
            <4>1. s \in SUBSET (1 .. m) /\ Fits(f, s)
                BY <2>1, <2>2, <3>2
            <4>2. g[s] = f[s] /\ g[s \ {Max(s)}] = f[s \ {Max(s)}]
                BY <3>2
            <4> HIDE DEF g
            <4>3. QED
                BY <4>1, <4>2
        <3>3. QED
            BY <3>1, <3>2
    <2> HIDE DEF g, Fits
    <2>5. QED
        BY <2>3, <2>4
<1> HIDE DEF Fits, Found
<1>3. \A m \in 0 .. n : m \in P
    <2> HIDE DEF P
    <2>1. QED  BY <1>1, <1>2, UpTo
<1>4. n \in P
    <2> HIDE DEF P
    <2>1. QED  BY <1>3
<1>5. Found(n)
    BY <1>4
<1>6. QED
    BY <1>5 DEF Found, Fits, Unfolds

\* As much of this as can be seen of a function whose values are not known to be in S.
Unwinds(g, n, S, base, step) ==
    /\ g[{}] = base
    /\ \A s \in SUBSET (1 .. n) : s # {} /\ g[s \ {Max(s)}] \in S =>
           g[s] = step[<<Max(s), g[s \ {Max(s)}]>>]

\* The values a fold goes through.
Traces(a, n, base, step) == a[0] = base /\ \A i \in 1 .. n : a[i] = step[<<i, a[i - 1]>>]

\* What the sets of the first positions are folded to, one after another.
LEMMA TraceOf ==
    ASSUME NEW n \in Nat, NEW S, NEW base \in S, NEW step \in Turns(n, S), NEW g,
           Unwinds(g, n, S, base, step)
    PROVE  \E a \in [0 .. n -> S] : Traces(a, n, base, step) /\ g[1 .. n] = a[n]
<1> DEFINE P == {i \in Nat : i <= n => g[1 .. i] \in S}
           a == [i \in 0 .. n |-> g[1 .. i]]
<1>1. 1 .. 0 = {} /\ g[1 .. 0] = base
    BY DEF Unwinds
<1>2. ASSUME NEW i \in 1 .. n, g[1 .. i - 1] \in S
      PROVE  g[1 .. i] = step[<<i, g[1 .. i - 1]>>] /\ step[<<i, g[1 .. i - 1]>>] \in S
    <2>1. Max(1 .. i) = i /\ (1 .. i) \ {i} = 1 .. i - 1
        BY GreatestOfThese
    <2> DEFINE s == 1 .. i
    <2>2. s \in SUBSET (1 .. n) /\ s # {}
        OBVIOUS
    <2>3. Max(s) = i /\ s \ {Max(s)} = 1 .. i - 1
        BY <2>1
    <2> HIDE DEF s
    <2>4. g[s] = step[<<i, g[1 .. i - 1]>>]
        BY <1>2, <2>2, <2>3 DEF Unwinds
    <2>5. QED
        BY <1>2, <2>4 DEF s, Turns
<1>3. 0 \in P
    BY <1>1
<1>4. ASSUME NEW i \in 0 .. n - 1, i \in P PROVE i + 1 \in P
    <2>1. i + 1 \in 1 .. n /\ (i + 1) - 1 = i /\ i <= n
        OBVIOUS
    <2>2. g[1 .. i] \in S
        BY <1>4, <2>1
    <2>3. g[1 .. i + 1] \in S
        BY <1>2, <2>1, <2>2
    <2>4. QED
        BY <2>1, <2>3
<1>5. \A i \in 0 .. n : i \in P
    <2> HIDE DEF P
    <2>1. QED  BY <1>3, <1>4, UpTo
<1>6. \A i \in 0 .. n : g[1 .. i] \in S
    BY <1>5
<1>7. a \in [0 .. n -> S] /\ a[0] = base /\ g[1 .. n] = a[n]
    BY <1>1, <1>6
<1>8. ASSUME NEW i \in 1 .. n PROVE a[i] = step[<<i, a[i - 1]>>]
    <2>1. i - 1 \in 0 .. n /\ i \in 0 .. n
        OBVIOUS
    <2>2. a[i] = g[1 .. i] /\ a[i - 1] = g[1 .. i - 1] /\ g[1 .. i - 1] \in S
        BY <1>6, <2>1
    <2> HIDE DEF a
    <2>3. QED
        BY <1>2, <2>2
<1> HIDE DEF a
<1>9. QED
    BY <1>7, <1>8 DEF Traces

\* Among takes a sequence one element at a time.
Picks(a, seq, set) ==
    /\ a[0] = <<>>
    /\ \A i \in 1 .. Len(seq) :
          a[i] = IF seq[i] \in set THEN Append(a[i - 1], seq[i]) ELSE a[i - 1]
    /\ Among(seq, set) = a[Len(seq)]

LEMMA AmongTrace ==
    ASSUME NEW E, NEW seq \in Seq(E), NEW set
    PROVE  \E a \in [0 .. Len(seq) -> Seq(E)] : Picks(a, seq, set)
<1> DEFINE n == Len(seq)
           S == Seq(E)
           base == <<>>
           Op(x, e) == IF e \in set THEN Append(x, e) ELSE x
           step == [p \in (1 .. n) \X S |-> Op(p[2], seq[p[1]])]
           body(h) == [s \in SUBSET (1 .. n) |->
                          IF s = {} THEN base ELSE Op(h[s \ {Max(s)}], seq[Max(s)])]
           g == CHOOSE h : h = body(h)
<1>1. n \in Nat /\ DOMAIN seq = 1 .. n /\ \A i \in 1 .. n : seq[i] \in E
    BY LenProperties, ElementOfSeq
<1>2. Among(seq, set) = g[1 .. n]
    BY <1>1, Zenon DEF Among, FoldLeft, MapThenFoldSet
<1>3. base \in S /\ \A x \in S, e \in E : Op(x, e) \in S
    OBVIOUS
<1> HIDE DEF S, Op, n, base
<1>4. /\ step \in Turns(n, S)
      /\ \A i \in 1 .. n, x \in S : step[<<i, x>>] = Op(x, seq[i])
    BY <1>1, <1>3 DEF Turns
<1> HIDE DEF step
<1>5. PICK f \in [SUBSET (1 .. n) -> S] : Unfolds(f, n, base, step)
    BY <1>1, <1>3, <1>4, IterExists
<1>6. \A s \in SUBSET (1 .. n) : s # {} => Max(s) \in 1 .. n /\ s \ {Max(s)} \in SUBSET (1 .. n)
    BY <1>1, LastExists
<1>7. f = body(f)
    <2>1. ASSUME NEW s \in SUBSET (1 .. n) PROVE f[s] = body(f)[s]
        BY <1>4, <1>5, <1>6 DEF Unfolds
    <2> HIDE DEF body
    <2>2. DOMAIN body(f) = SUBSET (1 .. n) /\ body(f) = [s \in SUBSET (1 .. n) |-> body(f)[s]]
        BY DEF body
    <2>3. QED
        BY <2>1, <2>2
<1>8. g = body(g)
    <2> HIDE DEF body
    <2>1. QED  BY <1>7
<1>9. Unwinds(g, n, S, base, step)
    <2> HIDE DEF g
    <2>1. \A s \in SUBSET (1 .. n) :
              g[s] = IF s = {} THEN base ELSE Op(g[s \ {Max(s)}], seq[Max(s)])
        BY <1>8
    <2>2. QED
        BY <1>4, <1>6, <2>1 DEF Unwinds
<1> HIDE DEF g, body
<1>10. PICK a \in [0 .. n -> S] : Traces(a, n, base, step) /\ g[1 .. n] = a[n]
    BY <1>1, <1>3, <1>4, <1>9, TraceOf
<1>11. a[0] = base /\ \A i \in 1 .. n : a[i] = Op(a[i - 1], seq[i])
    <2>1. \A i \in 1 .. n : i - 1 \in 0 .. n
        BY <1>1
    <2>2. QED
        BY <1>4, <1>10, <2>1 DEF Traces
<1>12. QED
    BY <1>2, <1>10, <1>11 DEF n, S, Op, base, Picks

\* What the cleaner's fold keeps, it keeps for a whole text.
LEMMA CollapseKeeps ==
    ASSUME NEW E, NEW seq \in Seq(E), NEW Kept, <<>> \in Kept,
           \A x \in Kept, c \in E : Collapse(x, c) \in Kept
    PROVE  FoldLeft(Collapse, <<>>, seq) \in Kept
<1> DEFINE n == Len(seq)
           S == Kept
           base == <<>>
           Op(x, e) == Collapse(x, e)
           step == [p \in (1 .. n) \X S |-> Op(p[2], seq[p[1]])]
           body(h) == [s \in SUBSET (1 .. n) |->
                          IF s = {} THEN base ELSE Op(h[s \ {Max(s)}], seq[Max(s)])]
           g == CHOOSE h : h = body(h)
<1>1. n \in Nat /\ DOMAIN seq = 1 .. n /\ \A i \in 1 .. n : seq[i] \in E
    BY LenProperties, ElementOfSeq
<1>2. FoldLeft(Collapse, <<>>, seq) = g[1 .. n]
    BY <1>1, Zenon DEF FoldLeft, MapThenFoldSet
<1>3. base \in S /\ \A x \in S, e \in E : Op(x, e) \in S
    OBVIOUS
<1> HIDE DEF S, Op, n, base
<1>4. /\ step \in Turns(n, S)
      /\ \A i \in 1 .. n, x \in S : step[<<i, x>>] = Op(x, seq[i])
    BY <1>1, <1>3 DEF Turns
<1> HIDE DEF step
<1>5. PICK f \in [SUBSET (1 .. n) -> S] : Unfolds(f, n, base, step)
    BY <1>1, <1>3, <1>4, IterExists
<1>6. \A s \in SUBSET (1 .. n) : s # {} => Max(s) \in 1 .. n /\ s \ {Max(s)} \in SUBSET (1 .. n)
    BY <1>1, LastExists
<1>7. f = body(f)
    <2>1. ASSUME NEW s \in SUBSET (1 .. n) PROVE f[s] = body(f)[s]
        BY <1>4, <1>5, <1>6 DEF Unfolds
    <2> HIDE DEF body
    <2>2. DOMAIN body(f) = SUBSET (1 .. n) /\ body(f) = [s \in SUBSET (1 .. n) |-> body(f)[s]]
        BY DEF body
    <2>3. QED
        BY <2>1, <2>2
<1>8. g = body(g)
    <2> HIDE DEF body
    <2>1. QED  BY <1>7
<1>9. Unwinds(g, n, S, base, step)
    <2> HIDE DEF g
    <2>1. \A s \in SUBSET (1 .. n) :
              g[s] = IF s = {} THEN base ELSE Op(g[s \ {Max(s)}], seq[Max(s)])
        BY <1>8
    <2>2. QED
        BY <1>4, <1>6, <2>1 DEF Unwinds
<1> HIDE DEF g, body
<1>10. PICK a \in [0 .. n -> S] : Traces(a, n, base, step) /\ g[1 .. n] = a[n]
    BY <1>1, <1>3, <1>4, <1>9, TraceOf
<1>11. a[0] = base /\ \A i \in 1 .. n : a[i] = Op(a[i - 1], seq[i])
    <2>1. \A i \in 1 .. n : i - 1 \in 0 .. n
        BY <1>1
    <2>2. QED
        BY <1>4, <1>10, <2>1 DEF Traces
<1>12. QED
    BY <1>1, <1>2, <1>10 DEF S

\* A layout's results are listed one container at a time.
Turned(a, layout, most) ==
    /\ a[0] = <<>>
    /\ \A i \in 1 .. Len(layout) : a[i] = Listed(a[i - 1], layout[i], most)
    /\ LayoutUrls(layout, most) = a[Len(layout)]

LEMMA ListedTrace ==
    ASSUME NEW E, NEW layout \in Seq(E), NEW most, NEW U,
           \A node \in E : IsResult(node) => Unwrap(node) \in U
    PROVE  \E a \in [0 .. Len(layout) -> Seq(U)] : Turned(a, layout, most)
<1> DEFINE n == Len(layout)
           S == Seq(U)
           base == <<>>
           Op(x, e) == Listed(x, e, most)
           step == [p \in (1 .. n) \X S |-> Op(p[2], layout[p[1]])]
           body(h) == [s \in SUBSET (1 .. n) |->
                          IF s = {} THEN base ELSE Op(h[s \ {Max(s)}], layout[Max(s)])]
           g == CHOOSE h : h = body(h)
<1>1. n \in Nat /\ DOMAIN layout = 1 .. n /\ \A i \in 1 .. n : layout[i] \in E
    BY LenProperties, ElementOfSeq
<1>2. LayoutUrls(layout, most) = g[1 .. n]
    BY <1>1, Zenon DEF LayoutUrls, FoldLeft, MapThenFoldSet
<1>3. base \in S /\ \A x \in S, e \in E : Op(x, e) \in S
    BY DEF Listed
<1> HIDE DEF S, Op, n, base
<1>4. /\ step \in Turns(n, S)
      /\ \A i \in 1 .. n, x \in S : step[<<i, x>>] = Op(x, layout[i])
    BY <1>1, <1>3 DEF Turns
<1> HIDE DEF step
<1>5. PICK f \in [SUBSET (1 .. n) -> S] : Unfolds(f, n, base, step)
    BY <1>1, <1>3, <1>4, IterExists
<1>6. \A s \in SUBSET (1 .. n) : s # {} => Max(s) \in 1 .. n /\ s \ {Max(s)} \in SUBSET (1 .. n)
    BY <1>1, LastExists
<1>7. f = body(f)
    <2>1. ASSUME NEW s \in SUBSET (1 .. n) PROVE f[s] = body(f)[s]
        BY <1>4, <1>5, <1>6 DEF Unfolds
    <2> HIDE DEF body
    <2>2. DOMAIN body(f) = SUBSET (1 .. n) /\ body(f) = [s \in SUBSET (1 .. n) |-> body(f)[s]]
        BY DEF body
    <2>3. QED
        BY <2>1, <2>2
<1>8. g = body(g)
    <2> HIDE DEF body
    <2>1. QED  BY <1>7
<1>9. Unwinds(g, n, S, base, step)
    <2> HIDE DEF g
    <2>1. \A s \in SUBSET (1 .. n) :
              g[s] = IF s = {} THEN base ELSE Op(g[s \ {Max(s)}], layout[Max(s)])
        BY <1>8
    <2>2. QED
        BY <1>4, <1>6, <2>1 DEF Unwinds
<1> HIDE DEF g, body
<1>10. PICK a \in [0 .. n -> S] : Traces(a, n, base, step) /\ g[1 .. n] = a[n]
    BY <1>1, <1>3, <1>4, <1>9, TraceOf
<1>11. a[0] = base /\ \A i \in 1 .. n : a[i] = Op(a[i - 1], layout[i])
    <2>1. \A i \in 1 .. n : i - 1 \in 0 .. n
        BY <1>1
    <2>2. QED
        BY <1>4, <1>10, <2>1 DEF Traces
<1>12. QED
    BY <1>2, <1>10, <1>11 DEF n, S, Op, base, Turned

\* Texts that may be joined to others of their kind, and what that goes through.
Joinable(E, texts, between) ==
    /\ texts # <<>> /\ Head(texts) \in E /\ Tail(texts) \in Seq(E)
    /\ \A x, e \in E : x \o between \o e \in E

Joins(a, texts, between) ==
    /\ a[0] = Head(texts)
    /\ \A i \in 1 .. Len(Tail(texts)) : a[i] = a[i - 1] \o between \o Tail(texts)[i]
    /\ Joined(texts, between) = a[Len(Tail(texts))]

\* Texts are put to a first one, one after another.
LEMMA AppendedTrace ==
    ASSUME NEW E, NEW texts, NEW between, Joinable(E, texts, between)
    PROVE  \E a \in [0 .. Len(Tail(texts)) -> E] : Joins(a, texts, between)
<1>0. /\ texts # <<>> /\ Head(texts) \in E /\ Tail(texts) \in Seq(E)
      /\ \A x, e \in E : x \o between \o e \in E
    BY DEF Joinable
<1> DEFINE n == Len(Tail(texts))
           S == E
           base == Head(texts)
           Op(x, e) == x \o between \o e
           step == [p \in (1 .. n) \X S |-> Op(p[2], Tail(texts)[p[1]])]
           body(h) == [s \in SUBSET (1 .. n) |->
                          IF s = {} THEN base ELSE Op(h[s \ {Max(s)}], Tail(texts)[Max(s)])]
           g == CHOOSE h : h = body(h)
<1>1. n \in Nat /\ DOMAIN Tail(texts) = 1 .. n /\ \A i \in 1 .. n : Tail(texts)[i] \in E
    BY <1>0, LenProperties, ElementOfSeq
<1>2. Joined(texts, between) = g[1 .. n]
    BY <1>0, <1>1, Zenon DEF Joined, FoldLeft, MapThenFoldSet
<1>3. base \in S /\ \A x \in S, e \in E : Op(x, e) \in S
    BY <1>0
<1> HIDE DEF S, Op, n, base
<1>4. /\ step \in Turns(n, S)
      /\ \A i \in 1 .. n, x \in S : step[<<i, x>>] = Op(x, Tail(texts)[i])
    BY <1>1, <1>3 DEF Turns
<1> HIDE DEF step
<1>5. PICK f \in [SUBSET (1 .. n) -> S] : Unfolds(f, n, base, step)
    BY <1>1, <1>3, <1>4, IterExists
<1>6. \A s \in SUBSET (1 .. n) : s # {} => Max(s) \in 1 .. n /\ s \ {Max(s)} \in SUBSET (1 .. n)
    BY <1>1, LastExists
<1>7. f = body(f)
    <2>1. ASSUME NEW s \in SUBSET (1 .. n) PROVE f[s] = body(f)[s]
        BY <1>4, <1>5, <1>6 DEF Unfolds
    <2> HIDE DEF body
    <2>2. DOMAIN body(f) = SUBSET (1 .. n) /\ body(f) = [s \in SUBSET (1 .. n) |-> body(f)[s]]
        BY DEF body
    <2>3. QED
        BY <2>1, <2>2
<1>8. g = body(g)
    <2> HIDE DEF body
    <2>1. QED  BY <1>7
<1>9. Unwinds(g, n, S, base, step)
    <2> HIDE DEF g
    <2>1. \A s \in SUBSET (1 .. n) :
              g[s] = IF s = {} THEN base ELSE Op(g[s \ {Max(s)}], Tail(texts)[Max(s)])
        BY <1>8
    <2>2. QED
        BY <1>4, <1>6, <2>1 DEF Unwinds
<1> HIDE DEF g, body
<1>10. PICK a \in [0 .. n -> S] : Traces(a, n, base, step) /\ g[1 .. n] = a[n]
    BY <1>1, <1>3, <1>4, <1>9, TraceOf
<1>11. a[0] = base /\ \A i \in 1 .. n : a[i] = Op(a[i - 1], Tail(texts)[i])
    <2>1. \A i \in 1 .. n : i - 1 \in 0 .. n
        BY <1>1
    <2>2. QED
        BY <1>4, <1>10, <2>1 DEF Traces
<1>12. QED
    BY <1>2, <1>10, <1>11 DEF n, S, Op, base, Joins

\* Texts are joined one after another.
Builds(a, texts, between) ==
    /\ a[1] = texts[1]
    /\ \A i \in 2 .. Len(texts) : a[i] = a[i - 1] \o between \o texts[i]
    /\ Joined(texts, between) = a[Len(texts)]

LEMMA JoinedTrace ==
    ASSUME NEW D, NEW texts \in Seq(Seq(D)), texts # <<>>, NEW between \in Seq(D)
    PROVE  \E a \in [1 .. Len(texts) -> Seq(D)] : Builds(a, texts, between)
<1> DEFINE E == Seq(D)
           rest == Tail(texts)
<1>a. /\ texts[1] \in E /\ Head(texts) = texts[1] /\ rest \in Seq(E)
      /\ Len(texts) \in Nat \ {0} /\ Len(rest) = Len(texts) - 1
      /\ \A i \in 1 .. Len(rest) : rest[i] = texts[i + 1]
    BY HeadTailProperties, LenProperties, EmptySeq, ElementOfSeq
<1>c. \A x \in E, e \in E : x \o between \o e \in E
    BY ConcatProperties
<1> HIDE DEF rest, E
<1>1. PICK a \in [0 .. Len(rest) -> E] :
          /\ a[0] = texts[1]
          /\ \A i \in 1 .. Len(rest) : a[i] = a[i - 1] \o between \o rest[i]
          /\ Joined(texts, between) = a[Len(rest)]
    <2>1. Joinable(E, texts, between)
        BY <1>a, <1>c DEF Joinable, rest
    <2>2. \E a \in [0 .. Len(Tail(texts)) -> E] : Joins(a, texts, between)
        BY <2>1, AppendedTrace
    <2>3. QED
        BY <1>a, <2>2 DEF rest, Joins
<1> DEFINE b == [i \in 1 .. Len(texts) |-> a[i - 1]]
<1>2. b \in [1 .. Len(texts) -> E] /\ b[1] = texts[1] /\ b[Len(texts)] = a[Len(rest)]
    BY <1>a, <1>1
<1>3. ASSUME NEW i \in 2 .. Len(texts) PROVE b[i] = b[i - 1] \o between \o texts[i]
    <2>1. i \in 1 .. Len(texts) /\ i - 1 \in 1 .. Len(texts) /\ i - 1 \in 1 .. Len(rest)
        BY <1>a
    <2>2. b[i] = a[i - 1] /\ b[i - 1] = a[(i - 1) - 1]
        BY <2>1
    <2>3. a[i - 1] = a[(i - 1) - 1] \o between \o rest[i - 1]
        BY <1>1, <2>1
    <2>4. rest[i - 1] = texts[i]
        <3>1. (i - 1) + 1 = i
            BY <2>1
        <3>2. QED
            BY <1>a, <2>1, <3>1
    <2> HIDE DEF b
    <2>5. QED
        BY <2>2, <2>3, <2>4
<1> HIDE DEF b
<1>4. QED
    BY <1>1, <1>2, <1>3 DEF E, Builds

-------------------------------------------------------------------------------
\* A beginning of a text: how long it is and what it holds.
LEMMA Beginning ==
    ASSUME NEW S, NEW text \in Seq(S), NEW n \in 0 .. Len(text)
    PROVE  /\ SubSeq(text, 1, n) \in Seq(S)
           /\ Len(SubSeq(text, 1, n)) = n
           /\ \A i \in 1 .. n : SubSeq(text, 1, n)[i] = text[i]
<1>1. Len(text) \in Nat /\ \A i \in 1 .. n : text[i] \in S
    BY LenProperties, ElementOfSeq
<1>2. 1 \in Int /\ n \in Int
    BY <1>1
<1>3. QED
    BY <1>1, <1>2, SubSeqProperties

\* A beginning of a beginning is one of the text.
LEMMA BeginningOfBeginning ==
    ASSUME NEW S, NEW text \in Seq(S), NEW n \in 0 .. Len(text), NEW m \in 0 .. n
    PROVE  SubSeq(SubSeq(text, 1, n), 1, m) = SubSeq(text, 1, m)
<1> DEFINE longer == SubSeq(text, 1, n)
           shorter == SubSeq(text, 1, m)
           again == SubSeq(longer, 1, m)
<1>1. Len(text) \in Nat /\ m \in 0 .. Len(text)
    BY LenProperties
<1>2. longer \in Seq(S) /\ Len(longer) = n /\ \A i \in 1 .. n : longer[i] = text[i]
    BY Beginning
<1>3. shorter \in Seq(S) /\ Len(shorter) = m /\ \A i \in 1 .. m : shorter[i] = text[i]
    BY <1>1, Beginning
<1>4. again \in Seq(S) /\ Len(again) = m /\ \A i \in 1 .. m : again[i] = longer[i]
    <2> HIDE DEF longer
    <2>1. QED  BY <1>2, Beginning
<1> HIDE DEF longer, shorter, again
<1>5. \A i \in 1 .. Len(again) : again[i] = shorter[i]
    BY <1>2, <1>3, <1>4
<1>6. again = shorter
    BY <1>3, <1>4, <1>5, SeqEqual
<1>7. QED
    BY <1>6 DEF longer, shorter, again

\* What rstrip leaves is a beginning that ends with no whitespace, and all that followed
\* was whitespace.
LEMMA RStrippedIs ==
    ASSUME NEW S, NEW text \in Seq(S)
    PROVE  \E n \in 0 .. Len(text) :
               /\ RStripped(text) = SubSeq(text, 1, n)
               /\ \A i \in n + 1 .. Len(text) : White(text[i])
               /\ n > 0 => ~ White(text[n])
<1> DEFINE I == {i \in 1 .. Len(text) : ~ White(text[i])}
           n == IF I # {} THEN Max(I) ELSE 0
<1>1. RStripped(text) = SubSeq(text, 1, n)
    BY DEF RStripped, SelectLastInSeq
<1>2. Len(text) \in Nat
    BY LenProperties
<1>3. I \in SUBSET (1 .. Len(text))
    OBVIOUS
<1>4. I # {} => n \in I /\ \A i \in I : i <= n
    <2> HIDE DEF I
    <2>1. QED  BY <1>2, <1>3, LastExists
<1>5. n \in 0 .. Len(text)
    BY <1>2, <1>3, <1>4
<1>6. ASSUME NEW i \in n + 1 .. Len(text) PROVE White(text[i])
    <2>1. i \in 1 .. Len(text) /\ i > n
        BY <1>2, <1>5
    <2>2. i \notin I
        BY <1>4, <1>5, <2>1
    <2>3. QED
        BY <2>1, <2>2
<1>7. ASSUME n > 0 PROVE ~ White(text[n])
    <2>1. I # {}
        BY <1>7
    <2>2. QED
        BY <1>4, <2>1
<1> HIDE DEF n
<1>8. QED
    BY <1>1, <1>5, <1>6, <1>7

\* Where a text is cut that is too long: at a boundary, the last of the window, that keeps
\* enough, or else at the limit.
LEMMA CutAt ==
    ASSUME NEW S, NEW text \in Seq(S), NEW limit \in Nat \ {0}, limit < Len(text)
    PROVE  \E at \in 0 .. limit :
               /\ Truncate(text, limit) = [text |-> RStripped(SubSeq(text, 1, at)),
                                           truncated |-> TRUE]
               /\ at >= (4 * limit) \div 5
               /\ \/ at < limit /\ text[at + 1].kind \in {"space", "newline"}
                  \/ /\ at = limit
                     /\ \A i \in 1 .. limit :
                           text[i].kind \in {"space", "newline"} => i - 1 < (4 * limit) \div 5
<1> DEFINE window == SubSeq(text, 1, limit)
           I == {i \in 1 .. Len(window) : window[i].kind \in {"space", "newline"}}
           last == IF I # {} THEN Max(I) ELSE 0
           boundary == last - 1
<1>1. Len(text) \in Nat /\ limit \in 0 .. Len(text)
    BY LenProperties
<1>2. window \in Seq(S) /\ Len(window) = limit /\ \A i \in 1 .. limit : window[i] = text[i]
    BY <1>1, Beginning
<1>3. /\ I \in SUBSET (1 .. limit)
      /\ \A i \in I : text[i].kind \in {"space", "newline"}
      /\ \A i \in 1 .. limit : text[i].kind \in {"space", "newline"} => i \in I
    BY <1>2
<1>4. Truncate(text, limit) =
          [text |-> RStripped(IF KeepsEnough(boundary, limit)
                              THEN SubSeq(window, 1, boundary) ELSE window),
           truncated |-> TRUE]
    <2>1. ~ (limit <= 0) /\ ~ (Len(text) <= limit)
        BY <1>1
    <2>2. last = SelectLastInSeq(window, LAMBDA c : c.kind \in {"space", "newline"})
        BY DEF SelectLastInSeq
    <2>3. QED
        BY <2>1, <2>2 DEF Truncate
<1> HIDE DEF I
<1>5. I # {} => Max(I) \in I /\ \A i \in I : i <= Max(I)
    BY <1>3, LastExists
<1>6. /\ I = {} => last = 0
      /\ last # 0 => last \in I
      /\ \A i \in I : i <= last
    BY <1>5
<1> HIDE DEF last
<1>7. last \in 0 .. limit
    <2>1. CASE last = 0
        BY <2>1
    <2>2. CASE last # 0
        <3>1. last \in 1 .. limit
            BY <1>3, <1>6, <2>2
        <3>2. QED
            BY <3>1
    <2>3. QED
        BY <2>1, <2>2
<1>8. /\ (4 * limit) \div 5 \in 0 .. limit
      /\ KeepsEnough(boundary, limit) <=> boundary >= (4 * limit) \div 5
    BY DEF KeepsEnough
<1>9. CASE KeepsEnough(boundary, limit)
    <2>1. boundary \in 0 .. limit - 1 /\ last \in I /\ boundary >= (4 * limit) \div 5
        BY <1>6, <1>7, <1>8, <1>9
    <2>2. boundary + 1 = last /\ text[last].kind \in {"space", "newline"}
        <3>1. text[last].kind \in {"space", "newline"}
            BY <1>3, <2>1
        <3>2. QED
            BY <1>7, <3>1
    <2>3. boundary \in 0 .. limit
        BY <2>1
    <2>4. SubSeq(window, 1, boundary) = SubSeq(text, 1, boundary)
        BY <1>1, <2>3, BeginningOfBeginning
    <2>5. text[boundary + 1].kind \in {"space", "newline"} /\ boundary < limit
        <3>1. boundary < limit
            BY <2>1
        <3> HIDE DEF boundary
        <3>2. QED
            BY <2>2, <3>1
    <2>6. Truncate(text, limit) = [text |-> RStripped(SubSeq(text, 1, boundary)),
                                   truncated |-> TRUE]
        <3> HIDE DEF boundary, window
        <3>1. QED  BY <1>4, <1>9, <2>4
    <2> HIDE DEF boundary, window
    <2>7. QED
        BY <2>1, <2>3, <2>5, <2>6
<1>10. CASE ~ KeepsEnough(boundary, limit)
    <2>1. ASSUME NEW i \in 1 .. limit, text[i].kind \in {"space", "newline"}
          PROVE  i - 1 < (4 * limit) \div 5
        <3>1. i <= last
            BY <1>3, <1>6, <2>1
        <3>2. QED
            BY <1>7, <1>8, <1>10, <3>1
    <2>2. limit \in 0 .. limit /\ limit >= (4 * limit) \div 5
        BY <1>8
    <2>3. Truncate(text, limit) = [text |-> RStripped(SubSeq(text, 1, limit)), truncated |-> TRUE]
        <3> HIDE DEF boundary
        <3>1. QED  BY <1>4, <1>10
    <2> HIDE DEF boundary, window
    <2>4. QED
        BY <2>1, <2>2, <2>3
<1>11. QED
    BY <1>9, <1>10

\* However a text is cut, what is submitted is a beginning of it, never longer than the
\* limit, and said to be cut whenever something is missing (truncate.py: "Zero or
\* negative keeps none").
THEOREM TruncateKeepsABeginning ==
    ASSUME NEW S, NEW text \in Seq(S), NEW limit \in Int
    PROVE  LET cut == Truncate(text, limit)
           IN  /\ \E n \in 0 .. Len(text) : cut.text = SubSeq(text, 1, n) /\ (n > 0 => n <= limit)
               /\ ~ cut.truncated => cut.text = text
               /\ cut.truncated /\ limit > 0 => Len(text) > limit
<1> DEFINE cut == Truncate(text, limit)
<1>1. Len(text) \in Nat
    BY LenProperties
<1>2. CASE limit <= 0
    <2>1. cut = [text |-> <<>>, truncated |-> TRUE]
        BY <1>2 DEF Truncate
    <2>2. SubSeq(text, 1, 0) = <<>>
        BY SubSeqEmpty
    <2> HIDE DEF cut
    <2>3. cut.text = SubSeq(text, 1, 0) /\ cut.truncated = TRUE /\ 0 \in 0 .. Len(text)
        BY <1>1, <2>1, <2>2
    <2>4. QED
        BY <1>2, <2>3 DEF cut
<1>3. CASE limit > 0 /\ Len(text) <= limit
    <2>1. cut = [text |-> text, truncated |-> FALSE]
        BY <1>3 DEF Truncate
    <2>2. SubSeq(text, 1, Len(text)) = text
        BY SubSeqFull
    <2> HIDE DEF cut
    <2>3. cut.text = text /\ cut.truncated = FALSE /\ Len(text) \in 0 .. Len(text)
        BY <1>1, <2>1
    <2>4. QED
        BY <1>3, <2>2, <2>3 DEF cut
<1>4. CASE limit > 0 /\ limit < Len(text)
    <2>1. limit \in Nat \ {0}
        BY <1>4
    <2>2. PICK at \in 0 .. limit :
              cut = [text |-> RStripped(SubSeq(text, 1, at)), truncated |-> TRUE]
        BY <1>4, <2>1, CutAt
    <2>3. at \in 0 .. Len(text)
        BY <1>1, <1>4
    <2>4. SubSeq(text, 1, at) \in Seq(S) /\ Len(SubSeq(text, 1, at)) = at
        BY <2>3, Beginning
    <2>5. PICK n \in 0 .. at : RStripped(SubSeq(text, 1, at)) = SubSeq(SubSeq(text, 1, at), 1, n)
        BY <2>4, RStrippedIs
    <2>6. SubSeq(SubSeq(text, 1, at), 1, n) = SubSeq(text, 1, n)
        BY <2>3, BeginningOfBeginning
    <2> HIDE DEF cut
    <2>7. cut.text = SubSeq(text, 1, n) /\ cut.truncated = TRUE
        BY <2>2, <2>5, <2>6
    <2>8. n \in 0 .. Len(text) /\ n <= limit
        BY <1>1, <2>3
    <2>9. QED
        BY <1>4, <2>7, <2>8 DEF cut
<1>5. QED
    BY <1>1, <1>2, <1>3, <1>4

\* Of a text as the cleaner and the headings leave it, without tabs and with no more than three
\* characters of whitespace in a row, a cut keeps all but two characters of four fifths
\* of the limit (truncate.py: "Only honour the boundary if it does not throw away most
\* of the budget").
THEOREM TruncateLosesLittle ==
    ASSUME NEW S, NEW text \in Seq(S), NEW limit \in Nat \ {0}, limit < Len(text),
           \A i \in 1 .. Len(text) : text[i].kind # "tab",
           \A i \in 1 .. Len(text) - 3 : \E k \in i .. i + 3 : ~ White(text[k])
    PROVE  Len(Truncate(text, limit).text) >= (4 * limit) \div 5 - 2
<1> DEFINE share == (4 * limit) \div 5
<1>1. /\ Len(text) \in Nat
      /\ share \in 0 .. limit /\ (share = limit => limit = 0)
    BY LenProperties
<1>2. PICK at \in 0 .. limit :
          /\ Truncate(text, limit) = [text |-> RStripped(SubSeq(text, 1, at)), truncated |-> TRUE]
          /\ at >= share
          /\ \/ at < limit /\ text[at + 1].kind \in {"space", "newline"}
             \/ /\ at = limit
                /\ \A i \in 1 .. limit :
                      text[i].kind \in {"space", "newline"} => i - 1 < share
    BY CutAt
<1> HIDE DEF share
<1>3. at \in 0 .. Len(text)
    BY <1>1
<1> DEFINE kept == SubSeq(text, 1, at)
<1>4. kept \in Seq(S) /\ Len(kept) = at /\ \A i \in 1 .. at : kept[i] = text[i]
    BY <1>3, Beginning
<1>5. Truncate(text, limit).text = RStripped(kept)
    BY <1>2
<1> HIDE DEF kept
<1>6. PICK n \in 0 .. at : /\ RStripped(kept) = SubSeq(kept, 1, n)
                           /\ \A i \in n + 1 .. at : White(kept[i])
    BY <1>4, RStrippedIs
<1>7. Len(Truncate(text, limit).text) = n
    BY <1>4, <1>5, <1>6, Beginning
<1>8. \A i \in n + 1 .. at : White(text[i])
    BY <1>3, <1>4, <1>6
<1>9. \A i \in 1 .. Len(text) : White(text[i]) <=> text[i].kind \in {"space", "newline"}
    BY DEF White, Blank
<1>10. CASE at < limit /\ text[at + 1].kind \in {"space", "newline"}
    <2>1. \A i \in n + 1 .. at + 1 : White(text[i])
        BY <1>1, <1>8, <1>9, <1>10
    <2>2. SUFFICES ASSUME n < at - 2 PROVE FALSE
        BY <1>1, <1>2, <1>7 DEF share
    <2>3. at - 2 \in 1 .. Len(text) - 3
        BY <1>1, <1>10, <2>2
    <2>4. (at - 2) + 3 = at + 1
        BY <1>1
    <2>5. PICK k \in at - 2 .. at + 1 : ~ White(text[k])
        BY <2>3, <2>4
    <2>6. QED
        BY <1>1, <2>1, <2>2, <2>5
<1>11. CASE /\ at = limit
            /\ \A i \in 1 .. limit : text[i].kind \in {"space", "newline"} => i - 1 < share
    <2>1. n >= share
        <3>1. SUFFICES ASSUME n < share PROVE FALSE
            BY <1>1
        <3>2. limit \in n + 1 .. at /\ limit \in 1 .. Len(text)
            BY <1>1, <1>11, <3>1
        <3>3. text[limit].kind \in {"space", "newline"}
            BY <1>8, <1>9, <3>2
        <3>4. limit - 1 < share
            BY <1>11, <3>3
        <3>5. QED
            BY <1>1, <3>4
    <2>2. QED
        BY <1>1, <1>7, <2>1 DEF share
<1>12. QED
    BY <1>2, <1>10, <1>11

-------------------------------------------------------------------------------
\* A text as collapse_whitespace leaves it: without tabs, with plain newlines, no space
\* before other whitespace and no three newlines in a row.
Tidy(text) ==
    /\ \A i \in 1 .. Len(text) :
          text[i].kind # "tab" /\ (text[i].kind = "newline" => text[i] = Newline)
    /\ \A i \in 1 .. Len(text) - 1 : text[i].kind = "space" => ~ White(text[i + 1])
    /\ \A i \in 1 .. Len(text) - 2 : \E k \in i .. i + 2 : text[k].kind # "newline"

\* A part of a text, from one position to another.
LEMMA PartOf ==
    ASSUME NEW S, NEW text \in Seq(S), NEW m \in Nat \ {0}, NEW n \in m - 1 .. Len(text)
    PROVE  /\ SubSeq(text, m, n) \in Seq(S)
           /\ Len(SubSeq(text, m, n)) = n - m + 1
           /\ \A i \in 1 .. n - m + 1 : SubSeq(text, m, n)[i] = text[m + i - 1]
<1>1. Len(text) \in Nat /\ \A i \in 1 .. Len(text) : text[i] \in S
    BY LenProperties, ElementOfSeq
<1>2. m \in Int /\ n \in Int /\ n - m + 1 >= 0
    BY <1>1
<1>3. \A i \in m .. n : text[i] \in S
    BY <1>1
<1>4. QED
    BY <1>2, <1>3, SubSeqProperties

\* A part of a tidy text is tidy.
LEMMA PartTidy ==
    ASSUME NEW S, NEW text \in Seq(S), Tidy(text),
           NEW m \in Nat \ {0}, NEW n \in m - 1 .. Len(text)
    PROVE  Tidy(SubSeq(text, m, n))
<1> DEFINE part == SubSeq(text, m, n)
           size == n - m + 1
<1>1. Len(text) \in Nat /\ size \in Nat /\ Len(part) = size
    BY LenProperties, PartOf
<1>2. \A i \in 1 .. size : m + i - 1 \in 1 .. Len(text) /\ part[i] = text[m + i - 1]
    BY <1>1, PartOf
<1> HIDE DEF part
<1>3. ASSUME NEW i \in 1 .. size
      PROVE  part[i].kind # "tab" /\ (part[i].kind = "newline" => part[i] = Newline)
    BY <1>2 DEF Tidy
<1>4. ASSUME NEW i \in 1 .. size - 1, part[i].kind = "space" PROVE ~ White(part[i + 1])
    <2>1. /\ i \in 1 .. size /\ i + 1 \in 1 .. size
          /\ m + i - 1 \in 1 .. Len(text) - 1 /\ m + (i + 1) - 1 = (m + i - 1) + 1
        BY <1>1
    <2>2. part[i] = text[m + i - 1] /\ part[i + 1] = text[(m + i - 1) + 1]
        <3>1. part[i + 1] = text[m + (i + 1) - 1]
            BY <1>2, <2>1
        <3>2. QED
            BY <1>2, <2>1, <3>1
    <2>3. QED
        BY <1>4, <2>1, <2>2 DEF Tidy
<1>5. ASSUME NEW i \in 1 .. size - 2 PROVE \E k \in i .. i + 2 : part[k].kind # "newline"
    <2>1. m + i - 1 \in 1 .. Len(text) - 2
        BY <1>1
    <2>2. PICK k \in m + i - 1 .. (m + i - 1) + 2 : text[k].kind # "newline"
        BY <2>1 DEF Tidy
    <2>3. /\ k - m + 1 \in 1 .. size /\ k - m + 1 \in i .. i + 2
          /\ m + (k - m + 1) - 1 = k
        BY <1>1, <2>2
    <2>4. part[k - m + 1] = text[k]
        BY <1>2, <2>3
    <2>5. QED
        BY <2>2, <2>3, <2>4
<1>6. QED
    BY <1>1, <1>3, <1>4, <1>5 DEF Tidy, part

\* A text stays tidy with a character that goes with what it ends with.
LEMMA AppendTidy ==
    ASSUME NEW S, NEW text \in Seq(S), Tidy(text), NEW c \in S,
           c.kind # "tab", c.kind = "newline" => c = Newline,
           White(c) /\ text # <<>> => text[Len(text)].kind # "space",
           c.kind = "newline" /\ Len(text) >= 2 =>
               text[Len(text)].kind # "newline" \/ text[Len(text) - 1].kind # "newline"
    PROVE  Append(text, c) \in Seq(S) /\ Tidy(Append(text, c))
<1> DEFINE longer == Append(text, c)
           n == Len(text)
<1>1. /\ n \in Nat /\ longer \in Seq(S) /\ Len(longer) = n + 1
      /\ \A i \in 1 .. n : longer[i] = text[i]
      /\ longer[n + 1] = c
      /\ n > 0 => text # <<>>
    BY LenProperties, AppendProperties, EmptySeq
<1> HIDE DEF longer, n
<1>2. ASSUME NEW i \in 1 .. n + 1
      PROVE  longer[i].kind # "tab" /\ (longer[i].kind = "newline" => longer[i] = Newline)
    <2>1. CASE i \in 1 .. n
        BY <1>1, <2>1 DEF Tidy, n
    <2>2. CASE i = n + 1
        BY <1>1, <2>2
    <2>3. QED
        BY <1>1, <2>1, <2>2
<1>3. ASSUME NEW i \in 1 .. n, longer[i].kind = "space" PROVE ~ White(longer[i + 1])
    <2>1. CASE i \in 1 .. n - 1
        <3>1. longer[i] = text[i] /\ longer[i + 1] = text[i + 1]
            BY <1>1, <2>1
        <3>2. QED
            BY <1>3, <2>1, <3>1 DEF Tidy, n
    <2>2. CASE i = n
        <3>1. text[n].kind = "space" /\ longer[i + 1] = c /\ text # <<>>
            BY <1>1, <1>3, <2>2
        <3>2. QED
            BY <3>1 DEF n
    <2>3. QED
        BY <1>1, <2>1, <2>2
<1>4. ASSUME NEW i \in 1 .. n - 1 PROVE \E k \in i .. i + 2 : longer[k].kind # "newline"
    <2>1. CASE i \in 1 .. n - 2
        <3>1. PICK k \in i .. i + 2 : text[k].kind # "newline"
            BY <2>1 DEF Tidy, n
        <3>2. k \in 1 .. n
            BY <1>1, <2>1
        <3>3. QED
            BY <1>1, <3>1, <3>2
    <2>2. CASE i = n - 1
        <3>1. /\ n \in i .. i + 2 /\ n - 1 \in i .. i + 2 /\ n + 1 \in i .. i + 2
              /\ longer[n] = text[n] /\ longer[n - 1] = text[n - 1] /\ n >= 2
            BY <1>1, <2>2
        <3>2. \/ c.kind # "newline"
              \/ text[n].kind # "newline" \/ text[n - 1].kind # "newline"
            BY <3>1 DEF n
        <3>3. QED
            BY <1>1, <3>1, <3>2
    <2>3. QED
        BY <1>1, <2>1, <2>2
<1>5. Tidy(longer)
    BY <1>1, <1>2, <1>3, <1>4 DEF Tidy
<1>6. QED
    BY <1>1, <1>5 DEF longer

\* A text read backwards.
LEMMA ReversedIs ==
    ASSUME NEW S, NEW text \in Seq(S)
    PROVE  /\ Reverse(text) \in Seq(S)
           /\ Len(Reverse(text)) = Len(text)
           /\ \A i \in 1 .. Len(text) : Reverse(text)[i] = text[Len(text) - i + 1]
<1> DEFINE n == Len(text)
           back == [i \in 1 .. n |-> text[(n - i) + 1]]
<1>1. n \in Nat /\ Reverse(text) = back
    BY LenProperties DEF Reverse
<1>2. \A i \in 1 .. n : n - i + 1 \in 1 .. n /\ back[i] = text[n - i + 1] /\ text[n - i + 1] \in S
    <2>1. \A i \in 1 .. n : n - i + 1 \in 1 .. n
        BY <1>1
    <2>2. QED
        BY <2>1, ElementOfSeq
<1>3. back \in [1 .. n -> S]
    BY <1>2
<1> HIDE DEF back, n
<1>4. back \in Seq(S) /\ Len(back) = n
    BY <1>1, <1>3, FunctionIsSeq
<1>5. QED
    BY <1>1, <1>2, <1>4 DEF n

\* A text with two newlines at its end is seen to end with them.
LEMMA EndsWithNewlines ==
    ASSUME NEW S, NEW text \in Seq(S), Newline \in S, Len(text) >= 2,
           text[Len(text)] = Newline, text[Len(text) - 1] = Newline
    PROVE  IsSuffix(<<Newline, Newline>>, text)
<1> DEFINE end == <<Newline, Newline>>
           there == Reverse(end)
           back == Reverse(text)
           first == SubSeq(there, 1, 2)
           second == SubSeq(back, 1, 2)
<1>1. end \in Seq(S) /\ Len(end) = 2 /\ end[1] = Newline /\ end[2] = Newline
    OBVIOUS
<1> HIDE DEF end
<1>2. there \in Seq(S) /\ Len(there) = 2 /\ there[1] = Newline /\ there[2] = Newline
    <2>1. \A i \in 1 .. 2 : there[i] = end[2 - i + 1]
        BY <1>1, ReversedIs
    <2>2. there \in Seq(S) /\ Len(there) = 2
        BY <1>1, ReversedIs
    <2>3. QED
        BY <1>1, <2>1, <2>2
<1>3. /\ back \in Seq(S) /\ Len(back) = Len(text) /\ Len(text) \in Nat
      /\ back[1] = Newline /\ back[2] = Newline
    <2>1. \A i \in 1 .. Len(text) : back[i] = text[Len(text) - i + 1]
        BY ReversedIs
    <2>2. back \in Seq(S) /\ Len(back) = Len(text) /\ Len(text) \in Nat
        BY ReversedIs, LenProperties
    <2>3. Len(text) - 1 + 1 = Len(text) /\ Len(text) - 2 + 1 = Len(text) - 1
        BY <2>2
    <2>4. QED
        BY <2>1, <2>2, <2>3
<1> HIDE DEF there, back
<1>4. first \in Seq(S) /\ Len(first) = 2 /\ first[1] = Newline /\ first[2] = Newline
    <2>1. 2 \in 0 .. Len(there)
        BY <1>2
    <2>2. QED
        BY <1>2, <2>1, Beginning
<1>5. second \in Seq(S) /\ Len(second) = 2 /\ second[1] = Newline /\ second[2] = Newline
    <2>1. 2 \in 0 .. Len(back)
        BY <1>3
    <2>2. QED
        BY <1>3, <2>1, Beginning
<1> HIDE DEF first, second
<1>6. first = second
    <2>1. \A i \in 1 .. Len(first) : first[i] = second[i]
        BY <1>4, <1>5
    <2>2. QED
        BY <1>4, <1>5, <2>1, SeqEqual
<1>7. IsPrefix(there, back)
    BY <1>2, <1>3, <1>6 DEF IsPrefix, first, second
<1>8. QED
    BY <1>7 DEF IsSuffix, there, back, end

\* One character more, and the text is as tidy as before.
LEMMA CollapseTidy ==
    ASSUME NEW S, Space \in S, Newline \in S, NEW text \in Seq(S), Tidy(text), NEW c \in S
    PROVE  Collapse(text, c) \in Seq(S) /\ Tidy(Collapse(text, c))
<1> DEFINE n == Len(text)
           endsBlank == text # <<>> /\ Blank(Last(text))
           bare == IF endsBlank THEN Front(text) ELSE text
<1>0. Space.kind = "space" /\ Newline.kind = "newline"
    BY DEF Space, Newline, Char
<1>1. n \in Nat /\ (text # <<>> => n >= 1) /\ (n >= 1 => text # <<>>)
    BY LenProperties, EmptySeq
<1>2. CASE Blank(c)
    <2>1. CASE endsBlank
        <3>1. Collapse(text, c) = text
            BY <1>2, <2>1 DEF Collapse, Blank
        <3>2. QED
            BY <3>1
    <2>2. CASE ~ endsBlank
        <3>1. Collapse(text, c) = Append(text, Space)
            BY <1>2, <2>2 DEF Collapse, Blank
        <3>2. text # <<>> => text[Len(text)].kind # "space"
            BY <2>2 DEF Blank, Last
        <3>3. Append(text, Space) \in Seq(S) /\ Tidy(Append(text, Space))
            BY <1>0, <3>2, AppendTidy
        <3>4. QED
            BY <3>1, <3>3
    <2>3. QED
        BY <2>1, <2>2
<1>3. CASE ~ Blank(c) /\ c.kind = "newline"
    <2>1. /\ bare \in Seq(S) /\ Tidy(bare)
          /\ bare # <<>> => bare[Len(bare)].kind # "space"
        <3>1. CASE endsBlank
            <4>1. bare = SubSeq(text, 1, n - 1) /\ n >= 1 /\ n - 1 \in 1 - 1 .. n
                BY <1>1, <3>1 DEF Front
            <4>2. /\ bare \in Seq(S) /\ Len(bare) = n - 1 /\ Tidy(bare)
                  /\ \A i \in 1 .. n - 1 : bare[i] = text[i]
                <5>1. /\ SubSeq(text, 1, n - 1) \in Seq(S)
                      /\ Len(SubSeq(text, 1, n - 1)) = n - 1
                      /\ \A i \in 1 .. n - 1 : SubSeq(text, 1, n - 1)[i] = text[i]
                    <6>1. n - 1 \in 0 .. Len(text)
                        BY <4>1
                    <6>2. QED
                        BY <6>1, Beginning
                <5>2. Tidy(SubSeq(text, 1, n - 1))
                    BY <4>1, PartTidy
                <5>3. QED
                    BY <4>1, <5>1, <5>2
            <4>3. text[n].kind = "space"
                BY <1>1, <3>1 DEF Blank, Last, Tidy
            <4> HIDE DEF bare
            <4>4. ASSUME bare # <<>> PROVE bare[Len(bare)].kind # "space"
                <5>1. n - 1 \in 1 .. n - 1 /\ (n - 1) + 1 = n
                    <6>1. Len(bare) \in Nat \ {0}
                        BY <4>2, <4>4, EmptySeq
                    <6>2. QED
                        BY <1>1, <4>2, <6>1
                <5>2. bare[n - 1] = text[n - 1] /\ White(text[(n - 1) + 1])
                    BY <4>2, <4>3, <5>1 DEF White, Blank
                <5>3. text[n - 1].kind # "space"
                    BY <5>1, <5>2 DEF Tidy, n
                <5>4. QED
                    BY <4>2, <5>2, <5>3
            <4>5. QED
                BY <4>2, <4>4
        <3>2. CASE ~ endsBlank
            <4>1. bare = text
                BY <3>2
            <4>2. text # <<>> => text[Len(text)].kind # "space"
                BY <3>2 DEF Blank, Last
            <4> HIDE DEF bare
            <4>3. QED
                BY <4>1, <4>2
        <3>3. QED
            BY <3>1, <3>2
    <2>2. Collapse(text, c) = IF IsSuffix(<<Newline, Newline>>, bare) THEN bare
                              ELSE Append(bare, Newline)
        BY <1>3 DEF Collapse
    <2> HIDE DEF bare
    <2>3. CASE IsSuffix(<<Newline, Newline>>, bare)
        BY <2>1, <2>2, <2>3
    <2>4. CASE ~ IsSuffix(<<Newline, Newline>>, bare)
        <3>1. Len(bare) \in Nat
            BY <2>1, LenProperties
        <3>2. ASSUME Len(bare) >= 2
              PROVE  bare[Len(bare)].kind # "newline" \/ bare[Len(bare) - 1].kind # "newline"
            <4>1. SUFFICES ASSUME bare[Len(bare)].kind = "newline",
                                  bare[Len(bare) - 1].kind = "newline"
                           PROVE  FALSE
                OBVIOUS
            <4>2. Len(bare) \in 1 .. Len(bare) /\ Len(bare) - 1 \in 1 .. Len(bare)
                BY <3>1, <3>2
            <4>3. bare[Len(bare)] = Newline /\ bare[Len(bare) - 1] = Newline
                BY <2>1, <4>1, <4>2 DEF Tidy
            <4>4. QED
                BY <2>1, <2>4, <3>2, <4>3, EndsWithNewlines
        <3>3. Append(bare, Newline) \in Seq(S) /\ Tidy(Append(bare, Newline))
            BY <1>0, <2>1, <3>2, AppendTidy
        <3>4. QED
            BY <2>2, <2>4, <3>3
    <2>5. QED
        BY <2>3, <2>4
<1>4. CASE ~ Blank(c) /\ c.kind # "newline"
    <2>1. Collapse(text, c) = Append(text, c)
        BY <1>4 DEF Collapse
    <2>2. ~ White(c) /\ c.kind # "tab"
        BY <1>4 DEF White, Blank
    <2>3. Append(text, c) \in Seq(S) /\ Tidy(Append(text, c))
        BY <1>4, <2>2, AppendTidy
    <2>4. QED
        BY <2>1, <2>3
<1>5. QED
    BY <1>2, <1>3, <1>4

\* No tidy text has four characters of whitespace in a row.
LEMMA FewWhites ==
    ASSUME NEW S, NEW text \in Seq(S), Tidy(text)
    PROVE  \A i \in 1 .. Len(text) - 3 : \E k \in i .. i + 3 : ~ White(text[k])
<1>1. Len(text) \in Nat
    BY LenProperties
<1>2. SUFFICES ASSUME NEW i \in 1 .. Len(text) - 3, \A k \in i .. i + 3 : White(text[k])
               PROVE  FALSE
    OBVIOUS
<1>3. PICK k \in i .. i + 2 : text[k].kind # "newline"
    BY <1>1, <1>2 DEF Tidy
<1>4. k \in 1 .. Len(text) - 1 /\ k \in i .. i + 3 /\ k + 1 \in i .. i + 3
    BY <1>1
<1>5. White(text[k]) /\ White(text[k + 1])
    BY <1>2, <1>4
<1>6. text[k].kind = "space"
    BY <1>1, <1>3, <1>4, <1>5 DEF White, Blank, Tidy
<1>7. QED
    BY <1>4, <1>5, <1>6 DEF Tidy

\* The least of a set of positions.
LEMMA LeastExists ==
    ASSUME NEW I \in SUBSET Nat, I # {}
    PROVE  Min(I) \in I /\ \A i \in I : Min(I) <= i
<1>1. \E m \in I : \A i \in I : m <= i
    BY FirstExists
<1>2. QED
    BY <1>1 DEF Min

\* What strip leaves is nothing, or a part that starts and ends with no whitespace.
LEMMA StrippedIs ==
    ASSUME NEW S, NEW text \in Seq(S)
    PROVE  \/ Stripped(text) = <<>>
           \/ \E m \in 1 .. Len(text) : \E n \in m .. Len(text) :
                 /\ Stripped(text) = SubSeq(text, m, n)
                 /\ ~ White(text[m]) /\ ~ White(text[n])
<1> DEFINE I == {i \in 1 .. Len(text) : ~ White(text[i])}
           m == IF I # {} THEN Min(I) ELSE 0
           rest == SubSeq(text, m, Len(text))
<1>1. Stripped(text) = IF m = 0 THEN <<>> ELSE RStripped(rest)
    BY DEF Stripped, SelectInSeq
<1>2. Len(text) \in Nat
    BY LenProperties
<1>3. CASE I = {}
    BY <1>1, <1>3
<1>4. CASE I # {}
    <2>1. I \in SUBSET Nat /\ m = Min(I)
        BY <1>4
    <2>2. Min(I) \in I
        <3> HIDE DEF I
        <3>1. QED  BY <1>4, <2>1, LeastExists
    <2>3. m \in 1 .. Len(text) /\ m # 0 /\ ~ White(text[m])
        BY <2>1, <2>2
    <2> HIDE DEF m, I
    <2>4. m \in Nat \ {0} /\ Len(text) \in m - 1 .. Len(text) /\ Len(text) - m + 1 \in Nat \ {0}
        BY <1>2, <2>3
    <2>5. /\ rest \in Seq(S) /\ Len(rest) = Len(text) - m + 1
          /\ \A i \in 1 .. Len(text) - m + 1 : rest[i] = text[m + i - 1]
        BY <2>4, PartOf
    <2>6. Stripped(text) = RStripped(rest)
        BY <1>1, <2>3
    <2> HIDE DEF rest
    <2>7. PICK k \in 0 .. Len(rest) : /\ RStripped(rest) = SubSeq(rest, 1, k)
                                      /\ \A i \in k + 1 .. Len(rest) : White(rest[i])
                                      /\ k > 0 => ~ White(rest[k])
        BY <2>5, RStrippedIs
    <2>8. rest[1] = text[m] /\ 1 \in 1 .. Len(rest)
        <3>1. 1 \in 1 .. Len(text) - m + 1 /\ m + 1 - 1 = m
            BY <2>4
        <3>2. QED
            BY <2>5, <3>1
    <2>9. k \in 1 .. Len(text) - m + 1
        <3>1. SUFFICES ASSUME k = 0 PROVE FALSE
            BY <2>5, <2>7
        <3>2. White(rest[1])
            BY <2>7, <2>8, <3>1
        <3>3. QED
            BY <2>3, <2>8, <3>2
    <2> DEFINE n == m + k - 1
    <2>10. n \in m .. Len(text) /\ n \in m - 1 .. Len(text) /\ n - m + 1 = k
        BY <1>2, <2>3, <2>9
    <2>11. rest[k] = text[n]
        BY <2>5, <2>9
    <2>12. SubSeq(rest, 1, k) = SubSeq(text, m, n)
        <3> DEFINE left == SubSeq(rest, 1, k)
                   right == SubSeq(text, m, n)
        <3>1. left \in Seq(S) /\ Len(left) = k /\ \A i \in 1 .. k : left[i] = rest[i]
            <4>1. k \in 0 .. Len(rest)
                OBVIOUS
            <4>2. QED
                BY <2>5, <4>1, Beginning
        <3> HIDE DEF n
        <3>2. right \in Seq(S) /\ Len(right) = n - m + 1
              /\ \A i \in 1 .. n - m + 1 : right[i] = text[m + i - 1]
            BY <2>4, <2>10, PartOf
        <3> HIDE DEF left, right
        <3>3. \A i \in 1 .. Len(left) : left[i] = right[i]
            <4>1. \A i \in 1 .. k : i \in 1 .. Len(text) - m + 1
                BY <1>2, <2>3, <2>9
            <4>2. QED
                BY <2>5, <2>10, <3>1, <3>2, <4>1
        <3>4. left = right
            BY <2>10, <3>1, <3>2, <3>3, SeqEqual
        <3>5. QED
            BY <3>4 DEF left, right
    <2> HIDE DEF n
    <2>13. ~ White(text[n])
        BY <2>7, <2>9, <2>11
    <2>14. QED
        BY <2>3, <2>6, <2>7, <2>10, <2>12, <2>13
<1>5. QED
    BY <1>3, <1>4

\* A tidy text without whitespace around it.
Proper(text) ==
    Tidy(text) /\ (text # <<>> => ~ White(text[1]) /\ ~ White(text[Len(text)]))

\* What is stripped of a tidy text is tidy.
LEMMA StrippedProper ==
    ASSUME NEW S, NEW text \in Seq(S), Tidy(text)
    PROVE  Stripped(text) \in Seq(S) /\ Proper(Stripped(text))
<1>1. CASE Stripped(text) = <<>>
    <2>1. <<>> \in Seq(S) /\ Len(<<>>) = 0
        BY EmptySeq
    <2>2. Proper(<<>>)
        BY <2>1 DEF Proper, Tidy
    <2>3. QED
        BY <1>1, <2>1, <2>2
<1>2. ASSUME NEW m \in 1 .. Len(text), NEW n \in m .. Len(text),
             Stripped(text) = SubSeq(text, m, n), ~ White(text[m]), ~ White(text[n])
      PROVE  Stripped(text) \in Seq(S) /\ Proper(Stripped(text))
    <2>1. Len(text) \in Nat
        BY LenProperties
    <2>2. /\ m \in Nat \ {0} /\ n \in m - 1 .. Len(text)
          /\ 1 \in 1 .. n - m + 1 /\ n - m + 1 \in 1 .. n - m + 1
          /\ m + 1 - 1 = m /\ m + (n - m + 1) - 1 = n
        BY <2>1
    <2> DEFINE part == SubSeq(text, m, n)
               size == n - m + 1
    <2>3. /\ part \in Seq(S) /\ Len(part) = size
          /\ \A i \in 1 .. size : part[i] = text[m + i - 1]
        BY <2>2, PartOf
    <2>4. Tidy(part)
        BY <2>2, PartTidy
    <2> HIDE DEF part
    <2>5. part[1] = text[m]
        BY <2>2, <2>3
    <2>6. part[Len(part)] = text[n]
        BY <2>2, <2>3
    <2>7. QED
        BY <1>2, <2>3, <2>4, <2>5, <2>6 DEF Proper, part
<1>3. QED
    BY <1>1, <1>2, StrippedIs

\* What is kept of a sequence are elements of it.
LEMMA AmongIs ==
    ASSUME NEW E, NEW seq \in Seq(E), NEW set
    PROVE  Among(seq, set) \in Seq(E)
<1>1. Len(seq) \in Nat
    BY LenProperties
<1>2. PICK a \in [0 .. Len(seq) -> Seq(E)] : Picks(a, seq, set)
    BY AmongTrace
<1>3. QED
    BY <1>1, <1>2 DEF Picks

\* Joined texts are made of the characters of the texts.
LEMMA JoinedIs ==
    ASSUME NEW S, NEW texts \in Seq(Seq(S)), NEW between \in Seq(S)
    PROVE  Joined(texts, between) \in Seq(S)
<1>1. CASE texts = <<>>
    <2>1. <<>> \in Seq(S)
        BY EmptySeq
    <2>2. QED
        BY <1>1, <2>1 DEF Joined
<1>2. CASE texts # <<>>
    <2>1. Len(texts) \in 1 .. Len(texts)
        BY <1>2, EmptySeq
    <2>2. PICK a \in [1 .. Len(texts) -> Seq(S)] : Builds(a, texts, between)
        BY <1>2, JoinedTrace
    <2>3. QED
        BY <2>1, <2>2 DEF Builds
<1>3. QED
    BY <1>1, <1>2

\* Of a page's lines the cleaner leaves a proper text of their characters.
LEMMA CleanProper ==
    ASSUME NEW S, Space \in S, Newline \in S, NEW lines \in Seq(Seq(S))
    PROVE  Clean(lines) \in Seq(S) /\ Proper(Clean(lines))
<1> DEFINE seen == [i \in DOMAIN lines |-> Among(lines[i], {c \in ToSet(lines[i]) : Visible(c)})]
           raw == Joined(KeptLines(lines), <<Newline>>)
           Kept == {text \in Seq(S) : Tidy(text)}
           text == FoldLeft(Collapse, <<>>, raw)
<1>1. seen \in Seq(Seq(S))
    <2>1. Len(lines) \in Nat /\ DOMAIN lines = 1 .. Len(lines)
        BY LenProperties
    <2>2. \A i \in 1 .. Len(lines) : lines[i] \in Seq(S)
        BY ElementOfSeq
    <2>3. ASSUME NEW i \in 1 .. Len(lines)
          PROVE  Among(lines[i], {c \in ToSet(lines[i]) : Visible(c)}) \in Seq(S)
        BY <2>2, AmongIs
    <2>4. seen \in [1 .. Len(lines) -> Seq(S)]
        BY <2>1, <2>3
    <2> DEFINE T == Seq(S)
    <2>5. seen \in [1 .. Len(lines) -> T]
        BY <2>4
    <2> HIDE DEF seen, T
    <2>6. seen \in Seq(T)
        <3>1. Len(lines) \in Nat
            BY <2>1
        <3>2. QED
            BY <2>5, <3>1, FunctionIsSeq
    <2>7. QED
        BY <2>6 DEF T
<1>2. KeptLines(lines) \in Seq(Seq(S))
    <2>1. KeptLines(lines) = Among(seen, {line \in ToSet(seen) : ~ Noise(line)})
        BY DEF KeptLines
    <2> HIDE DEF seen
    <2>2. QED
        BY <1>1, <2>1, AmongIs
<1>3. raw \in Seq(S)
    <2>1. <<Newline>> \in Seq(S)
        OBVIOUS
    <2>2. QED
        BY <1>2, <2>1, JoinedIs
<1>4. text \in Kept
    <2>1. <<>> \in Kept
        BY EmptySeq DEF Tidy
    <2>2. \A x \in Kept, c \in S : Collapse(x, c) \in Kept
        BY CollapseTidy
    <2> HIDE DEF Kept, raw
    <2>3. QED
        BY <1>3, <2>1, <2>2, CollapseKeeps
<1>5. Clean(lines) = Stripped(text)
    BY DEF Clean
<1> HIDE DEF text
<1>6. QED
    BY <1>4, <1>5, StrippedProper

\* Of a page's containers a proper text of their characters is extracted.
LEMMA ExtractProper ==
    ASSUME NEW S, Space \in S, Newline \in S, NEW candidates \in Seq(Seq(Seq(S)))
    PROVE  Extract(candidates) \in Seq(S) /\ Proper(Extract(candidates))
<1>1. Best(candidates) \in Seq(Seq(S))
    <2> DEFINE chars(lines) == FlattenSeq([i \in DOMAIN lines |-> Stripped(lines[i])])
               I == {i \in 1 .. Len(candidates) : Len(chars(candidates[i])) >= MinContentChars}
               fit == IF I # {} THEN Min(I) ELSE 0
    <2>1. Best(candidates) = IF fit = 0 THEN <<>> ELSE candidates[fit]
        BY DEF Best, SelectInSeq
    <2>2. I \in SUBSET Nat /\ I \subseteq 1 .. Len(candidates)
        OBVIOUS
    <2> HIDE DEF I
    <2>3. fit = 0 \/ fit \in 1 .. Len(candidates)
        BY <2>2, LeastExists
    <2> HIDE DEF fit
    <2>4. \A i \in 1 .. Len(candidates) : candidates[i] \in Seq(Seq(S))
        BY ElementOfSeq
    <2>5. <<>> \in Seq(Seq(S))
        BY EmptySeq
    <2>6. QED
        BY <2>1, <2>3, <2>4, <2>5
<1>2. QED
    BY <1>1, CleanProper DEF Extract

-------------------------------------------------------------------------------
\* The headings of a text are the characters with a rank.
Heads(text) == {h \in 1 .. Len(text) : text[h].rank # 0}

\* A character comes from where the last heading at or above it does.
UnderHeading(text, i) ==
    \E h \in 1 .. i : /\ text[h].rank # 0
                      /\ \A k \in h + 1 .. i : text[k].rank = 0
                      /\ text[i].of = text[h].of

\* One section: a heading, and what its address says.
SectionOf(section, item) ==
    /\ Proper(section) /\ section # <<>>
    /\ section[1].rank = item.rank /\ section[1].of = item.url
    /\ \A i \in 2 .. Len(section) :
          section[i].rank = 0 /\ (~ White(section[i]) => section[i].of = item.url)

\* A text with the sections of the first m results.
Cites(text, items, m) ==
    /\ Proper(text) /\ text # <<>>
    /\ {[rank |-> text[h].rank, url |-> text[h].of] : h \in Heads(text)} = {items[i] : i \in 1 .. m}
    /\ IsFiniteSet(Heads(text)) /\ Cardinality(Heads(text)) = m
    /\ \A i \in 1 .. Len(text) : ~ White(text[i]) => UnderHeading(text, i)

\* Two texts with two newlines between them, character by character.
LEMMA WithNewlines ==
    ASSUME NEW S, Newline \in S, NEW upper \in Seq(S), NEW lower \in Seq(S)
    PROVE  LET text == upper \o <<Newline, Newline>> \o lower
               n == Len(upper)
           IN  /\ text \in Seq(S)
               /\ n \in Nat /\ Len(lower) \in Nat /\ Len(text) = n + 2 + Len(lower)
               /\ \A i \in 1 .. n : text[i] = upper[i]
               /\ text[n + 1] = Newline /\ text[n + 2] = Newline
               /\ \A i \in 1 .. Len(lower) : text[n + 2 + i] = lower[i]
<1> DEFINE between == <<Newline, Newline>>
           front == upper \o between
           text == front \o lower
           n == Len(upper)
<1>1. between \in Seq(S) /\ Len(between) = 2 /\ between[1] = Newline /\ between[2] = Newline
    OBVIOUS
<1>2. n \in Nat /\ Len(lower) \in Nat
    BY LenProperties
<1> HIDE DEF between
<1>3. /\ front \in Seq(S) /\ Len(front) = n + 2
      /\ \A i \in 1 .. n + 2 : front[i] = IF i <= n THEN upper[i] ELSE between[i - n]
    <2>1. /\ front \in Seq(S) /\ Len(front) = n + Len(between)
          /\ \A i \in 1 .. n + Len(between) :
                front[i] = IF i <= n THEN upper[i] ELSE between[i - n]
        BY <1>1, ConcatProperties
    <2> HIDE DEF front
    <2>2. QED
        BY <1>1, <2>1
<1>4. /\ \A i \in 1 .. n : front[i] = upper[i]
      /\ front[n + 1] = Newline /\ front[n + 2] = Newline
    <2>1. \A i \in 1 .. n : i \in 1 .. n + 2 /\ i <= n
        BY <1>2
    <2>2. /\ n + 1 \in 1 .. n + 2 /\ ~ (n + 1 <= n) /\ (n + 1) - n = 1
          /\ n + 2 \in 1 .. n + 2 /\ ~ (n + 2 <= n) /\ (n + 2) - n = 2
        BY <1>2
    <2>3. QED
        BY <1>1, <1>3, <2>1, <2>2
<1> HIDE DEF front
<1>5. /\ text \in Seq(S) /\ Len(text) = n + 2 + Len(lower)
      /\ \A i \in 1 .. n + 2 + Len(lower) :
            text[i] = IF i <= n + 2 THEN front[i] ELSE lower[i - (n + 2)]
    <2>1. /\ text \in Seq(S) /\ Len(text) = Len(front) + Len(lower)
          /\ \A i \in 1 .. Len(front) + Len(lower) :
                text[i] = IF i <= Len(front) THEN front[i] ELSE lower[i - Len(front)]
        <3>1. front \in Seq(S)
            BY <1>3
        <3>2. QED
            BY <3>1, ConcatProperties
    <2> HIDE DEF text
    <2>2. QED
        BY <1>3, <2>1
<1> HIDE DEF text
<1>6. \A i \in 1 .. n + 2 : text[i] = front[i]
    <2>1. \A i \in 1 .. n + 2 : i \in 1 .. n + 2 + Len(lower) /\ i <= n + 2
        BY <1>2
    <2>2. QED
        BY <1>5, <2>1
<1>7. \A i \in 1 .. Len(lower) : text[n + 2 + i] = lower[i]
    <2>1. \A i \in 1 .. Len(lower) : /\ n + 2 + i \in 1 .. n + 2 + Len(lower)
                                     /\ ~ (n + 2 + i <= n + 2) /\ (n + 2 + i) - (n + 2) = i
        BY <1>2
    <2>2. QED
        BY <1>5, <2>1
<1>8. /\ \A i \in 1 .. n : text[i] = upper[i]
      /\ text[n + 1] = Newline /\ text[n + 2] = Newline
    <2>1. n + 1 \in 1 .. n + 2 /\ n + 2 \in 1 .. n + 2 /\ \A i \in 1 .. n : i \in 1 .. n + 2
        BY <1>2
    <2>2. QED
        BY <1>4, <1>6, <2>1
<1>9. QED
    BY <1>2, <1>5, <1>7, <1>8 DEF text, front, between

\* Two proper texts with two newlines between them are one.
LEMMA JoinedProper ==
    ASSUME NEW S, Newline \in S, NEW upper \in Seq(S), NEW lower \in Seq(S),
           Proper(upper), upper # <<>>, Proper(lower), lower # <<>>
    PROVE  Proper(upper \o <<Newline, Newline>> \o lower)
<1> DEFINE text == upper \o <<Newline, Newline>> \o lower
           n == Len(upper)
           m == Len(lower)
<1>0. White(Newline) /\ Newline.kind = "newline" /\ Newline.kind # "space" /\ Newline.kind # "tab"
    BY DEF White, Newline, Char
<1>1. /\ n \in Nat \ {0} /\ m \in Nat \ {0} /\ Len(text) = n + 2 + m
      /\ \A i \in 1 .. n : text[i] = upper[i]
      /\ text[n + 1] = Newline /\ text[n + 2] = Newline
      /\ \A i \in 1 .. m : text[n + 2 + i] = lower[i]
    <2>1. n \in Nat \ {0} /\ m \in Nat \ {0}
        BY EmptySeq
    <2>2. QED
        BY <2>1, WithNewlines
<1> HIDE DEF text
<1>2. /\ Tidy(upper) /\ ~ White(upper[1]) /\ ~ White(upper[n])
      /\ Tidy(lower) /\ ~ White(lower[1]) /\ ~ White(lower[m])
    BY DEF Proper
<1> HIDE DEF n, m
<1>3. \A i \in 1 .. n + 2 + m : \/ i \in 1 .. n \/ i = n + 1 \/ i = n + 2
                                \/ i - n - 2 \in 1 .. m /\ text[i] = lower[i - n - 2]
    <2>1. ASSUME NEW i \in 1 .. n + 2 + m, i > n + 2
          PROVE  i - n - 2 \in 1 .. m /\ text[i] = lower[i - n - 2]
        <3>1. i - n - 2 \in 1 .. m /\ n + 2 + (i - n - 2) = i
            BY <1>1, <2>1
        <3>2. QED
            BY <1>1, <3>1
    <2>2. QED
        BY <1>1, <2>1
<1>4. ~ White(text[1]) /\ ~ White(text[n]) /\ ~ White(text[n + 3]) /\ ~ White(text[n + 2 + m])
    <2>1. 1 \in 1 .. n /\ n \in 1 .. n /\ 1 \in 1 .. m /\ m \in 1 .. m /\ n + 2 + 1 = n + 3
        BY <1>1
    <2>2. text[1] = upper[1] /\ text[n] = upper[n] /\ text[n + 2 + m] = lower[m]
        BY <1>1, <2>1
    <2>3. text[n + 3] = lower[1]
        BY <1>1, <2>1
    <2>4. QED
        BY <1>2, <2>2, <2>3
<1>5. ASSUME NEW i \in 1 .. n + 2 + m
      PROVE  text[i].kind # "tab" /\ (text[i].kind = "newline" => text[i] = Newline)
    <2>1. CASE i \in 1 .. n
        <3>1. text[i] = upper[i]
            BY <1>1, <2>1
        <3>2. QED
            BY <1>2, <2>1, <3>1 DEF Tidy, n
    <2>2. CASE i = n + 1 \/ i = n + 2
        BY <1>0, <1>1, <2>2
    <2>3. CASE i - n - 2 \in 1 .. m /\ text[i] = lower[i - n - 2]
        BY <1>2, <2>3 DEF Tidy, m
    <2>4. QED
        BY <1>3, <2>1, <2>2, <2>3
<1>6. ASSUME NEW i \in 1 .. n + 2 + m - 1, text[i].kind = "space" PROVE ~ White(text[i + 1])
    <2>1. CASE i \in 1 .. n - 1
        <3>1. i \in 1 .. n /\ i + 1 \in 1 .. n
            BY <1>1, <2>1
        <3>2. text[i] = upper[i] /\ text[i + 1] = upper[i + 1]
            BY <1>1, <3>1
        <3>3. QED
            BY <1>2, <1>6, <2>1, <3>2 DEF Tidy, n
    <2>2. CASE i = n
        BY <1>4, <1>6, <2>2 DEF White, Blank
    <2>3. CASE i = n + 1 \/ i = n + 2
        BY <1>0, <1>1, <1>6, <2>3
    <2>4. CASE i > n + 2
        <3>1. i - n - 2 \in 1 .. m - 1 /\ (i + 1) - n - 2 = (i - n - 2) + 1
            BY <1>1, <2>4
        <3>2. i \in 1 .. n + 2 + m /\ i + 1 \in 1 .. n + 2 + m
            BY <1>1
        <3>3. text[i] = lower[i - n - 2]
            BY <1>1, <1>3, <2>4, <3>2
        <3>4. text[i + 1] = lower[(i + 1) - n - 2]
            BY <1>1, <1>3, <2>4, <3>2
        <3>5. QED
            BY <1>2, <1>6, <3>1, <3>3, <3>4 DEF Tidy, m
    <2>5. QED
        BY <1>1, <2>1, <2>2, <2>3, <2>4
<1>7. ASSUME NEW i \in 1 .. n + 2 + m - 2 PROVE \E k \in i .. i + 2 : text[k].kind # "newline"
    <2>1. CASE i \in 1 .. n - 2
        <3>1. PICK k \in i .. i + 2 : upper[k].kind # "newline"
            BY <1>2, <2>1 DEF Tidy, n
        <3>2. k \in 1 .. n
            BY <1>1, <2>1
        <3>3. QED
            BY <1>1, <3>1, <3>2
    <2>2. CASE i = n - 1 \/ i = n
        <3>1. n \in i .. i + 2
            BY <1>1, <2>2
        <3>2. QED
            BY <1>4, <3>1 DEF White
    <2>3. CASE i = n + 1 \/ i = n + 2 \/ i = n + 3
        <3>1. n + 3 \in i .. i + 2
            BY <1>1, <2>3
        <3>2. QED
            BY <1>4, <3>1 DEF White
    <2>4. CASE i > n + 3
        <3>1. i - n - 2 \in 1 .. m - 2
            BY <1>1, <2>4
        <3>2. PICK k \in i - n - 2 .. (i - n - 2) + 2 : lower[k].kind # "newline"
            BY <1>2, <3>1 DEF Tidy, m
        <3>3. k \in 1 .. m /\ n + 2 + k \in i .. i + 2
            BY <1>1, <3>1, <3>2
        <3>4. text[n + 2 + k] = lower[k]
            BY <1>1, <3>3
        <3>5. QED
            BY <3>2, <3>3, <3>4
    <2>5. \/ i \in 1 .. n - 2 \/ i = n - 1 \/ i = n
          \/ i = n + 1 \/ i = n + 2 \/ i = n + 3 \/ i > n + 3
        BY <1>1
    <2>6. QED
        BY <2>1, <2>2, <2>3, <2>4, <2>5
<1>8. Tidy(text)
    BY <1>1, <1>5, <1>6, <1>7 DEF Tidy
<1>9. QED
    BY <1>1, <1>4, <1>8 DEF Proper, text

\* The first section alone.
LEMMA FirstSection ==
    ASSUME NEW S, NEW section \in Seq(S), NEW items, NEW U,
           items[1] \in [rank : Nat \ {0}, url : U], SectionOf(section, items[1])
    PROVE  Cites(section, items, 1)
<1>1. Len(section) \in Nat \ {0} /\ Proper(section) /\ section # <<>>
    BY EmptySeq DEF SectionOf
<1>2. section[1].rank # 0 /\ \A i \in 2 .. Len(section) : section[i].rank = 0
    BY DEF SectionOf
<1>3. Heads(section) = {1}
    BY <1>1, <1>2 DEF Heads
<1>4. IsFiniteSet(Heads(section)) /\ Cardinality(Heads(section)) = 1
    <2>1. IsFiniteSet({1}) /\ Cardinality({1}) = 1
        BY FS_Singleton, Zenon
    <2>2. QED
        BY <1>3, <2>1
<1>5. [rank |-> section[1].rank, url |-> section[1].of] = items[1]
    BY DEF SectionOf
<1>6. {[rank |-> section[h].rank, url |-> section[h].of] : h \in Heads(section)}
          = {items[i] : i \in 1 .. 1}
    BY <1>3, <1>5
<1>7. ASSUME NEW i \in 1 .. Len(section), ~ White(section[i]) PROVE UnderHeading(section, i)
    <2>1. 1 \in 1 .. i /\ \A k \in 2 .. i : k \in 2 .. Len(section)
        BY <1>1
    <2>2. section[i].of = section[1].of
        <3>1. CASE i = 1
            BY <3>1
        <3>2. CASE i \in 2 .. Len(section)
            BY <1>7, <3>2 DEF SectionOf
        <3>3. QED
            BY <1>1, <3>1, <3>2
    <2>3. QED
        BY <1>2, <2>1, <2>2 DEF UnderHeading
<1>8. QED
    BY <1>1, <1>4, <1>6, <1>7 DEF Cites

\* One section more below a text with those of the first m results.
LEMMA SectionAdded ==
    ASSUME NEW S, Newline \in S, NEW text \in Seq(S), NEW section \in Seq(S),
           NEW items, NEW U, NEW m \in Nat \ {0}, Cites(text, items, m),
           items[m + 1] \in [rank : Nat \ {0}, url : U], SectionOf(section, items[m + 1])
    PROVE  Cites(text \o <<Newline, Newline>> \o section, items, m + 1)
<1> DEFINE longer == text \o <<Newline, Newline>> \o section
           n == Len(text)
           l == Len(section)
           at == n + 3
<1>0. White(Newline) /\ Newline.rank = 0
    BY DEF White, Newline, Char
<1>1. /\ longer \in Seq(S) /\ n \in Nat \ {0} /\ l \in Nat \ {0} /\ Len(longer) = n + 2 + l
      /\ \A i \in 1 .. n : longer[i] = text[i]
      /\ longer[n + 1] = Newline /\ longer[n + 2] = Newline
      /\ \A i \in 1 .. l : longer[n + 2 + i] = section[i]
    <2>1. n \in Nat \ {0} /\ l \in Nat \ {0}
        BY EmptySeq DEF Cites, SectionOf
    <2>2. QED
        BY <2>1, WithNewlines
<1>2. Proper(longer)
    BY JoinedProper DEF Cites, SectionOf
<1>3. longer # <<>>
    BY <1>1, EmptySeq
<1> HIDE DEF longer
<1>4. \A i \in 1 .. n + 2 + l : \/ i \in 1 .. n \/ i = n + 1 \/ i = n + 2 \/ i = at
                                \/ i \in at + 1 .. n + 2 + l
    BY <1>1
<1>5. longer[at] = section[1]
    <2>1. 1 \in 1 .. l /\ n + 2 + 1 = at
        BY <1>1
    <2>2. QED
        BY <1>1, <2>1
<1>6. \A i \in at + 1 .. n + 2 + l :
          longer[i].rank = 0 /\ (~ White(longer[i]) => longer[i].of = longer[at].of)
    <2>1. ASSUME NEW i \in at + 1 .. n + 2 + l
          PROVE  longer[i].rank = 0 /\ (~ White(longer[i]) => longer[i].of = longer[at].of)
        <3>1. i - n - 2 \in 2 .. l /\ i - n - 2 \in 1 .. l /\ n + 2 + (i - n - 2) = i
            BY <1>1
        <3>2. longer[i] = section[i - n - 2]
            BY <1>1, <3>1
        <3>3. QED
            BY <1>5, <3>1, <3>2 DEF SectionOf, l
    <2>2. QED
        BY <2>1
<1>7. [rank |-> longer[at].rank, url |-> longer[at].of] = items[m + 1] /\ longer[at].rank # 0
    BY <1>5 DEF SectionOf
<1> HIDE DEF n, l
<1>8. Heads(longer) = Heads(text) \cup {at} /\ at \notin Heads(text)
    <2>1. \A i \in 1 .. n : i \in Heads(longer) <=> i \in Heads(text)
        BY <1>1 DEF Heads, n
    <2>2. at \in Heads(longer)
        BY <1>1, <1>7 DEF Heads
    <2>3. n + 1 \notin Heads(longer) /\ n + 2 \notin Heads(longer)
        BY <1>0, <1>1 DEF Heads
    <2>4. \A i \in at + 1 .. n + 2 + l : i \notin Heads(longer)
        BY <1>6 DEF Heads
    <2>5. Heads(longer) \subseteq 1 .. n + 2 + l /\ Heads(text) \subseteq 1 .. n
        BY <1>1 DEF Heads, n
    <2>6. at \notin 1 .. n
        BY <1>1
    <2>7. QED
        BY <1>4, <2>1, <2>2, <2>3, <2>4, <2>5, <2>6
<1>9. IsFiniteSet(Heads(longer)) /\ Cardinality(Heads(longer)) = m + 1
    <2>1. IsFiniteSet(Heads(text)) /\ Cardinality(Heads(text)) = m
        BY DEF Cites
    <2>2. /\ IsFiniteSet(Heads(text) \cup {at})
          /\ Cardinality(Heads(text) \cup {at}) =
                 IF at \in Heads(text) THEN Cardinality(Heads(text)) ELSE Cardinality(Heads(text)) + 1
        BY <2>1, FS_AddElement, Zenon
    <2>3. QED
        BY <1>8, <2>1, <2>2
<1>10. {[rank |-> longer[h].rank, url |-> longer[h].of] : h \in Heads(longer)}
           = {items[i] : i \in 1 .. m + 1}
    <2>1. \A h \in Heads(text) : longer[h] = text[h]
        BY <1>1 DEF Heads, n
    <2>2. {[rank |-> longer[h].rank, url |-> longer[h].of] : h \in Heads(text)}
              = {items[i] : i \in 1 .. m}
        BY <2>1 DEF Cites
    <2>3. {[rank |-> longer[h].rank, url |-> longer[h].of] : h \in Heads(longer)}
              = {items[i] : i \in 1 .. m} \cup {items[m + 1]}
        BY <1>7, <1>8, <2>2
    <2>4. 1 .. m + 1 = (1 .. m) \cup {m + 1}
        OBVIOUS
    <2>5. QED
        BY <2>3, <2>4
<1>11. ASSUME NEW i \in 1 .. n + 2 + l, ~ White(longer[i]) PROVE UnderHeading(longer, i)
    <2>1. CASE i \in 1 .. n
        <3>1. longer[i] = text[i] /\ UnderHeading(text, i)
            BY <1>1, <1>11, <2>1 DEF Cites, n
        <3>2. PICK h \in 1 .. i : /\ text[h].rank # 0
                                  /\ \A k \in h + 1 .. i : text[k].rank = 0
                                  /\ text[i].of = text[h].of
            BY <3>1 DEF UnderHeading
        <3>3. h \in 1 .. n /\ \A k \in h + 1 .. i : k \in 1 .. n
            BY <1>1, <2>1
        <3>4. QED
            BY <1>1, <3>2, <3>3, <2>1 DEF UnderHeading
    <2>2. CASE i \in at + 1 .. n + 2 + l
        <3>1. at \in 1 .. i /\ \A k \in at + 1 .. i : k \in at + 1 .. n + 2 + l
            BY <1>1, <2>2
        <3>2. QED
            BY <1>6, <1>7, <1>11, <2>2, <3>1 DEF UnderHeading
    <2>3. CASE i = at
        <3>1. at \in 1 .. at /\ \A k \in at + 1 .. at : FALSE
            BY <1>1
        <3>2. QED
            BY <1>7, <2>3, <3>1 DEF UnderHeading
    <2>4. i # n + 1 /\ i # n + 2
        BY <1>0, <1>1, <1>11
    <2>5. QED
        BY <1>4, <2>1, <2>2, <2>3, <2>4
<1>12. QED
    BY <1>1, <1>2, <1>3, <1>9, <1>10, <1>11 DEF Cites, longer

\* The sections of all results, joined, make a text that cites them.
THEOREM JoinedSectionsCite ==
    ASSUME NEW S, Newline \in S, NEW U, NEW items, NEW texts \in Seq(Seq(S)), texts # <<>>,
           \A i \in 1 .. Len(texts) : /\ items[i] \in [rank : Nat \ {0}, url : U]
                                      /\ SectionOf(texts[i], items[i])
    PROVE  Cites(Joined(texts, <<Newline, Newline>>), items, Len(texts))
<1> DEFINE n == Len(texts)
           between == <<Newline, Newline>>
<1>1. n \in Nat \ {0}
    BY EmptySeq
<1>2. PICK a \in [1 .. n -> Seq(S)] : Builds(a, texts, between)
    <2>1. between \in Seq(S)
        OBVIOUS
    <2> HIDE DEF between
    <2>2. QED
        BY <2>1, JoinedTrace
<1> DEFINE P == {k \in Nat : k < n => Cites(a[k + 1], items, k + 1)}
<1>3. 0 \in P
    <2>1. 1 \in 1 .. n /\ 0 + 1 = 1
        BY <1>1
    <2>2. a[1] = texts[1] /\ a[1] \in Seq(S)
        BY <1>2, <2>1 DEF Builds
    <2>3. Cites(a[1], items, 1)
        BY <2>1, <2>2, FirstSection
    <2>4. QED
        BY <2>1, <2>3
<1>4. ASSUME NEW k \in 0 .. n - 1, k \in P PROVE k + 1 \in P
    <2>1. SUFFICES ASSUME k + 1 < n PROVE Cites(a[(k + 1) + 1], items, (k + 1) + 1)
        OBVIOUS
    <2> DEFINE m == k + 1
    <2>2. /\ m \in Nat \ {0} /\ m \in 1 .. n /\ m + 1 \in 1 .. n /\ m + 1 \in 2 .. n
          /\ (m + 1) - 1 = m /\ k < n
        BY <1>1, <2>1
    <2>3. Cites(a[m], items, m)
        BY <1>4, <2>2
    <2> HIDE DEF m
    <2>4. a[m + 1] = a[m] \o between \o texts[m + 1]
        BY <1>2, <2>2 DEF Builds
    <2>5. /\ a[m] \in Seq(S) /\ texts[m + 1] \in Seq(S)
          /\ items[m + 1] \in [rank : Nat \ {0}, url : U]
          /\ SectionOf(texts[m + 1], items[m + 1])
        BY <2>2, ElementOfSeq
    <2>6. Cites(a[m] \o between \o texts[m + 1], items, m + 1)
        BY <2>2, <2>3, <2>5, SectionAdded
    <2>7. Cites(a[m + 1], items, m + 1)
        BY <2>4, <2>6
    <2>8. QED
        BY <2>7 DEF m
<1>5. n - 1 \in P
    <2>1. n - 1 \in 0 .. n - 1 /\ \A k \in 0 .. (n - 1) - 1 : k \in 0 .. n - 1
        BY <1>1
    <2>2. n - 1 \in Nat
        BY <1>1
    <2> HIDE DEF P, n
    <2>3. \A k \in 0 .. n - 1 : k \in P
        BY <1>3, <1>4, <2>1, <2>2, UpTo
    <2>4. QED
        BY <2>1, <2>3
<1>6. Cites(a[n], items, n)
    <2>1. n - 1 < n /\ (n - 1) + 1 = n
        BY <1>1
    <2>2. QED
        BY <1>5, <2>1
<1>7. Joined(texts, between) = a[n]
    BY <1>2 DEF Builds
<1>8. QED
    BY <1>6, <1>7

\* A heading, a newline and a proper text of one address make a section.
LEMMA HeadedSection ==
    ASSUME NEW S, Newline \in S, NEW head \in S, NEW body \in Seq(S), NEW item,
           ~ White(head), head.kind # "tab", head.rank = item.rank, head.of = item.url,
           Proper(body), body # <<>>,
           \A i \in 1 .. Len(body) :
              body[i].rank = 0 /\ (~ White(body[i]) => body[i].of = item.url)
    PROVE  /\ <<head, Newline>> \o body \in Seq(S)
           /\ SectionOf(<<head, Newline>> \o body, item)
<1> DEFINE top == <<head, Newline>>
           text == top \o body
           m == Len(body)
<1>0. /\ White(Newline) /\ Newline.kind = "newline" /\ Newline.kind # "space"
      /\ Newline.kind # "tab" /\ Newline.rank = 0
    BY DEF White, Newline, Char
<1>1. top \in Seq(S) /\ Len(top) = 2 /\ top[1] = head /\ top[2] = Newline
    OBVIOUS
<1> HIDE DEF top
<1>2. m \in Nat \ {0} /\ Tidy(body) /\ ~ White(body[1]) /\ ~ White(body[m])
    BY EmptySeq DEF Proper
<1>3. /\ text \in Seq(S) /\ Len(text) = Len(top) + m
      /\ \A i \in 1 .. Len(top) + m : text[i] = IF i <= Len(top) THEN top[i] ELSE body[i - Len(top)]
    <2>1. top \in Seq(S)
        BY <1>1
    <2>2. QED
        BY <2>1, ConcatProperties
<1> HIDE DEF text, m
<1>4. /\ Len(text) = m + 2 /\ text[1] = head /\ text[2] = Newline
      /\ \A i \in 3 .. m + 2 : i - 2 \in 1 .. m /\ text[i] = body[i - 2]
    <2>1. /\ Len(text) = m + 2
          /\ \A i \in 1 .. m + 2 : text[i] = IF i <= 2 THEN top[i] ELSE body[i - 2]
        BY <1>1, <1>2, <1>3
    <2>2. 1 \in 1 .. m + 2 /\ 2 \in 1 .. m + 2
        BY <1>2
    <2>3. \A i \in 3 .. m + 2 : i \in 1 .. m + 2 /\ ~ (i <= 2) /\ i - 2 \in 1 .. m
        BY <1>2
    <2>4. QED
        BY <1>1, <2>1, <2>2, <2>3
<1>5. \A i \in 1 .. m + 2 : i = 1 \/ i = 2 \/ i \in 3 .. m + 2
    BY <1>2
<1>6. ~ White(text[1]) /\ ~ White(text[3]) /\ ~ White(text[m + 2])
    <2>1. 3 \in 3 .. m + 2 /\ m + 2 \in 3 .. m + 2 /\ 3 - 2 = 1 /\ (m + 2) - 2 = m
        BY <1>2
    <2>2. text[3] = body[1] /\ text[m + 2] = body[m]
        BY <1>4, <2>1
    <2>3. QED
        BY <1>2, <1>4, <2>2
<1>7. ASSUME NEW i \in 1 .. m + 2
      PROVE  text[i].kind # "tab" /\ (text[i].kind = "newline" => text[i] = Newline)
    <2>1. CASE i \in 3 .. m + 2
        BY <1>2, <1>4, <2>1 DEF Tidy, m
    <2>2. CASE i = 1
        BY <1>4, <2>2 DEF White
    <2>3. CASE i = 2
        BY <1>0, <1>4, <2>3
    <2>4. QED
        BY <1>5, <2>1, <2>2, <2>3
<1>8. ASSUME NEW i \in 1 .. m + 2 - 1, text[i].kind = "space" PROVE ~ White(text[i + 1])
    <2>1. CASE i \in 3 .. m + 2 - 1
        <3>1. i \in 3 .. m + 2 /\ i + 1 \in 3 .. m + 2 /\ i - 2 \in 1 .. m - 1 /\ (i + 1) - 2 = (i - 2) + 1
            BY <1>2, <2>1
        <3>2. text[i] = body[i - 2] /\ text[i + 1] = body[(i + 1) - 2]
            BY <1>4, <3>1
        <3>3. QED
            BY <1>2, <1>8, <3>1, <3>2 DEF Tidy, m
    <2>2. CASE i = 1
        BY <1>4, <1>8, <2>2 DEF White, Blank
    <2>3. CASE i = 2
        BY <1>0, <1>4, <1>8, <2>3
    <2>4. i = 1 \/ i = 2 \/ i \in 3 .. m + 2 - 1
        BY <1>2
    <2>5. QED
        BY <2>1, <2>2, <2>3, <2>4
<1>9. ASSUME NEW i \in 1 .. m + 2 - 2 PROVE \E k \in i .. i + 2 : text[k].kind # "newline"
    <2>1. CASE i \in 3 .. m + 2 - 2
        <3>1. i - 2 \in 1 .. m - 2
            BY <1>2, <2>1
        <3>2. PICK k \in i - 2 .. (i - 2) + 2 : body[k].kind # "newline"
            BY <1>2, <3>1 DEF Tidy, m
        <3>3. k + 2 \in 3 .. m + 2 /\ k + 2 \in i .. i + 2 /\ (k + 2) - 2 = k
            BY <1>2, <3>1, <3>2
        <3>4. text[k + 2] = body[k]
            BY <1>4, <3>3
        <3>5. QED
            BY <3>2, <3>3, <3>4
    <2>2. CASE i = 1 \/ i = 2
        <3>1. 3 \in i .. i + 2
            BY <2>2
        <3>2. QED
            BY <1>6, <3>1 DEF White
    <2>3. i = 1 \/ i = 2 \/ i \in 3 .. m + 2 - 2
        BY <1>2
    <2>4. QED
        BY <2>1, <2>2, <2>3
<1>10. Proper(text)
    <2>1. Len(text) = m + 2 /\ m \in Nat
        BY <1>2, <1>4
    <2>2. Tidy(text)
        BY <1>7, <1>8, <1>9, <2>1 DEF Tidy
    <2>3. QED
        BY <1>6, <2>1, <2>2 DEF Proper
<1>11. ASSUME NEW i \in 2 .. Len(text)
       PROVE  text[i].rank = 0 /\ (~ White(text[i]) => text[i].of = item.url)
    <2>1. CASE i = 2
        BY <1>0, <1>4, <2>1
    <2>2. CASE i \in 3 .. m + 2
        BY <1>4, <2>2 DEF m
    <2>3. QED
        BY <1>2, <1>4, <2>1, <2>2
<1>12. text # <<>>
    BY <1>2, <1>3, <1>4, EmptySeq
<1>13. SectionOf(text, item)
    BY <1>4, <1>10, <1>11, <1>12 DEF SectionOf
<1>14. QED
    BY <1>3, <1>13 DEF text, top

-------------------------------------------------------------------------------
\* The address each container of a layout gives, the addresses seen up to one, how many
\* they are, and where one is seen first.
Addresses(layout) ==
    [i \in DOMAIN layout |-> IF IsResult(layout[i]) THEN Unwrap(layout[i]) ELSE None]

Seen(u, n) == {u[j] : j \in 1 .. n} \ {None}
RankAt(u, n) == Cardinality(Seen(u, n))
FirstAt(u, i) == u[i] # None /\ \A j \in 1 .. i - 1 : u[j] # u[i]

\* The list has the first addresses of those seen up to n, each in its place.
Lists(urls, u, n, most) ==
    /\ IsFiniteSet(Seen(u, n))
    /\ Len(urls) = IF RankAt(u, n) <= most THEN RankAt(u, n) ELSE most
    /\ RankAt(u, n) <= most => ToSet(urls) = Seen(u, n)
    /\ \A i \in 1 .. n : FirstAt(u, i) /\ RankAt(u, i) <= most =>
          RankAt(u, i) \in 1 .. Len(urls) /\ urls[RankAt(u, i)] = u[i]
    /\ \A m \in 1 .. Len(urls) :
          \E i \in 1 .. n : FirstAt(u, i) /\ RankAt(u, i) = m /\ urls[m] = u[i]

\* One container more shows one address more, or none.
LEMMA SeenMore ==
    ASSUME NEW u, NEW n \in Nat, IsFiniteSet(Seen(u, n))
    PROVE  /\ IsFiniteSet(Seen(u, n + 1))
           /\ RankAt(u, n) \in Nat /\ RankAt(u, n + 1) \in Nat
           /\ FirstAt(u, n + 1) => /\ Seen(u, n + 1) = Seen(u, n) \cup {u[n + 1]}
                                   /\ u[n + 1] \notin Seen(u, n)
                                   /\ RankAt(u, n + 1) = RankAt(u, n) + 1
           /\ ~ FirstAt(u, n + 1) => /\ Seen(u, n + 1) = Seen(u, n)
                                     /\ u[n + 1] = None \/ u[n + 1] \in Seen(u, n)
<1>1. 1 .. n + 1 = (1 .. n) \cup {n + 1} /\ 1 .. (n + 1) - 1 = 1 .. n
    OBVIOUS
<1>2. RankAt(u, n) \in Nat
    BY FS_CardinalityType DEF RankAt
<1>3. CASE FirstAt(u, n + 1)
    <2>1. Seen(u, n + 1) = Seen(u, n) \cup {u[n + 1]} /\ u[n + 1] \notin Seen(u, n)
        BY <1>1, <1>3 DEF Seen, FirstAt
    <2>2. /\ IsFiniteSet(Seen(u, n) \cup {u[n + 1]})
          /\ Cardinality(Seen(u, n) \cup {u[n + 1]}) =
                IF u[n + 1] \in Seen(u, n) THEN Cardinality(Seen(u, n))
                ELSE Cardinality(Seen(u, n)) + 1
        BY FS_AddElement, Zenon
    <2>3. QED
        BY <1>2, <1>3, <2>1, <2>2 DEF RankAt
<1>4. CASE ~ FirstAt(u, n + 1)
    <2>1. u[n + 1] = None \/ u[n + 1] \in Seen(u, n)
        BY <1>1, <1>4 DEF Seen, FirstAt
    <2>2. Seen(u, n + 1) = Seen(u, n)
        BY <1>1, <2>1 DEF Seen
    <2>3. QED
        BY <1>2, <1>4, <2>1, <2>2 DEF RankAt
<1>5. QED
    BY <1>3, <1>4

\* What a list becomes with one container more.
LEMMA ListsMore ==
    ASSUME NEW U, NEW urls \in Seq(U), NEW u, NEW n \in Nat, NEW most \in Nat,
           Lists(urls, u, n, most), NEW node,
           u[n + 1] = IF IsResult(node) THEN Unwrap(node) ELSE None,
           u[n + 1] # None => u[n + 1] \in U
    PROVE  Lists(Listed(urls, node, most), u, n + 1, most)
<1> DEFINE more == Listed(urls, node, most)
<1>1. IsFiniteSet(Seen(u, n))
    BY DEF Lists
<1>2. /\ IsFiniteSet(Seen(u, n + 1))
      /\ RankAt(u, n) \in Nat /\ RankAt(u, n + 1) \in Nat
      /\ FirstAt(u, n + 1) => /\ Seen(u, n + 1) = Seen(u, n) \cup {u[n + 1]}
                              /\ u[n + 1] \notin Seen(u, n)
                              /\ RankAt(u, n + 1) = RankAt(u, n) + 1
      /\ ~ FirstAt(u, n + 1) => /\ Seen(u, n + 1) = Seen(u, n)
                                /\ u[n + 1] = None \/ u[n + 1] \in Seen(u, n)
    BY <1>1, SeenMore
<1>3. Len(urls) \in Nat /\ ToSet(urls) = {urls[i] : i \in 1 .. Len(urls)}
    BY LenProperties DEF ToSet
<1>4. u[n + 1] # None <=> IsResult(node)
    BY DEF IsResult
<1>5. \A i \in 1 .. n + 1 : i \in 1 .. n \/ i = n + 1
    OBVIOUS
<1>6. CASE ~ FirstAt(u, n + 1)
    <2>1. RankAt(u, n + 1) = RankAt(u, n) /\ Seen(u, n + 1) = Seen(u, n)
        BY <1>2, <1>6 DEF RankAt
    <2>2. more = urls
        <3>1. CASE u[n + 1] = None
            BY <1>4, <3>1 DEF Listed
        <3>2. CASE u[n + 1] # None
            <4>1. IsResult(node) /\ Unwrap(node) \in Seen(u, n)
                BY <1>2, <1>4, <1>6, <3>2
            <4>2. Unwrap(node) \in ToSet(urls) \/ Len(urls) >= most
                BY <1>2, <4>1 DEF Lists
            <4>3. QED
                BY <4>2 DEF Listed
        <3>3. QED
            BY <3>1, <3>2
    <2> HIDE DEF more
    <2>3. Lists(urls, u, n + 1, most)
        BY <1>2, <1>5, <1>6, <2>1 DEF Lists
    <2>4. QED
        BY <2>2, <2>3 DEF more
<1>7. CASE FirstAt(u, n + 1) /\ RankAt(u, n) >= most
    <2>1. Len(urls) = most
        BY <1>2, <1>7 DEF Lists
    <2>2. more = urls
        BY <1>3, <2>1 DEF Listed
    <2> HIDE DEF more
    <2>3. RankAt(u, n + 1) > most
        BY <1>2, <1>7
    <2>4. \A i \in 1 .. n + 1 : FirstAt(u, i) /\ RankAt(u, i) <= most =>
              RankAt(u, i) \in 1 .. Len(urls) /\ urls[RankAt(u, i)] = u[i]
        <3>1. SUFFICES ASSUME NEW i \in 1 .. n + 1, FirstAt(u, i), RankAt(u, i) <= most
                       PROVE  RankAt(u, i) \in 1 .. Len(urls) /\ urls[RankAt(u, i)] = u[i]
            OBVIOUS
        <3>2. i \in 1 .. n
            BY <1>2, <1>5, <2>3, <3>1
        <3>3. QED
            BY <3>1, <3>2 DEF Lists
    <2>5. \A m \in 1 .. Len(urls) :
              \E i \in 1 .. n + 1 : FirstAt(u, i) /\ RankAt(u, i) = m /\ urls[m] = u[i]
        <3>1. \A i \in 1 .. n : i \in 1 .. n + 1
            OBVIOUS
        <3>2. QED
            BY <3>1 DEF Lists
    <2>6. Lists(urls, u, n + 1, most)
        BY <1>2, <2>1, <2>3, <2>4, <2>5 DEF Lists
    <2>7. QED
        BY <2>2, <2>6 DEF more
<1>8. CASE FirstAt(u, n + 1) /\ RankAt(u, n) < most
    <2> DEFINE r == RankAt(u, n)
    <2>1. /\ Len(urls) = r /\ ToSet(urls) = Seen(u, n)
          /\ r \in Nat /\ RankAt(u, n + 1) = r + 1 /\ r + 1 <= most
        BY <1>2, <1>8 DEF Lists
    <2>2. u[n + 1] # None /\ IsResult(node) /\ Unwrap(node) = u[n + 1] /\ u[n + 1] \in U
        BY <1>4, <1>8 DEF FirstAt
    <2>3. Unwrap(node) \notin ToSet(urls) /\ ~ (Len(urls) >= most)
        BY <1>2, <1>8, <2>1, <2>2
    <2>4. more = Append(urls, u[n + 1])
        BY <2>2, <2>3 DEF Listed
    <2> HIDE DEF more, r
    <2>5. /\ Len(more) = r + 1 /\ more[r + 1] = u[n + 1]
          /\ \A i \in 1 .. r : more[i] = urls[i]
          /\ DOMAIN more = 1 .. r + 1
        <3>1. /\ Append(urls, u[n + 1]) \in Seq(U)
              /\ Len(Append(urls, u[n + 1])) = Len(urls) + 1
              /\ \A i \in 1 .. Len(urls) : Append(urls, u[n + 1])[i] = urls[i]
              /\ Append(urls, u[n + 1])[Len(urls) + 1] = u[n + 1]
            BY <2>2, AppendProperties
        <3>2. DOMAIN Append(urls, u[n + 1]) = 1 .. Len(Append(urls, u[n + 1]))
            BY <3>1, LenProperties
        <3>3. QED
            BY <2>1, <2>4, <3>1, <3>2
    <2>6. \A i \in 1 .. r + 1 : i \in 1 .. r \/ i = r + 1
        BY <2>1
    <2>7. ToSet(more) = Seen(u, n + 1)
        <3>1. ToSet(more) = {more[i] : i \in 1 .. r + 1}
            BY <2>5 DEF ToSet
        <3>2. 1 .. r + 1 = (1 .. r) \cup {r + 1}
            BY <2>1
        <3>3. {more[i] : i \in 1 .. r + 1} = {urls[i] : i \in 1 .. r} \cup {u[n + 1]}
            BY <2>5, <3>2
        <3>4. QED
            BY <1>2, <1>3, <1>8, <2>1, <3>1, <3>3
    <2>8. \A i \in 1 .. n + 1 : FirstAt(u, i) /\ RankAt(u, i) <= most =>
              RankAt(u, i) \in 1 .. r + 1 /\ more[RankAt(u, i)] = u[i]
        <3>1. SUFFICES ASSUME NEW i \in 1 .. n + 1, FirstAt(u, i), RankAt(u, i) <= most
                       PROVE  RankAt(u, i) \in 1 .. r + 1 /\ more[RankAt(u, i)] = u[i]
            OBVIOUS
        <3>2. CASE i \in 1 .. n
            <4>1. RankAt(u, i) \in 1 .. r /\ urls[RankAt(u, i)] = u[i]
                BY <2>1, <3>1, <3>2 DEF Lists
            <4>2. QED
                BY <2>1, <2>5, <4>1
        <3>3. CASE i = n + 1
            BY <2>1, <2>5, <3>3
        <3>4. QED
            BY <1>5, <3>2, <3>3
    <2>9. \A m \in 1 .. r + 1 :
              \E i \in 1 .. n + 1 : FirstAt(u, i) /\ RankAt(u, i) = m /\ more[m] = u[i]
        <3>1. SUFFICES ASSUME NEW m \in 1 .. r + 1
                       PROVE  \E i \in 1 .. n + 1 : FirstAt(u, i) /\ RankAt(u, i) = m /\ more[m] = u[i]
            OBVIOUS
        <3>2. CASE m \in 1 .. r
            <4>1. PICK i \in 1 .. n : FirstAt(u, i) /\ RankAt(u, i) = m /\ urls[m] = u[i]
                BY <2>1, <3>2 DEF Lists
            <4>2. i \in 1 .. n + 1 /\ more[m] = urls[m]
                BY <2>5, <3>2
            <4>3. QED
                BY <4>1, <4>2
        <3>3. CASE m = r + 1
            <4>1. n + 1 \in 1 .. n + 1
                OBVIOUS
            <4>2. QED
                BY <1>8, <2>1, <2>5, <3>3, <4>1
        <3>4. QED
            BY <2>6, <3>2, <3>3
    <2>10. Len(more) = IF RankAt(u, n + 1) <= most THEN RankAt(u, n + 1) ELSE most
        BY <2>1, <2>5
    <2>11. Lists(more, u, n + 1, most)
        BY <1>2, <2>5, <2>7, <2>8, <2>9, <2>10 DEF Lists
    <2>12. QED
        BY <2>11 DEF more
<1>9. QED
    BY <1>2, <1>6, <1>7, <1>8

\* Of no address there is an empty list.
LEMMA ListsNothing ==
    ASSUME NEW u, NEW most \in Nat
    PROVE  Lists(<<>>, u, 0, most)
<1>1. Seen(u, 0) = {} /\ ToSet(<<>>) = {} /\ Len(<<>>) = 0
    BY DEF Seen, ToSet
<1>2. IsFiniteSet({}) /\ Cardinality({}) = 0
    BY FS_EmptySet, Zenon
<1>3. IsFiniteSet(Seen(u, 0)) /\ RankAt(u, 0) = 0
    BY <1>1, <1>2 DEF RankAt
<1>4. /\ Len(<<>>) = IF RankAt(u, 0) <= most THEN RankAt(u, 0) ELSE most
      /\ ToSet(<<>>) = Seen(u, 0)
    <2>1. 0 <= most
        OBVIOUS
    <2>2. Len(<<>>) = IF RankAt(u, 0) <= most THEN RankAt(u, 0) ELSE most
        BY <1>1, <1>3, <2>1
    <2>3. ToSet(<<>>) = Seen(u, 0)
        BY <1>1, Zenon
    <2>4. QED
        BY <2>2, <2>3
<1>5. /\ \A i \in 1 .. 0 : FALSE
      /\ \A m \in 1 .. Len(<<>>) : FALSE
    BY <1>1
<1>6. QED
    BY <1>3, <1>4, <1>5 DEF Lists

\* The results of one layout are its first addresses, each in its place.
LEMMA LayoutLists ==
    ASSUME NEW layout \in Seq(Container), NEW most \in Nat
    PROVE  /\ LayoutUrls(layout, most) \in Seq(Url)
           /\ Lists(LayoutUrls(layout, most), Addresses(layout), Len(layout), most)
<1> DEFINE u == Addresses(layout)
           n == Len(layout)
<1>1. n \in Nat /\ DOMAIN layout = 1 .. n /\ \A i \in 1 .. n : layout[i] \in Container
    BY LenProperties, ElementOfSeq
<1>2. \A node \in Container : IsResult(node) => Unwrap(node) \in Url
    BY DEF IsResult, Unwrap, Container
<1>30. PICK a \in [0 .. n -> Seq(Url)] : Turned(a, layout, most)
    BY <1>2, ListedTrace
<1>3. /\ a[0] = <<>>
      /\ \A i \in 1 .. n : a[i] = Listed(a[i - 1], layout[i], most)
      /\ LayoutUrls(layout, most) = a[n]
    BY <1>30 DEF Turned
<1>4. \A i \in 1 .. n : u[i] = IF IsResult(layout[i]) THEN Unwrap(layout[i]) ELSE None
    BY <1>1 DEF Addresses
<1> HIDE DEF u
<1> DEFINE P == {k \in Nat : k <= n => Lists(a[k], u, k, most)}
<1>5. 0 \in P
    BY <1>3, ListsNothing
<1>6. ASSUME NEW k \in 0 .. n - 1, k \in P PROVE k + 1 \in P
    <2>1. k \in Nat /\ k <= n /\ k + 1 \in 1 .. n /\ (k + 1) - 1 = k /\ k \in 0 .. n
        BY <1>1
    <2>2. Lists(a[k], u, k, most) /\ a[k] \in Seq(Url)
        BY <1>6, <2>1
    <2>3. /\ u[k + 1] = IF IsResult(layout[k + 1]) THEN Unwrap(layout[k + 1]) ELSE None
          /\ u[k + 1] # None => u[k + 1] \in Url
        BY <1>1, <1>2, <1>4, <2>1
    <2>4. Lists(Listed(a[k], layout[k + 1], most), u, k + 1, most)
        BY <2>1, <2>2, <2>3, ListsMore
    <2>5. a[k + 1] = Listed(a[k], layout[k + 1], most)
        BY <1>3, <2>1
    <2>6. QED
        BY <2>1, <2>4, <2>5
<1>7. \A k \in 0 .. n : k \in P
    <2> HIDE DEF P
    <2>1. QED  BY <1>1, <1>5, <1>6, UpTo
<1>8. Lists(a[n], u, n, most) /\ a[n] \in Seq(Url)
    <2>1. n \in 0 .. n
        BY <1>1
    <2>2. QED
        BY <1>7, <2>1
<1>9. QED
    BY <1>3, <1>8 DEF u

\* The layouts with a result.
Fruitful(layouts) ==
    {n \in DOMAIN layouts : \E i \in DOMAIN layouts[n] : Addresses(layouts[n])[i] # None}

\* The addresses of the first layout that has any.
Read(layouts) ==
    IF Fruitful(layouts) = {} THEN <<>> ELSE Addresses(layouts[Min(Fruitful(layouts))])

\* What is read off a page are the first addresses of the first layout that has any, each
\* with the number of addresses seen up to it as its rank (parse_google_serp: "Ranked
\* organic results, de-duplicated by URL").
THEOREM ParseRanks ==
    ASSUME NEW layouts \in Seq(Seq(Container)), NEW most \in Nat \ {0}
    PROVE  LET parsed == Parse(layouts, most)
               u == Read(layouts)
           IN  /\ parsed \in Seq([rank : Nat \ {0}, url : Url])
               /\ \A i \in DOMAIN parsed : parsed[i].rank = i
               /\ ToSet(parsed) = {[rank |-> RankAt(u, i), url |-> u[i]] :
                                      i \in {i \in DOMAIN u : FirstAt(u, i) /\ RankAt(u, i) <= most}}
<1> DEFINE I == {n \in 1 .. Len(layouts) : LayoutUrls(layouts[n], most) # <<>>}
           found == IF I # {} THEN Min(I) ELSE 0
           urls == IF found = 0 THEN <<>> ELSE LayoutUrls(layouts[found], most)
           u == Read(layouts)
           n == Len(u)
           parsed == Parse(layouts, most)
<1>1. parsed = [i \in DOMAIN urls |-> [rank |-> i, url |-> urls[i]]]
    BY DEF Parse, SelectInSeq
<1>2. /\ DOMAIN layouts = 1 .. Len(layouts)
      /\ \A k \in 1 .. Len(layouts) : layouts[k] \in Seq(Container)
    BY LenProperties, ElementOfSeq
<1>3. \A k \in 1 .. Len(layouts) :
          /\ LayoutUrls(layouts[k], most) \in Seq(Url)
          /\ Lists(LayoutUrls(layouts[k], most), Addresses(layouts[k]), Len(layouts[k]), most)
    BY <1>2, LayoutLists
<1>4. ASSUME NEW k \in 1 .. Len(layouts)
      PROVE  LayoutUrls(layouts[k], most) # <<>> <=>
                 \E i \in DOMAIN layouts[k] : Addresses(layouts[k])[i] # None
    <2> DEFINE v == Addresses(layouts[k])
               l == Len(layouts[k])
               list == LayoutUrls(layouts[k], most)
    <2>1. DOMAIN layouts[k] = 1 .. l /\ list \in Seq(Url) /\ Lists(list, v, l, most)
        BY <1>2, <1>3, LenProperties
    <2> HIDE DEF v, l, list
    <2>2. Len(list) \in Nat /\ (list = <<>> <=> Len(list) = 0)
        BY <2>1, LenProperties, EmptySeq
    <2>3. RankAt(v, l) \in Nat /\ (RankAt(v, l) = 0 <=> Seen(v, l) = {})
        <3>1. IsFiniteSet(Seen(v, l))
            BY <2>1 DEF Lists
        <3>2. Cardinality(Seen(v, l)) \in Nat
            BY <3>1, FS_CardinalityType
        <3>3. Cardinality(Seen(v, l)) = 0 <=> Seen(v, l) = {}
            BY <3>1, FS_EmptySet, Zenon
        <3>4. QED
            BY <3>2, <3>3 DEF RankAt
    <2>4. Len(list) = 0 <=> RankAt(v, l) = 0
        BY <2>1, <2>2, <2>3 DEF Lists
    <2>5. Seen(v, l) # {} <=> \E i \in 1 .. l : v[i] # None
        BY DEF Seen
    <2>6. QED
        BY <2>1, <2>2, <2>3, <2>4, <2>5 DEF v, l, list
<1>5. I = Fruitful(layouts)
    BY <1>2, <1>4 DEF Fruitful
<1>6. urls \in Seq(Url) /\ Lists(urls, u, n, most) /\ DOMAIN u = 1 .. n
    <2>1. CASE I = {}
        <3>1. urls = <<>> /\ u = <<>>
            BY <1>5, <2>1 DEF Read
        <3>2. <<>> \in Seq(Url) /\ Len(<<>>) = 0 /\ DOMAIN <<>> = 1 .. 0
            BY EmptySeq, LenProperties
        <3>3. Lists(<<>>, <<>>, 0, most)
            BY ListsNothing
        <3> HIDE DEF u, urls
        <3>4. QED
            BY <3>1, <3>2, <3>3
    <2>2. CASE I # {}
        <3>1. I \in SUBSET Nat
            OBVIOUS
        <3> HIDE DEF I
        <3>2. Min(I) \in I
            BY <2>2, <3>1, LeastExists
        <3>3. Min(I) \in 1 .. Len(layouts) /\ Min(I) # 0
            BY <3>2 DEF I
        <3> DEFINE k == Min(I)
        <3>4. urls = LayoutUrls(layouts[k], most) /\ u = Addresses(layouts[k])
            BY <1>5, <2>2, <3>3 DEF Read
        <3> HIDE DEF k, u, urls
        <3>5. k \in 1 .. Len(layouts) /\ layouts[k] \in Seq(Container)
            BY <1>2, <3>3 DEF k
        <3>6. DOMAIN u = 1 .. Len(layouts[k]) /\ Len(layouts[k]) \in Nat
            BY <3>4, <3>5, LenProperties DEF Addresses
        <3>7. u \in [1 .. Len(layouts[k]) -> {u[i] : i \in 1 .. Len(layouts[k])}]
            BY <3>4, <3>6 DEF Addresses
        <3>8. n = Len(layouts[k])
            BY <3>6, <3>7, FunctionIsSeq
        <3> HIDE DEF n
        <3>9. QED
            BY <1>3, <3>4, <3>5, <3>6, <3>8
    <2>3. QED
        BY <2>1, <2>2
<1> HIDE DEF urls, u, n, parsed
<1>7. Len(urls) \in Nat /\ DOMAIN urls = 1 .. Len(urls) /\ \A i \in 1 .. Len(urls) : urls[i] \in Url
    BY <1>6, LenProperties, ElementOfSeq
<1>8. /\ DOMAIN parsed = 1 .. Len(urls)
      /\ \A i \in 1 .. Len(urls) : parsed[i] = [rank |-> i, url |-> urls[i]]
    BY <1>1, <1>7
<1>9. parsed \in Seq([rank : Nat \ {0}, url : Url])
    <2> DEFINE T == [rank : Nat \ {0}, url : Url]
    <2>1. parsed \in [1 .. Len(urls) -> T]
        BY <1>1, <1>7
    <2> HIDE DEF T
    <2>2. parsed \in Seq(T)
        <3>1. Len(urls) \in Nat
            BY <1>7
        <3>2. QED
            BY <2>1, <3>1, FunctionIsSeq
    <2>3. QED
        BY <2>2 DEF T
<1>10. ToSet(parsed) = {[rank |-> RankAt(u, i), url |-> u[i]] :
                           i \in {i \in DOMAIN u : FirstAt(u, i) /\ RankAt(u, i) <= most}}
    <2>1. ASSUME NEW m \in 1 .. Len(urls)
          PROVE  \E i \in DOMAIN u : /\ FirstAt(u, i) /\ RankAt(u, i) <= most
                                     /\ parsed[m] = [rank |-> RankAt(u, i), url |-> u[i]]
        <3>1. PICK i \in 1 .. n : FirstAt(u, i) /\ RankAt(u, i) = m /\ urls[m] = u[i]
            BY <1>6 DEF Lists
        <3>2. Len(urls) <= most
            <4>1. RankAt(u, n) \in Nat
                BY <1>6, FS_CardinalityType DEF Lists, RankAt
            <4>2. QED
                BY <1>6, <4>1 DEF Lists
        <3>3. m <= most
            BY <1>7, <3>2
        <3>4. QED
            BY <1>6, <1>8, <3>1, <3>3
    <2>2. ASSUME NEW i \in DOMAIN u, FirstAt(u, i), RankAt(u, i) <= most
          PROVE  /\ RankAt(u, i) \in 1 .. Len(urls)
                 /\ parsed[RankAt(u, i)] = [rank |-> RankAt(u, i), url |-> u[i]]
        BY <1>6, <1>8, <2>2 DEF Lists
    <2> DEFINE Item(i) == [rank |-> RankAt(u, i), url |-> u[i]]
               J == {i \in DOMAIN u : FirstAt(u, i) /\ RankAt(u, i) <= most}
    <2>3. ToSet(parsed) = {parsed[m] : m \in 1 .. Len(urls)}
        BY <1>8 DEF ToSet
    <2>4. \A m \in 1 .. Len(urls) : \E i \in J : parsed[m] = Item(i)
        BY <2>1
    <2>5. \A i \in J : \E m \in 1 .. Len(urls) : parsed[m] = Item(i)
        BY <2>2
    <2> HIDE DEF Item, J
    <2>6. ToSet(parsed) = {Item(i) : i \in J}
        BY <2>3, <2>4, <2>5
    <2>7. QED
        BY <2>6 DEF Item, J
<1>11. QED
    BY <1>8, <1>9, <1>10 DEF parsed, u

\* The elements of a sequence that is numbered by rank that are in a set, numbered in order.
InOrder(kept, k, seq, set) ==
    /\ {kept[i] : i \in 1 .. Len(kept)} = {seq[i] : i \in 1 .. k} \cap set
    /\ \A i \in 1 .. Len(kept) : kept[i].rank \in 1 .. k
    /\ \A i, j \in 1 .. Len(kept) : i < j => kept[i].rank < kept[j].rank

\* What is kept of results that are ranked one after another stays in the order of the ranks.
LEMMA AmongRanked ==
    ASSUME NEW E, NEW seq \in Seq(E), NEW set, \A i \in DOMAIN seq : seq[i].rank = i
    PROVE  LET kept == Among(seq, set)
           IN  /\ kept \in Seq(E) /\ ToSet(kept) = ToSet(seq) \cap set
               /\ \A i, j \in DOMAIN kept : i < j => kept[i].rank < kept[j].rank
<1> DEFINE n == Len(seq)
           kept == Among(seq, set)
<1>1. n \in Nat /\ DOMAIN seq = 1 .. n /\ \A i \in 1 .. n : seq[i] \in E /\ seq[i].rank = i
    BY LenProperties, ElementOfSeq
<1>2. PICK a \in [0 .. n -> Seq(E)] : Picks(a, seq, set)
    BY AmongTrace
<1>3. /\ a[0] = <<>>
      /\ \A i \in 1 .. n : a[i] = IF seq[i] \in set THEN Append(a[i - 1], seq[i]) ELSE a[i - 1]
      /\ kept = a[n]
    BY <1>2 DEF Picks
<1> HIDE DEF kept
<1> DEFINE P == {k \in Nat : k <= n => InOrder(a[k], k, seq, set)}
<1>4. 0 \in P
    <2>1. Len(<<>>) = 0 /\ \A i \in 1 .. 0 : FALSE
        BY EmptySeq
    <2>2. InOrder(<<>>, 0, seq, set)
        BY <2>1 DEF InOrder
    <2>3. QED
        BY <1>3, <2>2
<1>5. ASSUME NEW k \in 0 .. n - 1, k \in P PROVE k + 1 \in P
    <2>1. k \in Nat /\ k <= n /\ k + 1 \in 1 .. n /\ (k + 1) - 1 = k /\ k \in 0 .. n
        BY <1>1
    <2> DEFINE x == a[k]
               y == a[k + 1]
               e == seq[k + 1]
               l == Len(x)
    <2>2. InOrder(x, k, seq, set) /\ x \in Seq(E) /\ l \in Nat
        BY <1>5, <2>1, LenProperties
    <2>3. e \in E /\ e.rank = k + 1 /\ y = IF e \in set THEN Append(x, e) ELSE x
        BY <1>1, <1>3, <2>1
    <2>4. {seq[i] : i \in 1 .. k + 1} = {seq[i] : i \in 1 .. k} \cup {e}
        <3>1. 1 .. k + 1 = (1 .. k) \cup {k + 1}
            BY <2>1
        <3>2. QED
            BY <3>1
    <2> HIDE DEF x, y, e, l
    <2>5. CASE e \notin set
        <3>1. y = x
            BY <2>3, <2>5
        <3>2. {seq[i] : i \in 1 .. k + 1} \cap set = {seq[i] : i \in 1 .. k} \cap set
            BY <2>4, <2>5
        <3>3. \A i \in 1 .. Len(x) : x[i].rank \in 1 .. k + 1
            BY <2>1, <2>2 DEF InOrder
        <3>4. InOrder(x, k + 1, seq, set)
            BY <2>2, <3>2, <3>3 DEF InOrder
        <3>5. QED
            BY <2>1, <3>1, <3>4 DEF y
    <2>6. CASE e \in set
        <3>1. /\ Len(y) = l + 1 /\ y[l + 1] = e
              /\ \A i \in 1 .. l : y[i] = x[i]
            <4>1. /\ Append(x, e) \in Seq(E) /\ Len(Append(x, e)) = Len(x) + 1
                  /\ \A i \in 1 .. Len(x) : Append(x, e)[i] = x[i]
                  /\ Append(x, e)[Len(x) + 1] = e
                BY <2>2, <2>3, AppendProperties
            <4>2. y = Append(x, e)
                BY <2>3, <2>6
            <4>3. QED
                BY <4>1, <4>2 DEF l
        <3>2. 1 .. l + 1 = (1 .. l) \cup {l + 1}
            BY <2>2
        <3>3. {y[i] : i \in 1 .. l + 1} = {seq[i] : i \in 1 .. k + 1} \cap set
            <4>1. {y[i] : i \in 1 .. l + 1} = {x[i] : i \in 1 .. l} \cup {e}
                <5>1. {y[i] : i \in 1 .. l + 1} = {y[i] : i \in 1 .. l} \cup {y[l + 1]}
                    BY <3>2
                <5>2. {y[i] : i \in 1 .. l} = {x[i] : i \in 1 .. l}
                    BY <3>1
                <5>3. QED
                    BY <3>1, <5>1, <5>2
            <4>2. {x[i] : i \in 1 .. l} = {seq[i] : i \in 1 .. k} \cap set
                BY <2>2 DEF InOrder, l
            <4>3. QED
                BY <2>4, <2>6, <4>1, <4>2
        <3>4. \A i \in 1 .. l : x[i].rank \in 1 .. k
            BY <2>2 DEF InOrder, l
        <3>5. \A i \in 1 .. l + 1 : y[i].rank \in 1 .. k + 1
            <4>1. ASSUME NEW i \in 1 .. l + 1 PROVE y[i].rank \in 1 .. k + 1
                <5>1. CASE i \in 1 .. l
                    <6>1. y[i] = x[i] /\ x[i].rank \in 1 .. k
                        BY <3>1, <3>4, <5>1
                    <6>2. QED
                        BY <2>1, <6>1
                <5>2. CASE i = l + 1
                    BY <2>1, <2>3, <3>1, <5>2
                <5>3. QED
                    BY <3>2, <5>1, <5>2
            <4>2. QED
                BY <4>1
        <3>6. ASSUME NEW i \in 1 .. l + 1, NEW j \in 1 .. l + 1, i < j
              PROVE  y[i].rank < y[j].rank
            <4>1. i \in 1 .. l
                BY <2>2, <3>6
            <4>2. y[i] = x[i] /\ x[i].rank \in 1 .. k
                BY <3>1, <3>4, <4>1
            <4>3. CASE j \in 1 .. l
                <5>1. y[j] = x[j] /\ x[i].rank < x[j].rank
                    BY <2>2, <3>1, <3>6, <4>1, <4>3 DEF InOrder, l
                <5>2. QED
                    BY <4>2, <5>1
            <4>4. CASE j = l + 1
                BY <2>1, <2>3, <3>1, <4>2, <4>4
            <4>5. QED
                BY <3>2, <4>3, <4>4
        <3>7. InOrder(y, k + 1, seq, set)
            BY <3>1, <3>3, <3>5, <3>6 DEF InOrder
        <3>8. QED
            BY <2>1, <3>7 DEF y
    <2>7. QED
        BY <2>5, <2>6
<1>6. \A k \in 0 .. n : k \in P
    <2> HIDE DEF P
    <2>1. QED  BY <1>1, <1>4, <1>5, UpTo
<1>7. InOrder(kept, n, seq, set) /\ kept \in Seq(E)
    <2>1. n \in 0 .. n
        BY <1>1
    <2>2. QED
        BY <1>3, <1>6, <2>1
<1>8. DOMAIN kept = 1 .. Len(kept)
    BY <1>7, LenProperties
<1>9. ToSet(kept) = ToSet(seq) \cap set
    BY <1>1, <1>7, <1>8 DEF InOrder, ToSet
<1>10. QED
    BY <1>7, <1>8, <1>9 DEF InOrder, kept

\* What is shown of a page's results are those that are not hidden, with their ranks.
LEMMA ShownIs ==
    ASSUME NEW E, NEW parsed \in Seq(E), \A i \in DOMAIN parsed : parsed[i].rank = i,
           NEW blocked, NEW site
    PROVE  LET shown == Shown(parsed, blocked, site)
           IN  /\ shown \in Seq(E)
               /\ ToSet(shown) = {item \in ToSet(parsed) :
                                     ~ Hidden(item.url, BlockedFor(blocked, site))}
               /\ \A i, j \in DOMAIN shown : i < j => shown[i].rank < shown[j].rank
<1> DEFINE set == {item \in ToSet(parsed) : ~ Hidden(item.url, BlockedFor(blocked, site))}
<1>1. Shown(parsed, blocked, site) = Among(parsed, set)
    BY DEF Shown
<1>2. set \subseteq ToSet(parsed)
    OBVIOUS
<1> HIDE DEF set
<1>3. /\ Among(parsed, set) \in Seq(E) /\ ToSet(Among(parsed, set)) = ToSet(parsed) \cap set
      /\ \A i, j \in DOMAIN Among(parsed, set) :
            i < j => Among(parsed, set)[i].rank < Among(parsed, set)[j].rank
    BY AmongRanked
<1>4. ToSet(Among(parsed, set)) = set
    BY <1>2, <1>3
<1>5. QED
    BY <1>1, <1>3, <1>4 DEF set
===============================================================================
