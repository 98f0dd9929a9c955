-------------------------- MODULE QuerySummaryProofs --------------------------
(***************************************************************************)
(* What a model is sent, when it is sent again and what becomes of its     *)
(* answer, for any ChatRequest, any keys a provider may refuse and any     *)
(* answers; and before that what is shown of a page, where the characters  *)
(* of the text come from and how it is cut, for any page, any documents,   *)
(* any person and any query.                                               *)
(***************************************************************************)
EXTENDS QuerySummary, PageProofs

\* Before a body is sent there is nothing to note and no outcome but the end of the query;
\* an OpenAI-compatible provider is sent a body once more without one key of it that it does
\* not take.
Sent ==
    /\ posts = <<>> => outcome \notin {"refused", "answered"} /\ stage # "retrying"
    /\ posts # <<>> => stage \in {"retrying", "ended"}
    /\ stage = "retrying" => Len(posts) = 1 /\ outcome \notin {"refused", "answered"}
                             /\ chat.adapter # "anthropic"
    /\ Len(posts) = 1 => /\ posts = <<Body(chat.adapter, chat.model, chat.ask)>>
                         /\ notes = Notes(chat.adapter, chat.model, chat.ask)
    /\ posts # <<>> /\ Len(posts) # 1 =>
          \E key \in refuses \cap Keys(Body(chat.adapter, chat.model, chat.ask)) :
              /\ posts = <<Body(chat.adapter, chat.model, chat.ask),
                           Without(Body(chat.adapter, chat.model, chat.ask), key)>>
              /\ notes = Notes(chat.adapter, chat.model, chat.ask) \cup {key}

\* A refusal that is not retried is Anthropic's, or names another key than the first.
RefusedTwice ==
    outcome = "refused" /\ chat.adapter # "anthropic" =>
        \E key, other \in refuses \cap Keys(Body(chat.adapter, chat.model, chat.ask)) : key # other

\* A model is asked what is a ChatRequest, by a provider that serves it.
Asked ==
    stage \in {"cut", "posting", "retrying"} \/ posts # <<>> =>
        /\ chat = [adapter |-> chat.adapter, model |-> chat.model, window |-> chat.window,
                   ask |-> chat.ask]
        /\ [adapter |-> chat.adapter, model |-> chat.model] \in Served
        /\ chat.ask \in ChatRequest

\* What is replied is read off an answer.
Settled ==
    reply # None => \E answer \in Replies :
        reply = [answer |-> answer, summary |-> ParsedReply(answer)]

IInv == Sent /\ RefusedTwice /\ Asked /\ Settled

-------------------------------------------------------------------------------
\* The body of any model is a function of the keys.
LEMMA BodyDomain ==
    ASSUME NEW adapter, NEW model, NEW ask
    PROVE  DOMAIN Body(adapter, model, ask) = Key
BY DEF Body, AnthropicBody, OpenAIBody

\* A chat is with a provider that serves the model.
LEMMA ChatIs ==
    ASSUME NEW choice \in Served, NEW window, NEW ask
    PROVE  LET one == ChatOf(choice, window, ask)
           IN  /\ one.adapter = choice.adapter /\ one.model = choice.model
               /\ one.window = window /\ one.ask = ask
               /\ one = [adapter |-> one.adapter, model |-> one.model, window |-> one.window,
                         ask |-> one.ask]
               /\ [adapter |-> one.adapter, model |-> one.model] \in Served
               /\ one.model \in Family
BY DEF ChatOf, Served

\* Only a key the provider does not take, and that is in the body, is named.
LEMMA NamedKeys ==
    ASSUME NEW body
    PROVE  Named(body) \subseteq refuses \cap Keys(body)
BY DEF Named, Offender, Keys

\* What a retried body still has was in the body, and is not the key that was named.
LEMMA WithoutKeys ==
    ASSUME NEW body, DOMAIN body = Key, NEW key \in Key
    PROVE  /\ Without(body, key) = [k \in Key |-> IF k = key THEN Absent ELSE body[k]]
           /\ Keys(Without(body, key)) = Keys(body) \ {key}
BY DEF Without, Keys

\* A pair is what appending to a sequence of one makes.
LEMMA AppendPair ==
    ASSUME NEW a, NEW b
    PROVE  Append(<<a>>, b) = <<a, b>>
<1> DEFINE S == {a, b}
<1>1. <<a>> \in Seq(S) /\ b \in S /\ <<a, b>> \in Seq(S)
    OBVIOUS
<1>2. Append(<<a>>, b) \in Seq(S) /\ Len(Append(<<a>>, b)) = 2 /\ Len(<<a, b>>) = 2
    BY <1>1
<1>3. Append(<<a>>, b)[1] = a /\ Append(<<a>>, b)[2] = b
    BY <1>1
<1> HIDE DEF S
<1>4. \A i \in 1 .. 2 : Append(<<a>>, b)[i] = <<a, b>>[i]
    BY <1>3
<1>5. QED
    BY <1>1, <1>2, <1>4, SeqEqual

-------------------------------------------------------------------------------
LEMMA InitIInv == Init => IInv
<1>1. SUFFICES ASSUME Init PROVE IInv
    OBVIOUS
<1>2. posts = <<>> /\ outcome = None /\ reply = None /\ stage \in {"searching", "posting"}
    BY <1>1 DEF Init
<1>3. stage = "posting" =>
         \E choice \in Served, ask \in OtherAsks : chat = ChatOf(choice, None, ask)
    BY <1>1 DEF Init
<1>4. None \notin {"refused", "answered"} /\ OtherAsks \subseteq ChatRequest
    BY QuerySummaryAssumption
<1>5. Asked
    BY <1>2, <1>3, <1>4, ChatIs DEF Asked
<1>6. QED
    BY <1>2, <1>4, <1>5 DEF IInv, Sent, RefusedTwice, Settled

\* Until a body is sent, nothing is said of one.
LEMMA BeforeIInv ==
    ASSUME IInv, Search \/ Enrich \/ Cut \/ Ask \/ \E i \in wanted : Fetch(i)
    PROVE  IInv'
<1>1. stage \notin {"retrying", "ended"} /\ UNCHANGED <<posts, notes>>
    BY DEF Search, Enrich, Cut, Ask, Fetch
<1>2. posts = <<>>
    BY <1>1 DEF IInv, Sent
<1>3. /\ stage' # "retrying"
      /\ outcome' \in {outcome, "blocked", "no_results", "empty"}
    BY <1>1 DEF Search, Enrich, Cut, Ask, Fetch, End
<1>4. outcome \notin {"refused", "answered"}
    BY <1>2 DEF IInv, Sent
<1>5. Asked'
    <2>1. CASE Cut
        <3>1. PICK choice \in Models, window \in Windows :
                 chat' = ChatOf(choice, window, SummaryAsk)
            BY <2>1 DEF Cut
        <3>2. choice \in Served
            BY QuerySummaryAssumption
        <3>3. SummaryAsk \in ChatRequest
            BY DEF SummaryAsk, ChatRequest
        <3>4. QED
            BY <3>1, <3>2, <3>3, ChatIs DEF Asked
    <2>2. CASE Ask
        <3>1. stage = "cut" /\ chat' = [chat EXCEPT !.window = None]
            BY <2>2 DEF Ask
        <3>2. /\ chat = [adapter |-> chat.adapter, model |-> chat.model,
                         window |-> chat.window, ask |-> chat.ask]
              /\ [adapter |-> chat.adapter, model |-> chat.model] \in Served
              /\ chat.ask \in ChatRequest
            BY <3>1 DEF IInv, Asked
        <3>3. chat' = [adapter |-> chat.adapter, model |-> chat.model, window |-> None,
                       ask |-> chat.ask]
            BY <3>1, <3>2
        <3>4. /\ chat'.adapter = chat.adapter /\ chat'.model = chat.model
              /\ chat'.window = None /\ chat'.ask = chat.ask
            BY <3>3
        <3>5. QED
            BY <3>2, <3>3, <3>4 DEF Asked
    <2>3. CASE Search \/ Enrich \/ \E i \in wanted : Fetch(i)
        <3>1. stage' \notin {"cut", "posting", "retrying"}
            BY <2>3 DEF Search, Enrich, Fetch, End
        <3>2. QED
            BY <1>1, <1>2, <3>1 DEF Asked
    <2>4. QED
        BY <2>1, <2>2, <2>3
<1>6. reply' = reply
    BY DEF Search, Enrich, Cut, Ask, Fetch
<1>7. Sent' /\ RefusedTwice'
    BY <1>1, <1>2, <1>3, <1>4 DEF Sent, RefusedTwice
<1>8. QED
    BY <1>5, <1>6, <1>7 DEF IInv, Settled

\* What a provider that does not refuse the body leaves.
LEMMA SettleEnds ==
    ASSUME NEW body, Settle(body)
    PROVE  /\ stage' = "ended" /\ outcome' # "refused"
           /\ reply' = reply \/ \E answer \in Replies :
                  reply' = [answer |-> answer, summary |-> ParsedReply(answer)]
BY DEF Settle, End, Trouble

LEMMA PostIInv ==
    ASSUME IInv, Post
    PROVE  IInv'
<1> DEFINE body == Body(chat.adapter, chat.model, chat.ask)
<1>1. /\ stage = "posting" /\ posts' = <<body>>
      /\ notes' = Notes(chat.adapter, chat.model, chat.ask)
      /\ UNCHANGED <<chat, refuses>>
    BY DEF Post
<1>2. /\ stage' \in {"retrying", "ended"}
      /\ stage' = "retrying" => outcome' = outcome /\ chat.adapter # "anthropic"
      /\ outcome' = "refused" => chat.adapter = "anthropic"
    <2>1. CASE Settle(body)
        BY <2>1, SettleEnds
    <2>2. CASE IF chat.adapter = "anthropic" THEN End("refused")
               ELSE stage' = "retrying" /\ UNCHANGED outcome
        BY <1>1, <2>2 DEF End, IInv, Sent
    <2>3. QED
        BY <2>1, <2>2 DEF Post
<1>3. posts = <<>>
    BY <1>1 DEF IInv, Sent
<1>4. outcome \notin {"refused", "answered"}
    BY <1>3 DEF IInv, Sent
<1> HIDE DEF body
<1>5. posts' # <<>> /\ Len(posts') = 1
    BY <1>1
<1>6. Sent'
    BY <1>1, <1>2, <1>4, <1>5 DEF Sent, body
<1>7. RefusedTwice'
    BY <1>1, <1>2 DEF RefusedTwice
<1>8. Asked'
    BY <1>1, <1>3 DEF IInv, Asked
<1>9. Settled'
    <2>1. reply' = reply \/ \E answer \in Replies :
              reply' = [answer |-> answer, summary |-> ParsedReply(answer)]
        BY SettleEnds DEF Post
    <2>2. QED
        BY <2>1 DEF IInv, Settled
<1>10. QED
    BY <1>6, <1>7, <1>8, <1>9 DEF IInv

LEMMA RetryIInv ==
    ASSUME IInv, Retry
    PROVE  IInv'
<1> DEFINE first == Body(chat.adapter, chat.model, chat.ask)
<1>1. /\ stage = "retrying" /\ UNCHANGED <<chat, refuses>>
    BY DEF Retry
<1>2. posts = <<first>> /\ posts[1] = first /\ notes = Notes(chat.adapter, chat.model, chat.ask)
    BY <1>1 DEF IInv, Sent
<1>3. PICK key \in Named(first) :
         LET body == Without(first, key)
         IN  /\ posts' = Append(posts, body)
             /\ notes' = notes \cup {key}
             /\ \/ Settle(body)
                \/ Named(body) # {} /\ End("refused") /\ UNCHANGED reply
    BY <1>2 DEF Retry
<1> DEFINE second == Without(first, key)
<1>4. key \in refuses \cap Keys(first) /\ key \in Key
    BY NamedKeys DEF Keys
<1> HIDE DEF first
<1>5. posts' = <<first, second>> /\ notes' = Notes(chat.adapter, chat.model, chat.ask) \cup {key}
    <2>1. posts' = Append(posts, second) /\ notes' = notes \cup {key}
        BY <1>3
    <2> HIDE DEF second
    <2>2. Append(<<first>>, second) = <<first, second>>
        BY AppendPair
    <2>3. QED
        BY <1>2, <2>1, <2>2
<1>6. stage' = "ended" /\ (outcome' = "refused" => Named(second) # {})
    BY <1>3, SettleEnds DEF End
<1>7. outcome' = "refused" => \E other \in refuses \cap Keys(first) : other # key
    <2>1. Named(second) \subseteq refuses \cap (Keys(first) \ {key})
        BY <1>4, BodyDomain, NamedKeys, WithoutKeys DEF first
    <2>2. QED
        BY <1>6, <2>1
<1> HIDE DEF second
<1>8. posts' # <<>> /\ Len(posts') # 1
    BY <1>5
<1>9. Sent'
    BY <1>1, <1>4, <1>5, <1>6, <1>8 DEF Sent, first, second
<1>10. RefusedTwice'
    BY <1>1, <1>4, <1>7 DEF RefusedTwice, first
<1>11. Asked'
    BY <1>1, <1>2 DEF IInv, Asked
<1>12. Settled'
    <2>1. reply' = reply \/ \E answer \in Replies :
              reply' = [answer |-> answer, summary |-> ParsedReply(answer)]
        BY <1>3, SettleEnds
    <2>2. QED
        BY <2>1 DEF IInv, Settled
<1>13. QED
    BY <1>9, <1>10, <1>11, <1>12 DEF IInv

LEMMA NextIInv ==
    ASSUME IInv, [Next]_vars
    PROVE  IInv'
<1>1. CASE UNCHANGED vars
    BY <1>1 DEF IInv, Sent, RefusedTwice, Asked, Settled, vars
<1>2. QED
    BY <1>1, BeforeIInv, PostIInv, RetryIInv DEF Next

LEMMA AlwaysIInv == Spec => []IInv
<1>1. IInv /\ [Next]_vars => IInv'
    BY NextIInv
<1>2. QED
    BY <1>1, InitIInv, PTL DEF Spec

-------------------------------------------------------------------------------
LEMMA KeysFinite == IsFiniteSet(Key)
<1>1. \A a, b, c, d : IsFiniteSet({a, b, c, d})
    <2>1. SUFFICES ASSUME NEW a, NEW b, NEW c, NEW d
                   PROVE  IsFiniteSet({a, b, c, d})
        OBVIOUS
    <2>2. IsFiniteSet({a} \cup {b}) /\ IsFiniteSet({c} \cup {d})
        BY FS_Singleton, FS_Union
    <2>3. IsFiniteSet(({a} \cup {b}) \cup ({c} \cup {d}))
        BY <2>2, FS_Union
    <2>4. ({a} \cup {b}) \cup ({c} \cup {d}) = {a, b, c, d}
        OBVIOUS
    <2>5. QED
        BY <2>3, <2>4
<1> DEFINE A == {"model", "messages", "system", "max_tokens"}
           B == {"max_completion_tokens", "temperature", "response_format", "reasoning_effort"}
           C == {"thinking", "output_config", "enable_thinking", "model"}
<1>2. IsFiniteSet(A) /\ IsFiniteSet(B) /\ IsFiniteSet(C)
    BY <1>1
<1>3. Key = (A \cup B) \cup C
    BY DEF Key
<1> HIDE DEF A, B, C
<1>4. IsFiniteSet(A \cup B)
    BY <1>2, FS_Union
<1>5. QED
    BY <1>2, <1>3, <1>4, FS_Union

\* A set of keys that has two has more than one.
LEMMA TwoKeys ==
    ASSUME NEW S \in SUBSET Key, NEW a \in S, NEW b \in S, a # b
    PROVE  Cardinality(S) > 1
<1>1. IsFiniteSet(S)
    BY KeysFinite, FS_Subset
<1>2. Cardinality({a} \cup {b}) = 2
    <2>1. IsFiniteSet({a}) /\ Cardinality({a}) = 1
        BY FS_Singleton
    <2>2. Cardinality({a} \cup {b}) = Cardinality({a}) + 1
        BY <2>1, FS_AddElement
    <2>3. QED
        BY <2>1, <2>2
<1>3. Cardinality({a} \cup {b}) <= Cardinality(S)
    BY <1>1, FS_Subset
<1>4. Cardinality(S) \in Nat
    BY <1>1, FS_CardinalityType
<1>5. QED
    BY <1>2, <1>3, <1>4

\* A body is sent again at most once, for nothing but a key of it that the provider does not
\* take, and without that key alone; a provider that does not take one key of the body is
\* not what such a chat fails of (openai_compatible.py, OpenAICompatibleProvider.chat).
THEOREM AlwaysRetriedOnce == Spec => []RetriedOnceWithoutTheNamed
<1>1. IInv => RetriedOnceWithoutTheNamed
    <2>1. SUFFICES ASSUME IInv PROVE RetriedOnceWithoutTheNamed
        OBVIOUS
    <2> DEFINE first == Body(chat.adapter, chat.model, chat.ask)
    <2>2. CASE posts = <<>>
        BY <2>1, <2>2 DEF IInv, Sent, RetriedOnceWithoutTheNamed
    <2>3. ASSUME posts # <<>>, outcome = "refused", chat.adapter # "anthropic", posts[1] = first
          PROVE  Cardinality(refuses \cap Keys(posts[1])) > 1
        <3>1. PICK key, other \in refuses \cap Keys(first) : key # other
            BY <2>1, <2>3 DEF IInv, RefusedTwice
        <3>2. refuses \cap Keys(first) \subseteq Key
            BY DEF Keys
        <3>3. QED
            BY <2>3, <3>1, <3>2, TwoKeys
    <2>4. CASE posts # <<>> /\ Len(posts) = 1
        <3>1. posts[1] = first
            BY <2>1, <2>4 DEF IInv, Sent
        <3>2. QED
            BY <2>3, <2>4, <3>1 DEF RetriedOnceWithoutTheNamed
    <2>5. CASE posts # <<>> /\ Len(posts) # 1
        <3>1. PICK key \in refuses \cap Keys(first) : posts = <<first, Without(first, key)>>
            BY <2>1, <2>5 DEF IInv, Sent
        <3>2. key \in Key
            BY DEF Keys
        <3>3. Without(first, key) = [k \in Key |-> IF k = key THEN Absent ELSE first[k]]
            <4>1. DOMAIN first = Key
                BY BodyDomain
            <4> HIDE DEF first
            <4>2. QED
                BY <3>2, <4>1, WithoutKeys
        <3> HIDE DEF first
        <3> DEFINE second == Without(first, key)
        <3> HIDE DEF second
        <3>4. Len(<<first, second>>) = 2 /\ <<first, second>>[1] = first
                 /\ <<first, second>>[2] = second
            OBVIOUS
        <3>5. QED
            BY <2>3, <2>5, <3>1, <3>3, <3>4 DEF RetriedOnceWithoutTheNamed, second
    <2>6. QED
        BY <2>2, <2>4, <2>5
<1>2. QED
    BY <1>1, AlwaysIInv, PTL
-------------------------------------------------------------------------------
\* Two pairs after one another.
LEMMA PairsConcatenated ==
    ASSUME NEW a, NEW b, NEW c, NEW d
    PROVE  LET both == <<a, b>> \o <<c, d>>
           IN  Len(both) = 4 /\ both[1] = a /\ both[2] = b /\ both[3] = c /\ both[4] = d
<1> DEFINE S == {a, b, c, d}
<1>1. <<a, b>> \in Seq(S) /\ <<c, d>> \in Seq(S)
    OBVIOUS
<1>2. Len(<<a, b>>) = 2 /\ Len(<<c, d>>) = 2
    OBVIOUS
<1> HIDE DEF S
<1>3. QED
    BY <1>1, <1>2, ConcatProperties

\* Where something passes a test, it is found.
LEMMA FoundWhereItIs ==
    ASSUME NEW answer, NEW n \in 1 .. Len(Attempts(answer)), Len(Attempts(answer)) \in Nat,
           Attempts(answer)[n] = "summary"
    PROVE  SelectInSeq(Attempts(answer), LAMBDA text : text = "summary") # 0
<1> DEFINE I == {i \in 1 .. Len(Attempts(answer)) : Attempts(answer)[i] = "summary"}
<1>1. SelectInSeq(Attempts(answer), LAMBDA text : text = "summary") = IF I # {} THEN Min(I) ELSE 0
    BY DEF SelectInSeq
<1>2. I # {} /\ I \in SUBSET Nat /\ 0 \notin I
    OBVIOUS
<1> HIDE DEF I
<1>3. Min(I) \in I
    BY <1>2, FirstExists DEF Min
<1>4. QED
    BY <1>1, <1>2, <1>3

\* An answer is never lost: it gives a summary unless it is blank, and the one in its JSON
\* wherever in the answer that is (summarizer.py, parse_summary_payload).
THEOREM AlwaysReplyNotLost == Spec => []ReplyNotLost
<1>1. IInv => ReplyNotLost
    <2>1. SUFFICES ASSUME IInv, reply # None PROVE ReplyNotLost
        BY DEF ReplyNotLost
    <2>2. PICK answer \in Replies : reply = [answer |-> answer, summary |-> ParsedReply(answer)]
        BY <2>1 DEF IInv, Settled
    <2>3. reply.answer = answer /\ reply.summary = ParsedReply(answer)
        BY <2>2
    <2>4. /\ answer.blank \in BOOLEAN /\ answer.fenced \in BOOLEAN
          /\ answer.blank => ~ answer.fenced /\ answer.whole = "prose"
                             /\ answer.whole_object = "prose"
        BY QuerySummaryAssumption DEF Response
    <2>5. ParsedReply(answer) = "blank" <=> answer.blank
        BY <2>4 DEF ParsedReply
    <2>6. ASSUME \/ answer.fenced /\ "summary" \in {answer.fence, answer.fence_object}
                 \/ "summary" \in {answer.whole, answer.whole_object}
          PROVE  ParsedReply(answer) = "summary"
        <3>1. ~ answer.blank
            BY <2>4, <2>6
        <3>2. CASE answer.fenced
            <4>1. Attempts(answer) = <<answer.fence, answer.fence_object>>
                                         \o <<answer.whole, answer.whole_object>>
                BY <3>2 DEF Attempts
            <4>2. /\ Len(Attempts(answer)) = 4
                  /\ Attempts(answer)[1] = answer.fence
                  /\ Attempts(answer)[2] = answer.fence_object
                  /\ Attempts(answer)[3] = answer.whole
                  /\ Attempts(answer)[4] = answer.whole_object
                BY <4>1, PairsConcatenated
            <4>3. \E n \in 1 .. 4 : Attempts(answer)[n] = "summary"
                BY <2>6, <4>2
            <4>4. QED
                BY <3>1, <4>2, <4>3, FoundWhereItIs DEF ParsedReply
        <3>3. CASE ~ answer.fenced
            <4>1. Attempts(answer) = <<answer.whole, answer.whole_object>>
                BY <3>3 DEF Attempts
            <4>2. \E n \in 1 .. 2 : Attempts(answer)[n] = "summary"
                BY <2>6, <3>3, <4>1
            <4>3. QED
                BY <3>1, <4>1, <4>2, FoundWhereItIs DEF ParsedReply
        <3>4. QED
            BY <3>2, <3>3
    <2>7. QED
        BY <2>3, <2>5, <2>6 DEF ReplyNotLost
<1>2. QED
    BY <1>1, AlwaysIInv, PTL
-------------------------------------------------------------------------------
\* What is known of a model: its fields, and what is said of its limit and its style.
Shaped(has, limit, reasoning) ==
    /\ DOMAIN has = {"temperature", "json", "role", "limit", "reasoning", "window", "cap"}
    /\ has.window \in Nat \cup {Absent} /\ has.cap \in Nat \cup {Absent}
    /\ has.limit = limit /\ has.reasoning = reasoning

\* A model that takes a temperature, and one that does not.
Warm(has, limit, reasoning) == Shaped(has, limit, reasoning) /\ has.temperature = TRUE
Cold(has, limit, reasoning) == Shaped(has, limit, reasoning) /\ has.temperature = FALSE

\* Whatever is said of one is said of the other.
AsKnown(found, has) ==
    \A limit, reasoning :
        /\ Warm(found, limit, reasoning) => Warm(has, limit, reasoning)
        /\ Cold(found, limit, reasoning) => Cold(has, limit, reasoning)

\* What is usual takes a temperature.
LEMMA UsualWarm == Warm(Usual, "max_tokens", "none")
BY DEF Usual, Warm, Shaped

LEMMA SizedWarm ==
    ASSUME NEW window \in Nat, NEW cap \in Nat
    PROVE  Warm(Sized(window, cap), "max_tokens", "none")
BY UsualWarm DEF Sized, Warm, Shaped

\* What the rules change of a sized model.
Styled(has, style) == [has EXCEPT !.reasoning = style]
Prose(has) == [has EXCEPT !.json = FALSE]
ColdProse(has) == [has EXCEPT !.temperature = FALSE, !.json = FALSE]
ColdStyled(has, style) == [has EXCEPT !.temperature = FALSE, !.reasoning = style]
Completing(has) ==
    [has EXCEPT !.temperature = FALSE, !.limit = "max_completion_tokens", !.reasoning = "effort"]
Developing(has) ==
    [has EXCEPT !.temperature = FALSE, !.role = "developer", !.limit = "max_completion_tokens",
                !.reasoning = "effort"]

LEMMA WarmChanged ==
    ASSUME NEW has, Warm(has, "max_tokens", "none")
    PROVE  /\ \A style : Warm(Styled(has, style), "max_tokens", style)
           /\ Warm(Prose(has), "max_tokens", "none")
BY DEF Warm, Shaped, Styled, Prose

LEMMA CooledDown ==
    ASSUME NEW has, Warm(has, "max_tokens", "none")
    PROVE  /\ Cold(ColdProse(has), "max_tokens", "none")
           /\ \A style : Cold(ColdStyled(has, style), "max_tokens", style)
           /\ Cold(Completing(has), "max_completion_tokens", "effort")
           /\ Cold(Developing(has), "max_completion_tokens", "effort")
<1>1. Cold(ColdProse(has), "max_tokens", "none")
    BY DEF Warm, Cold, Shaped, ColdProse
<1>2. ASSUME NEW style PROVE Cold(ColdStyled(has, style), "max_tokens", style)
    BY DEF Warm, Cold, Shaped, ColdStyled
<1>3. Cold(Completing(has), "max_completion_tokens", "effort")
    BY DEF Warm, Cold, Shaped, Completing
<1>4. Cold(Developing(has), "max_completion_tokens", "effort")
    BY DEF Warm, Cold, Shaped, Developing
<1>5. QED
    BY <1>1, <1>2, <1>3, <1>4

LEMMA RuleHas ==
    ASSUME NEW pattern, NEW has
    PROVE  Rule(pattern, has).has = has /\ Rule(pattern, has).pattern = pattern
BY DEF Rule

\* What each rule says: the first three are of the models that think by themselves, the next
\* two of those with a thinking budget, the sixth and seventh of those with efforts.
LEMMA RulesKnown ==
    /\ DOMAIN Rules = 1 .. 19
    /\ \A i \in {1, 2, 3} : Cold(Rules[i].has, "max_tokens", "adaptive_thinking")
    /\ \A i \in {4, 5} : Warm(Rules[i].has, "max_tokens", "budget_tokens")
    /\ \A i \in {6, 7} : Cold(Rules[i].has, "max_completion_tokens", "effort")
    /\ \A i \in {8, 9, 10, 11, 13, 16, 17, 18, 19} :
          Warm(Rules[i].has, "max_tokens", "none")
    /\ Cold(Rules[12].has, "max_tokens", "none")
    /\ Warm(Rules[14].has, "max_tokens", "enable_thinking")
    /\ Warm(Rules[15].has, "max_tokens", "thinking_type")
<1>1. DOMAIN Rules = 1 .. 19
    BY SMT DEF Rules
<1>2. AdaptiveClaude = ColdStyled(Sized(1000000, 128000), "adaptive_thinking")
    BY SMT DEF AdaptiveClaude, ColdStyled
<1>3. \A i \in {1, 2, 3} : \E pattern : Rules[i] = Rule(pattern, AdaptiveClaude)
    BY SMT DEF Rules
<1>4. /\ Rules[4] = Rule({"claude-haiku-4-5"}, Styled(Sized(200000, 64000), "budget_tokens"))
      /\ Rules[5] = Rule(Claude, Styled(Sized(200000, 8192), "budget_tokens"))
    BY SMT DEF Rules, Styled
<1>5. /\ Rules[6] = Rule({"o3"}, Developing(Sized(200000, 100000)))
      /\ Rules[7] = Rule({"gpt-5"}, Completing(Sized(400000, 128000)))
    BY SMT DEF Rules, Developing, Completing
<1>6. /\ Rules[8] = Rule({"gpt-4o"}, Sized(128000, 16384))
      /\ Rules[9] = Rule({"gpt-4.1"}, Sized(1047576, 32768))
      /\ Rules[10] = Rule(GPT4, Sized(128000, 4096))
      /\ Rules[11] = Rule({"gpt-3.5"}, Sized(16385, 4096))
      /\ Rules[13] = Rule(DeepSeek, Sized(128000, 8192))
      /\ Rules[18] = Rule({"gemini"}, Sized(1000000, 8192))
      /\ Rules[19] = Rule({"llama"}, Sized(128000, 4096))
    BY SMT DEF Rules
<1>7. Rules[12] = Rule({"deepseek-reasoner", "vendor/deepseek-r1"},
                       ColdProse(Sized(128000, 8192)))
    BY SMT DEF Rules, ColdProse
<1>8. /\ Rules[14] = Rule({"qwen"}, Styled(Sized(131072, 8192), "enable_thinking"))
      /\ Rules[15] = Rule({"glm"}, Styled(Sized(128000, 8192), "thinking_type"))
    BY SMT DEF Rules, Styled
<1>9. /\ Rules[16] = Rule({"magistral"}, Prose(Sized(128000, 8192)))
      /\ Rules[17] = Rule({"sonar"}, Prose(Sized(128000, 4096)))
    BY SMT DEF Rules, Prose
<1>10. \A i \in {1, 2, 3} : Cold(Rules[i].has, "max_tokens", "adaptive_thinking")
    <2>1. Warm(Sized(1000000, 128000), "max_tokens", "none")
        BY SizedWarm, SMT
    <2>2. Cold(AdaptiveClaude, "max_tokens", "adaptive_thinking")
        BY <1>2, <2>1, CooledDown, SMT
    <2>3. QED
        BY <1>3, <2>2, RuleHas
<1>11. \A i \in {4, 5} : Warm(Rules[i].has, "max_tokens", "budget_tokens")
    <2>1. /\ Warm(Sized(200000, 64000), "max_tokens", "none")
          /\ Warm(Sized(200000, 8192), "max_tokens", "none")
        BY SizedWarm, SMT
    <2>2. Rules[4].has = Styled(Sized(200000, 64000), "budget_tokens")
        BY <1>4, RuleHas, SMT
    <2>3. Rules[5].has = Styled(Sized(200000, 8192), "budget_tokens")
        BY <1>4, RuleHas, SMT
    <2>4. QED
        BY <2>1, <2>2, <2>3, WarmChanged, SMT
<1>12. \A i \in {6, 7} : Cold(Rules[i].has, "max_completion_tokens", "effort")
    BY <1>5, RuleHas, SizedWarm, CooledDown, SMT
<1>13. \A i \in {8, 9, 10, 11, 13, 18, 19} : Warm(Rules[i].has, "max_tokens", "none")
    BY <1>6, RuleHas, SizedWarm, SMT
<1>14. Cold(Rules[12].has, "max_tokens", "none")
    BY <1>7, RuleHas, SizedWarm, CooledDown, SMT
<1>15. /\ Warm(Rules[14].has, "max_tokens", "enable_thinking")
       /\ Warm(Rules[15].has, "max_tokens", "thinking_type")
    <2>1. /\ Warm(Sized(131072, 8192), "max_tokens", "none")
          /\ Warm(Sized(128000, 8192), "max_tokens", "none")
        BY SizedWarm, SMT
    <2>2. Rules[14].has = Styled(Sized(131072, 8192), "enable_thinking")
        BY <1>8, RuleHas, SMT
    <2>3. Rules[15].has = Styled(Sized(128000, 8192), "thinking_type")
        BY <1>8, RuleHas, SMT
    <2>4. QED
        BY <2>1, <2>2, <2>3, WarmChanged, SMT
<1>16. \A i \in {16, 17} : Warm(Rules[i].has, "max_tokens", "none")
    BY <1>9, RuleHas, SizedWarm, WarmChanged, SMT
<1>17. QED
    BY <1>1, <1>10, <1>11, <1>12, <1>13, <1>14, <1>15, <1>16

\* Which models the rules are of, as far as what they say differs.
LEMMA RulePatterns ==
    /\ \A i \in 1 .. 5 : Rules[i].pattern \subseteq Claude
    /\ "claude-fable-5" \in Rules[1].pattern
    /\ "claude-opus-5" \in Rules[2].pattern
    /\ "claude-sonnet-5" \in Rules[3].pattern
    /\ Rules[6].pattern = {"o3"} /\ Rules[7].pattern = {"gpt-5"}
    /\ \A i \in 8 .. 11 : Rules[i].pattern \subseteq GPT4 \cup {"gpt-3.5"}
    /\ Rules[12].pattern = {"deepseek-reasoner", "vendor/deepseek-r1"}
BY SMT DEF Rules, Rule, Claude, GPT4

\* The first rule that matches a model's id decides; nothing is known of one without.
LEMMA FirstRule ==
    ASSUME NEW model
    PROVE  \/ /\ \A i \in 1 .. 19 : model \notin Rules[i].pattern
              /\ AsKnown(Unheard, Has(model))
           \/ \E i \in 1 .. 19 :
                 /\ model \in Rules[i].pattern
                 /\ \A j \in 1 .. 19 : model \in Rules[j].pattern => i <= j
                 /\ AsKnown(Rules[i].has, Has(model))
<1> DEFINE matching == {i \in DOMAIN Rules : model \in Rules[i].pattern}
           found == IF matching = {} THEN Unheard
                    ELSE Rules[CHOOSE i \in matching : \A j \in matching : i <= j].has
<1>1. Has(model) = [found EXCEPT !.window = IF Absent # Absent THEN Absent ELSE @,
                                 !.cap = IF Absent # Absent THEN Absent ELSE @]
    BY DEF Has, Capabilities
<1>2. AsKnown(found, Has(model))
    <2> HIDE DEF found
    <2>1. QED
        BY <1>1 DEF AsKnown, Warm, Cold, Shaped
<1>3. matching = {i \in 1 .. 19 : model \in Rules[i].pattern}
    BY RulesKnown
<1>4. CASE matching = {}
    BY <1>2, <1>3, <1>4
<1>5. CASE matching # {}
    <2> DEFINE first == CHOOSE i \in matching : \A j \in matching : i <= j
    <2>1. \E i \in matching : \A j \in matching : i <= j
        <3>1. matching \in SUBSET Nat
            BY <1>3
        <3> HIDE DEF matching
        <3>2. QED
            BY <1>5, <3>1, FirstExists
    <2>2. first \in matching /\ \A j \in matching : first <= j
        <3> HIDE DEF matching
        <3>1. QED
            BY <2>1
    <2>3. found = Rules[first].has
        BY <1>5
    <2> HIDE DEF first, found
    <2>4. first \in 1 .. 19 /\ model \in Rules[first].pattern
        BY <1>3, <2>2
    <2>5. \A j \in 1 .. 19 : model \in Rules[j].pattern => first <= j
        BY <1>3, <2>2
    <2>6. QED
        BY <1>2, <2>3, <2>4, <2>5
<1>6. QED
    BY <1>4, <1>5

Styles == {"none", "effort", "adaptive_thinking", "budget_tokens", "enable_thinking",
           "thinking_type"}

\* What the rules come to: which models take which limit, no temperature, a thinking budget.
LEMMA HasOfModel ==
    ASSUME NEW model \in Family
    PROVE  LET has == Has(model)
           IN  /\ "window" \in DOMAIN has
               /\ has.window \in Nat \cup {Absent} /\ has.cap \in Nat \cup {Absent}
               /\ has.limit = IF model \in {"o3", "gpt-5"} THEN "max_completion_tokens"
                              ELSE "max_tokens"
               /\ has.reasoning \in Styles
               /\ model \in NoTemperature => ~ has.temperature
               /\ has.reasoning = "budget_tokens" => model \in Claude \ NoBudget
<1> DEFINE has == Has(model)
<1>1. CASE /\ \A i \in 1 .. 19 : model \notin Rules[i].pattern
           /\ AsKnown(Unheard, has)
    <2>1. Warm(Unheard, "max_tokens", "none")
        BY UsualWarm, WarmChanged DEF Unheard, Prose
    <2>2. model \notin {"o3", "gpt-5"}
        BY <1>1, RulePatterns
    <2>3. model \notin NoTemperature
        BY <1>1, RulePatterns DEF NoTemperature
    <2>4. Warm(has, "max_tokens", "none")
        BY <1>1, <2>1 DEF AsKnown
    <2>5. QED
        BY <2>2, <2>3, <2>4 DEF Warm, Cold, Shaped, Styles
<1>2. CASE \E i \in 1 .. 19 :
              /\ model \in Rules[i].pattern
              /\ \A j \in 1 .. 19 : model \in Rules[j].pattern => i <= j
              /\ AsKnown(Rules[i].has, has)
    <2>1. PICK i \in 1 .. 19 :
              /\ model \in Rules[i].pattern
              /\ \A j \in 1 .. 19 : model \in Rules[j].pattern => i <= j
              /\ AsKnown(Rules[i].has, has)
        BY <1>2
    <2>2. /\ model = "claude-fable-5" => i <= 1
          /\ model = "claude-opus-5" => i <= 2
          /\ model = "claude-sonnet-5" => i <= 3
          /\ model = "o3" => i <= 6
          /\ model = "gpt-5" => i <= 7
          /\ model \in {"deepseek-reasoner", "vendor/deepseek-r1"} => i <= 12
        BY <2>1, RulePatterns
    <2>3. /\ i \in 1 .. 5 => model \in Claude
          /\ i = 6 => model = "o3"
          /\ i = 7 => model = "gpt-5"
          /\ i \in 8 .. 11 => model \in GPT4 \cup {"gpt-3.5"}
        BY <2>1, RulePatterns
    <2>4. CASE i \in {1, 2, 3}
        <3>1. Cold(has, "max_tokens", "adaptive_thinking")
            BY <2>1, <2>4, RulesKnown DEF AsKnown
        <3>2. model \notin {"o3", "gpt-5"}
            BY <2>3, <2>4 DEF Claude
        <3>3. QED
            BY <3>1, <3>2 DEF Warm, Cold, Shaped, Styles
    <2>5. CASE i \in {4, 5}
        <3>1. Warm(has, "max_tokens", "budget_tokens")
            BY <2>1, <2>5, RulesKnown DEF AsKnown
        <3>2. model \in Claude /\ model \notin NoBudget
            BY <2>2, <2>3, <2>5 DEF NoBudget
        <3>3. model \notin {"o3", "gpt-5"} /\ model \notin NoTemperature
            BY <3>2 DEF Claude, NoTemperature, NoBudget
        <3>4. QED
            BY <3>1, <3>2, <3>3 DEF Warm, Cold, Shaped, Styles
    <2>6. CASE i \in {6, 7}
        <3>1. Cold(has, "max_completion_tokens", "effort")
            BY <2>1, <2>6, RulesKnown DEF AsKnown
        <3>2. model \in {"o3", "gpt-5"}
            BY <2>3, <2>6
        <3>3. QED
            BY <3>1, <3>2 DEF Warm, Cold, Shaped, Styles
    <2>7. CASE i = 12
        <3>1. Cold(has, "max_tokens", "none")
            BY <2>1, <2>7, RulesKnown DEF AsKnown
        <3>2. model \notin {"o3", "gpt-5"}
            BY <2>2, <2>7
        <3>3. QED
            BY <3>1, <3>2 DEF Warm, Cold, Shaped, Styles
    <2>8. CASE i \notin {1, 2, 3, 4, 5, 6, 7, 12}
        <3>1. \/ Warm(has, "max_tokens", "none")
              \/ Warm(has, "max_tokens", "enable_thinking")
              \/ Warm(has, "max_tokens", "thinking_type")
            <4>1. \/ i \in {8, 9, 10, 11, 13, 16, 17, 18, 19}
                  \/ i = 14 \/ i = 15
                BY <2>8
            <4>2. \/ Warm(Rules[i].has, "max_tokens", "none")
                  \/ Warm(Rules[i].has, "max_tokens", "enable_thinking")
                  \/ Warm(Rules[i].has, "max_tokens", "thinking_type")
                BY <4>1, RulesKnown
            <4>3. QED
                BY <2>1, <4>2 DEF AsKnown
        <3>2. model \notin {"o3", "gpt-5"}
            BY <2>2, <2>8
        <3>3. model \notin NoTemperature
            BY <2>2, <2>3, <2>8 DEF NoTemperature, GPT4
        <3>4. QED
            BY <3>1, <3>2, <3>3 DEF Warm, Cold, Shaped, Styles
    <2>9. QED
        BY <2>4, <2>5, <2>6, <2>7, <2>8
<1>3. QED
    BY <1>1, <1>2, FirstRule

-------------------------------------------------------------------------------
LEMMA TokensSent ==
    ASSUME NEW model \in Family, NEW ask \in ChatRequest
    PROVE  /\ Clamped(ask.max_output_tokens, Has(model)) \in Nat
           /\ Clamped(ask.max_output_tokens, Has(model)) # Absent
<1>1. ask.max_output_tokens \in Nat
    BY DEF ChatRequest
<1>2. Has(model).cap \in Nat \cup {Absent}
    BY HasOfModel
<1>3. Clamped(ask.max_output_tokens, Has(model)) \in Nat
    BY <1>1, <1>2 DEF Clamped
<1>4. QED
    BY <1>3, AbsentAssumption

\* How hard to think has keys of its own, and a thinking budget is one that fits.
LEMMA ReasonedIs ==
    ASSUME NEW effort, NEW style, NEW tokens
    PROVE  /\ \A key \in {"temperature", "max_tokens", "max_completion_tokens"} :
                 Reasoned(key, effort, style, tokens) = Absent
           /\ LET thinking == Reasoned("thinking", effort, style, tokens)
              IN  thinking # Absent /\ thinking.budget # Absent =>
                     /\ effort # Absent /\ style = "budget_tokens" /\ Thinks(tokens)
                     /\ thinking.budget = Budget(tokens)
<1>1. \A key \in {"temperature", "max_tokens", "max_completion_tokens"} :
         Reasoned(key, effort, style, tokens) = Absent
    BY DEF Reasoned
<1>2. CASE effort = Absent
    BY <1>1, <1>2 DEF Reasoned
<1>3. CASE effort # Absent /\ style = "budget_tokens" /\ Thinks(tokens)
    <2>1. Reasoned("thinking", effort, style, tokens) = Thinking("enabled", Budget(tokens))
        BY <1>3 DEF Reasoned
    <2>2. Thinking("enabled", Budget(tokens)).budget = Budget(tokens)
        BY DEF Thinking
    <2>3. QED
        BY <1>1, <1>3, <2>1, <2>2
<1>4. CASE effort # Absent /\ ~ (style = "budget_tokens" /\ Thinks(tokens))
    <2>1. Reasoned("thinking", effort, style, tokens)
              \in {Absent, Thinking("adaptive", Absent), Thinking("enabled", Absent)}
        BY <1>4 DEF Reasoned
    <2>2. Thinking("adaptive", Absent).budget = Absent /\ Thinking("enabled", Absent).budget = Absent
        BY DEF Thinking
    <2>3. QED
        BY <1>1, <2>1, <2>2
<1>5. QED
    BY <1>2, <1>3, <1>4

\* What is said of how hard to think is sent or noted.
LEMMA ReasonedOrNoted ==
    ASSUME NEW effort \in OpenAIEfforts \cup {"max"}, NEW style, NEW tokens
    PROVE  \/ ReasoningNoted(effort, style)
           \/ \E key \in ReasoningKeys : Reasoned(key, effort, style, tokens) # Absent
<1>1. effort # Absent
    BY AbsentAssumption DEF OpenAIEfforts
<1>2. CASE style = "effort"
    <2>1. effort \in OpenAIEfforts => Reasoned("reasoning_effort", effort, style, tokens) = effort
        BY <1>1, <1>2 DEF Reasoned
    <2>2. QED
        BY <1>1, <1>2, <2>1 DEF ReasoningNoted, ReasoningKeys
<1>3. CASE style = "adaptive_thinking"
    <2>1. Reasoned("output_config", effort, style, tokens) = effort
        BY <1>1, <1>3 DEF Reasoned
    <2>2. QED
        BY <1>1, <2>1 DEF ReasoningKeys
<1>4. CASE style \notin {"effort", "adaptive_thinking"}
    BY <1>1, <1>4 DEF ReasoningNoted
<1>5. QED
    BY <1>2, <1>3, <1>4

LEMMA OpenAIFields ==
    ASSUME NEW model \in Family, NEW ask
    PROVE  LET has == Has(model)
               tokens == Clamped(ask.max_output_tokens, has)
               body == OpenAIBody(model, ask)
           IN  /\ body[has.limit] = tokens
               /\ \A key \in Limits : key # has.limit => body[key] = Absent
               /\ body["temperature"] = IF has.temperature THEN ask.temperature ELSE Absent
               /\ ask.json_mode /\ has.json => body["response_format"] = "json_object"
               /\ \A key \in ReasoningKeys :
                     body[key] = Reasoned(key, ask.effort, has.reasoning, tokens)
<1> DEFINE has == Has(model)
           tokens == Clamped(ask.max_output_tokens, has)
           body == OpenAIBody(model, ask)
<1>1. has.limit \in Limits
    BY HasOfModel DEF Limits
<1>2. \A key \in Key :
         body[key] =
            CASE key = "model" -> model
              [] key = "messages" -> has.role
              [] key = has.limit -> tokens
              [] key = "temperature" /\ has.temperature -> ask.temperature
              [] key = "response_format" /\ ask.json_mode /\ has.json -> "json_object"
              [] OTHER -> Reasoned(key, ask.effort, has.reasoning, tokens)
    BY DEF OpenAIBody
<1>3. Limits \subseteq Key /\ ReasoningKeys \subseteq Key
      /\ "temperature" \in Key /\ "response_format" \in Key
    BY DEF Limits, ReasoningKeys, Key
<1> HIDE DEF has, tokens, body
<1>4. body[has.limit] = tokens
    BY <1>1, <1>2, <1>3 DEF Limits
<1>5. ASSUME NEW key \in Limits, key # has.limit PROVE body[key] = Absent
    <2>1. body[key] = Reasoned(key, ask.effort, has.reasoning, tokens)
        BY <1>2, <1>3, <1>5 DEF Limits
    <2>2. QED
        BY <2>1, ReasonedIs DEF Limits
<1>6. body["temperature"] = IF has.temperature THEN ask.temperature ELSE Absent
    <2>1. body["temperature"] = IF has.temperature THEN ask.temperature
                                ELSE Reasoned("temperature", ask.effort, has.reasoning, tokens)
        BY <1>1, <1>2, <1>3 DEF Limits
    <2>2. QED
        BY <2>1, ReasonedIs
<1>7. ask.json_mode /\ has.json => body["response_format"] = "json_object"
    BY <1>1, <1>2, <1>3 DEF Limits
<1>8. ASSUME NEW key \in ReasoningKeys
      PROVE  body[key] = Reasoned(key, ask.effort, has.reasoning, tokens)
    BY <1>1, <1>2, <1>3 DEF Limits, ReasoningKeys
<1>9. QED
    BY <1>4, <1>5, <1>6, <1>7, <1>8 DEF has, tokens, body

LEMMA AnthropicFields ==
    ASSUME NEW model, NEW ask
    PROVE  LET has == Has(model)
               tokens == Clamped(ask.max_output_tokens, has)
               body == AnthropicBody(model, ask)
           IN  /\ body["max_tokens"] = tokens
               /\ body["max_completion_tokens"] = Absent
               /\ body["temperature"] =
                     IF ClaudeTemperature(model, ask) THEN ask.temperature ELSE Absent
               /\ \A key \in ReasoningKeys :
                     body[key] = Reasoned(key, ask.effort, ClaudeStyle(has), tokens)
<1> DEFINE has == Has(model)
           tokens == Clamped(ask.max_output_tokens, has)
           body == AnthropicBody(model, ask)
<1>1. \A key \in Key :
         body[key] =
            CASE key = "model" -> model
              [] key = "messages" -> "user"
              [] key = "system" -> "system"
              [] key = "max_tokens" -> tokens
              [] key = "temperature" /\ ClaudeTemperature(model, ask) -> ask.temperature
              [] OTHER -> Reasoned(key, ask.effort, ClaudeStyle(has), tokens)
    BY DEF AnthropicBody
<1>2. /\ "max_tokens" \in Key /\ "max_completion_tokens" \in Key /\ "temperature" \in Key
      /\ ReasoningKeys \subseteq Key
    BY DEF ReasoningKeys, Key
<1> HIDE DEF has, tokens, body
<1>3. body["max_tokens"] = tokens
    BY <1>1, <1>2
<1>4. body["max_completion_tokens"] = Absent
    BY <1>1, <1>2, ReasonedIs
<1>5. body["temperature"] = IF ClaudeTemperature(model, ask) THEN ask.temperature ELSE Absent
    BY <1>1, <1>2, ReasonedIs
<1>6. ASSUME NEW key \in ReasoningKeys
      PROVE  body[key] = Reasoned(key, ask.effort, ClaudeStyle(has), tokens)
    BY <1>1, <1>2 DEF ReasoningKeys
<1>7. QED
    BY <1>3, <1>4, <1>5, <1>6 DEF has, tokens, body
-------------------------------------------------------------------------------
\* What BodyAccepted says of a body.
Accepted(adapter, model, body) ==
    LET thinking == body["thinking"]
    IN  /\ Keys(body) \cap Limits =
               {IF model \in {"o3", "gpt-5"} THEN "max_completion_tokens" ELSE "max_tokens"}
        /\ model \in NoTemperature => body["temperature"] = Absent
        /\ thinking # Absent /\ thinking.budget # Absent =>
              /\ model \in Claude \ NoBudget
              /\ thinking.budget \in MinBudget .. body["max_tokens"] - 1
              /\ adapter = "anthropic" => body["temperature"] = Absent

\* The limit is the one key of Limits that a body has.
LEMMA OneLimit ==
    ASSUME NEW body, NEW limit \in Limits, body[limit] # Absent,
           \A key \in Limits : key # limit => body[key] = Absent
    PROVE  Keys(body) \cap Limits = {limit}
<1>1. Limits \subseteq Key
    BY DEF Limits, Key
<1>2. QED
    BY <1>1 DEF Keys

LEMMA BudgetFits ==
    ASSUME NEW tokens \in Nat, Thinks(tokens)
    PROVE  Budget(tokens) \in MinBudget .. tokens - 1
BY DEF Thinks, Budget, MinBudget

LEMMA OpenAIAccepted ==
    ASSUME NEW adapter, adapter # "anthropic", NEW model \in Family, NEW ask \in ChatRequest
    PROVE  Accepted(adapter, model, OpenAIBody(model, ask))
<1> DEFINE has == Has(model)
           tokens == Clamped(ask.max_output_tokens, has)
           body == OpenAIBody(model, ask)
<1>1. /\ body[has.limit] = tokens
      /\ \A key \in Limits : key # has.limit => body[key] = Absent
      /\ body["temperature"] = IF has.temperature THEN ask.temperature ELSE Absent
      /\ \A key \in ReasoningKeys :
            body[key] = Reasoned(key, ask.effort, has.reasoning, tokens)
    BY OpenAIFields
<1>2. /\ has.limit = IF model \in {"o3", "gpt-5"} THEN "max_completion_tokens"
                     ELSE "max_tokens"
      /\ model \in NoTemperature => ~ has.temperature
      /\ has.reasoning = "budget_tokens" => model \in Claude \ NoBudget
    BY HasOfModel
<1>3. tokens \in Nat /\ tokens # Absent
    BY TokensSent
<1>4. body["thinking"] = Reasoned("thinking", ask.effort, has.reasoning, tokens)
    BY <1>1 DEF ReasoningKeys
<1> HIDE DEF has, tokens, body
<1>5. Keys(body) \cap Limits = {has.limit}
    BY <1>1, <1>2, <1>3, OneLimit DEF Limits
<1>6. ASSUME body["thinking"] # Absent, body["thinking"].budget # Absent
      PROVE  /\ model \in Claude \ NoBudget
             /\ body["thinking"].budget \in MinBudget .. body["max_tokens"] - 1
    <2>1. /\ has.reasoning = "budget_tokens" /\ Thinks(tokens)
          /\ body["thinking"].budget = Budget(tokens)
        BY <1>4, <1>6, ReasonedIs
    <2>2. has.limit = "max_tokens"
        BY <1>2, <2>1 DEF Claude
    <2>3. body["thinking"].budget \in MinBudget .. body["max_tokens"] - 1
        BY <1>1, <1>3, <2>1, <2>2, BudgetFits
    <2>4. QED
        BY <1>2, <2>1, <2>3
<1>7. QED
    BY <1>1, <1>2, <1>5, <1>6 DEF Accepted, body

LEMMA AnthropicAccepted ==
    ASSUME NEW model \in Claude, NEW ask \in ChatRequest
    PROVE  Accepted("anthropic", model, AnthropicBody(model, ask))
<1> DEFINE has == Has(model)
           tokens == Clamped(ask.max_output_tokens, has)
           body == AnthropicBody(model, ask)
<1>1. model \in Family /\ model \notin {"o3", "gpt-5"}
    BY DEF Family, Claude
<1>2. /\ body["max_tokens"] = tokens /\ body["max_completion_tokens"] = Absent
      /\ body["temperature"] = IF ClaudeTemperature(model, ask) THEN ask.temperature ELSE Absent
      /\ \A key \in ReasoningKeys :
            body[key] = Reasoned(key, ask.effort, ClaudeStyle(has), tokens)
    BY AnthropicFields
<1>3. /\ model \in NoTemperature => ~ has.temperature
      /\ has.reasoning = "budget_tokens" => model \in Claude \ NoBudget
    BY <1>1, HasOfModel
<1>4. tokens \in Nat /\ tokens # Absent
    BY <1>1, TokensSent
<1>5. body["thinking"] = Reasoned("thinking", ask.effort, ClaudeStyle(has), tokens)
    BY <1>2 DEF ReasoningKeys
<1>6. ClaudeTemperature(model, ask) <=>
          /\ has.temperature
          /\ ~ (has.reasoning = "budget_tokens" /\ ask.effort # Absent /\ Thinks(tokens))
    BY DEF ClaudeTemperature, Extended
<1>7. ClaudeStyle(has) = "budget_tokens" => has.reasoning = "budget_tokens"
    BY DEF ClaudeStyle
<1> HIDE DEF has, tokens, body
<1>8. Keys(body) \cap Limits = {"max_tokens"}
    BY <1>2, <1>4, OneLimit DEF Limits
<1>9. ASSUME body["thinking"] # Absent, body["thinking"].budget # Absent
      PROVE  /\ model \in Claude \ NoBudget
             /\ body["thinking"].budget \in MinBudget .. body["max_tokens"] - 1
             /\ body["temperature"] = Absent
    <2>1. /\ ask.effort # Absent /\ ClaudeStyle(has) = "budget_tokens" /\ Thinks(tokens)
          /\ body["thinking"].budget = Budget(tokens)
        BY <1>5, <1>9, ReasonedIs
    <2>2. body["thinking"].budget \in MinBudget .. body["max_tokens"] - 1
        BY <1>2, <1>4, <2>1, BudgetFits
    <2>3. QED
        BY <1>2, <1>3, <1>6, <1>7, <2>1, <2>2
<1>10. model \in NoTemperature => body["temperature"] = Absent
    BY <1>2, <1>3, <1>6
<1>11. QED
    BY <1>1, <1>8, <1>9, <1>10 DEF Accepted, body

\* No model is sent what it is known to refuse, whatever was asked and whichever adapter
\* shapes the body: one limit and under the right name, no temperature where there is none,
\* and a thinking budget that is large enough and leaves room for the answer; Anthropic is
\* sent no temperature along with one, OpenAI-compatible providers may be (capabilities.py,
\* anthropic.py).
THEOREM AlwaysBodyAccepted == Spec => []BodyAccepted
<1>1. IInv => BodyAccepted
    <2>1. SUFFICES ASSUME IInv, posts # <<>> PROVE BodyAccepted
        BY DEF BodyAccepted
    <2> DEFINE first == Body(chat.adapter, chat.model, chat.ask)
    <2>2. /\ chat.model \in Family /\ chat.ask \in ChatRequest
          /\ chat.adapter = "anthropic" => chat.model \in Claude
        BY <2>1 DEF IInv, Asked, Served
    <2>3. posts[1] = first
        <3>1. posts = <<first>> \/ \E second : posts = <<first, second>>
            BY <2>1 DEF IInv, Sent
        <3> HIDE DEF first
        <3>2. QED
            BY <3>1
    <2>4. Accepted(chat.adapter, chat.model, first)
        BY <2>2, OpenAIAccepted, AnthropicAccepted DEF Body
    <2> HIDE DEF first
    <2>5. QED
        BY <2>3, <2>4 DEF Accepted, BodyAccepted
<1>2. QED
    BY <1>1, AlwaysIInv, PTL

-------------------------------------------------------------------------------
\* What IntentsKeptOrNoted says of a body and the notes that go with it.
Kept(adapter, ask, body, noted) ==
    LET kept(intent, keys) == Keys(body) \cap keys # {} \/ noted \cap (keys \cup {intent}) # {}
    IN  /\ ask.temperature # Absent => kept("temperature", {"temperature"})
        /\ ask.json_mode /\ adapter # "anthropic" => kept("json_mode", {"response_format"})
        /\ ask.effort # Absent => kept("effort", ReasoningKeys)
        /\ \/ \E key \in Limits : body[key] = ask.max_output_tokens
           \/ noted \cap (Limits \cup {"max_output_tokens"}) # {}

\* The key that is dropped for a retry is noted.
LEMMA KeptWithout ==
    ASSUME NEW adapter, NEW ask, NEW body, NEW noted, NEW key \in Key,
           DOMAIN body = Key, Kept(adapter, ask, body, noted)
    PROVE  Kept(adapter, ask, Without(body, key), noted \cup {key})
<1> DEFINE retried == Without(body, key)
           told == noted \cup {key}
<1>1. Keys(retried) = Keys(body) \ {key} /\ \A k \in Key : k # key => retried[k] = body[k]
    BY WithoutKeys DEF Without
<1> HIDE DEF retried
<1>2. ASSUME NEW intent, NEW keys,
             Keys(body) \cap keys # {} \/ noted \cap (keys \cup {intent}) # {}
      PROVE  Keys(retried) \cap keys # {} \/ told \cap (keys \cup {intent}) # {}
    BY <1>1, <1>2
<1>3. \/ \E k \in Limits : retried[k] = ask.max_output_tokens
      \/ told \cap (Limits \cup {"max_output_tokens"}) # {}
    <2>1. Limits \subseteq Key
        BY DEF Limits, Key
    <2>2. QED
        BY <1>1, <2>1 DEF Kept
<1>4. QED
    BY <1>2, <1>3 DEF Kept, retried

LEMMA OpenAIKept ==
    ASSUME NEW adapter, NEW model \in Family, NEW ask \in ChatRequest
    PROVE  Kept(adapter, ask, OpenAIBody(model, ask), OpenAINotes(model, ask))
<1> DEFINE has == Has(model)
           tokens == Clamped(ask.max_output_tokens, has)
           body == OpenAIBody(model, ask)
           noted == OpenAINotes(model, ask)
<1>1. /\ body[has.limit] = tokens
      /\ body["temperature"] = IF has.temperature THEN ask.temperature ELSE Absent
      /\ ask.json_mode /\ has.json => body["response_format"] = "json_object"
      /\ \A key \in ReasoningKeys :
            body[key] = Reasoned(key, ask.effort, has.reasoning, tokens)
    BY OpenAIFields
<1>2. has.limit \in Limits
    BY HasOfModel DEF Limits
<1>3. /\ tokens # ask.max_output_tokens => "max_output_tokens" \in noted
      /\ ask.temperature # Absent /\ ~ has.temperature => "temperature" \in noted
      /\ ask.json_mode /\ ~ has.json => "json_mode" \in noted
      /\ ReasoningNoted(ask.effort, has.reasoning) => "effort" \in noted
    BY DEF OpenAINotes
<1>4. /\ ReasoningKeys \subseteq Key /\ "temperature" \in Key /\ "response_format" \in Key
    BY DEF ReasoningKeys, Key
<1>5. ask.effort # Absent => ask.effort \in OpenAIEfforts \cup {"max"}
    BY DEF ChatRequest, OpenAIEfforts
<1> HIDE DEF has, tokens, body, noted
<1>6. ask.temperature # Absent => "temperature" \in Keys(body) \/ "temperature" \in noted
    BY <1>1, <1>3, <1>4 DEF Keys
<1>7. ask.json_mode => "response_format" \in Keys(body) \/ "json_mode" \in noted
    BY <1>1, <1>3, <1>4, AbsentAssumption DEF Keys
<1>8. ask.effort # Absent => Keys(body) \cap ReasoningKeys # {} \/ "effort" \in noted
    BY <1>1, <1>3, <1>4, <1>5, ReasonedOrNoted DEF Keys
<1>9. \/ \E key \in Limits : body[key] = ask.max_output_tokens
      \/ "max_output_tokens" \in noted
    BY <1>1, <1>2, <1>3
<1>10. QED
    BY <1>6, <1>7, <1>8, <1>9 DEF Kept, body, noted

LEMMA AnthropicKept ==
    ASSUME NEW model \in Claude, NEW ask \in ChatRequest
    PROVE  Kept("anthropic", ask, AnthropicBody(model, ask), AnthropicNotes(model, ask))
<1> DEFINE has == Has(model)
           tokens == Clamped(ask.max_output_tokens, has)
           body == AnthropicBody(model, ask)
           noted == AnthropicNotes(model, ask)
<1>1. /\ body["max_tokens"] = tokens
      /\ body["temperature"] = IF ClaudeTemperature(model, ask) THEN ask.temperature ELSE Absent
      /\ \A key \in ReasoningKeys :
            body[key] = Reasoned(key, ask.effort, ClaudeStyle(has), tokens)
    BY AnthropicFields
<1>2. /\ tokens # ask.max_output_tokens => "max_output_tokens" \in noted
      /\ ask.temperature # Absent /\ ~ ClaudeTemperature(model, ask) => "temperature" \in noted
      /\ ReasoningNoted(ask.effort, ClaudeStyle(has)) => "effort" \in noted
    BY DEF AnthropicNotes, ClaudeTemperature
<1>3. ReasoningKeys \subseteq Key /\ "temperature" \in Key
    BY DEF ReasoningKeys, Key
<1>4. ask.effort # Absent => ask.effort \in OpenAIEfforts \cup {"max"}
    BY DEF ChatRequest, OpenAIEfforts
<1> HIDE DEF has, tokens, body, noted
<1>5. ask.temperature # Absent => "temperature" \in Keys(body) \/ "temperature" \in noted
    BY <1>1, <1>2, <1>3 DEF Keys
<1>6. ask.effort # Absent => Keys(body) \cap ReasoningKeys # {} \/ "effort" \in noted
    BY <1>1, <1>2, <1>3, <1>4, ReasonedOrNoted DEF Keys
<1>7. \/ \E key \in Limits : body[key] = ask.max_output_tokens
      \/ "max_output_tokens" \in noted
    BY <1>1, <1>2 DEF Limits
<1>8. QED
    BY <1>5, <1>6, <1>7 DEF Kept, body, noted

\* Of the temperature, the effort and the length asked of any model, and of the JSON mode
\* asked of an OpenAI-compatible provider, nothing is missing from the body that was answered
\* without a note that says so, whichever key was dropped for a retry (capabilities.py,
\* anthropic.py, retry_body); nothing is said of the JSON mode asked of Anthropic.
THEOREM AlwaysIntentsKeptOrNoted == Spec => []IntentsKeptOrNoted
<1>1. IInv => IntentsKeptOrNoted
    <2>1. SUFFICES ASSUME IInv, outcome = "answered" PROVE IntentsKeptOrNoted
        BY DEF IntentsKeptOrNoted
    <2> DEFINE first == Body(chat.adapter, chat.model, chat.ask)
               noted == Notes(chat.adapter, chat.model, chat.ask)
    <2>2. posts # <<>>
        BY <2>1 DEF IInv, Sent
    <2>3. /\ chat.model \in Family /\ chat.ask \in ChatRequest
          /\ chat.adapter = "anthropic" => chat.model \in Claude
        BY <2>1, <2>2 DEF IInv, Asked, Served
    <2>4. Kept(chat.adapter, chat.ask, first, noted)
        BY <2>3, OpenAIKept, AnthropicKept DEF Body, Notes
    <2>5. Kept(chat.adapter, chat.ask, Last(posts), notes)
        <3>1. CASE posts = <<first>> /\ notes = noted
            <4> HIDE DEF first, noted
            <4>1. Last(posts) = first
                BY <3>1 DEF Last
            <4>2. QED
                BY <2>4, <3>1, <4>1
        <3>2. ASSUME NEW key \in Keys(first), posts = <<first, Without(first, key)>>,
                     notes = noted \cup {key}
              PROVE  Kept(chat.adapter, chat.ask, Last(posts), notes)
            <4> DEFINE second == Without(first, key)
            <4>1. key \in Key /\ DOMAIN first = Key
                BY BodyDomain DEF Keys
            <4>2. Kept(chat.adapter, chat.ask, second, notes)
                <5> HIDE DEF first, noted
                <5>1. QED
                    BY <2>4, <3>2, <4>1, KeptWithout
            <4> HIDE DEF first, second
            <4>3. Last(<<first, second>>) = second
                BY DEF Last
            <4>4. QED
                BY <3>2, <4>2, <4>3 DEF second
        <3>3. QED
            BY <2>1, <2>2, <3>1, <3>2 DEF IInv, Sent
    <2>6. QED
        BY <2>5 DEF Kept, IntentsKeptOrNoted
<1>2. QED
    BY <1>1, AlwaysIInv, PTL
-------------------------------------------------------------------------------
\* What a text is made of, and what is shown of a result.
Characters == [kind : Kind, of : Url \cup {None}, rank : Nat]
Item == [rank : Nat \ {0}, url : Url]

\* A text from one address, as the cleaner leaves it.
TextFrom(text, url) ==
    /\ text \in Seq(Characters) /\ text # <<>> /\ Proper(text)
    /\ \A i \in 1 .. Len(text) :
          text[i].rank = 0 /\ (~ White(text[i]) => text[i].of = url)

\* A query asks for some results, and the person's ceiling is a number.
Bounded ==
    stage \in {"searching", "parsed", "fetching", "cut"} =>
        query.max_results \in Nat \ {0} /\ query.ceiling \in Nat

Listing == stage \in {"parsed", "fetching", "cut"} => results \in Seq(Item)

\* What is known of the fetches that ended: every text is from the address of its result.
Fetching ==
    /\ stage \in {"searching", "parsed"} => fetched = <<>>
    /\ stage = "fetching" =>
          /\ results # <<>> /\ wanted \subseteq DOMAIN results
          /\ fetched \in Seq([page : DOMAIN results, text : Seq(Characters)])
          /\ \A n \in 1 .. Len(fetched) :
                \/ fetched[n].text = <<>>
                \/ TextFrom(fetched[n].text, results[fetched[n].page].url)

\* The text that is cut has the sections of the results.
Composed ==
    stage = "cut" =>
        /\ content \in Seq(Characters) /\ Cites(content, results, Len(results))
        /\ chat.model \in Family /\ chat.window \in Nat \cup {None}
        /\ bounded = Truncate(content, CharBudget(Capabilities(chat.model, chat.window, Absent).window,
                                                  query.ceiling))

TextIInv == Bounded /\ Listing /\ ResultsAsShown /\ Fetching /\ Composed

-------------------------------------------------------------------------------
\* What ResultsAsShown says of the results that are read off a page for a query.
AsShown(layouts, asked, shown) ==
    LET fruitful == {n \in DOMAIN layouts :
                        \E i \in DOMAIN layouts[n] : Found(layouts[n])[i] # None}
        urls == IF fruitful = {} THEN <<>> ELSE Found(layouts[Min(fruitful)])
        rank(i) == Cardinality({urls[j] : j \in 1 .. i} \ {None})
        expected == {[rank |-> rank(i), url |-> urls[i]] : i \in
                        {i \in DOMAIN urls :
                            /\ urls[i] # None
                            /\ \A j \in 1 .. i - 1 : urls[j] # urls[i]
                            /\ rank(i) <= asked.max_results
                            /\ HostOf[urls[i]] # None =>
                                  \A domain \in Within[HostOf[urls[i]]] \cap asked.blocked :
                                     asked.site # None /\ domain \in Within[asked.site]}}
    IN  /\ ToSet(shown) = expected
        /\ \A i, j \in DOMAIN shown : i < j => shown[i].rank < shown[j].rank

\* The address a container leads to, said in two ways.
LEMMA FoundIsAddresses ==
    ASSUME NEW layout
    PROVE  Found(layout) = Addresses(layout)
<1>1. ASSUME NEW i \in DOMAIN layout
      PROVE  (IF layout[i].via \in {"direct", "redirect"} /\ layout[i].title
              THEN layout[i].to ELSE None)
                 = IF IsResult(layout[i]) THEN Unwrap(layout[i]) ELSE None
    BY DEF IsResult, Unwrap
<1>2. QED
    BY <1>1 DEF Found, Addresses

\* A result is shown when no domain of it is blocked but those the query asks for.
LEMMA NotHidden ==
    ASSUME NEW url, NEW blocked, NEW site
    PROVE  ~ Hidden(url, BlockedFor(blocked, site)) <=>
               (HostOf[url] # None => \A domain \in Within[HostOf[url]] \cap blocked :
                                         site # None /\ domain \in Within[site])
BY DEF Hidden, BlockedFor

LEMMA ShownAsExpected ==
    ASSUME NEW layouts \in Seq(Seq(Container)), NEW asked, asked.max_results \in Nat \ {0}
    PROVE  LET shown == Shown(Parse(layouts, asked.max_results), asked.blocked, asked.site)
           IN  shown \in Seq(Item) /\ AsShown(layouts, asked, shown)
<1> DEFINE most == asked.max_results
           parsed == Parse(layouts, most)
           shown == Shown(parsed, asked.blocked, asked.site)
           u == Read(layouts)
           fruitful == {n \in DOMAIN layouts :
                           \E i \in DOMAIN layouts[n] : Found(layouts[n])[i] # None}
           urls == IF fruitful = {} THEN <<>> ELSE Found(layouts[Min(fruitful)])
           open(url) == HostOf[url] # None =>
                            \A domain \in Within[HostOf[url]] \cap asked.blocked :
                               asked.site # None /\ domain \in Within[asked.site]
<1>1. /\ parsed \in Seq([rank : Nat \ {0}, url : Url])
      /\ \A i \in DOMAIN parsed : parsed[i].rank = i
      /\ ToSet(parsed) = {[rank |-> RankAt(u, i), url |-> u[i]] :
                             i \in {i \in DOMAIN u : FirstAt(u, i) /\ RankAt(u, i) <= most}}
    <2>1. most \in Nat \ {0}
        OBVIOUS
    <2> HIDE DEF most
    <2>2. QED
        BY <2>1, ParseRanks
<1> HIDE DEF parsed
<1>2. /\ shown \in Seq(Item)
      /\ ToSet(shown) = {item \in ToSet(parsed) :
                            ~ Hidden(item.url, BlockedFor(asked.blocked, asked.site))}
      /\ \A i, j \in DOMAIN shown : i < j => shown[i].rank < shown[j].rank
    <2>1. parsed \in Seq(Item)
        BY <1>1 DEF Item
    <2>2. QED
        BY <1>1, <2>1, ShownIs
<1>3. urls = u
    <2>1. fruitful = Fruitful(layouts)
        BY FoundIsAddresses DEF Fruitful
    <2> HIDE DEF fruitful
    <2>2. QED
        BY <2>1, FoundIsAddresses DEF Read
<1>4. \A url : ~ Hidden(url, BlockedFor(asked.blocked, asked.site)) <=> open(url)
    BY NotHidden
<1> HIDE DEF open, u
<1>5. ToSet(shown) = {[rank |-> RankAt(u, i), url |-> u[i]] :
                          i \in {i \in DOMAIN u : FirstAt(u, i) /\ RankAt(u, i) <= most
                                                  /\ open(u[i])}}
    <2> HIDE DEF shown, most
    <2>1. QED
        BY <1>1, <1>2, <1>4
<1>6. ToSet(shown) = {[rank |-> RankAt(u, i), url |-> u[i]] :
                          i \in {i \in DOMAIN u :
                                    /\ u[i] # None
                                    /\ \A j \in 1 .. i - 1 : u[j] # u[i]
                                    /\ RankAt(u, i) <= most
                                    /\ open(u[i])}}
    <2> HIDE DEF shown, most
    <2>1. QED
        BY <1>5 DEF FirstAt
<1>7. \A i : RankAt(u, i) = Cardinality({u[j] : j \in 1 .. i} \ {None})
    BY DEF RankAt, Seen
<1> HIDE DEF shown
<1>8. AsShown(layouts, asked, shown)
    <2>1. ToSet(shown) = {[rank |-> Cardinality({u[j] : j \in 1 .. i} \ {None}), url |-> u[i]] :
                          i \in {i \in DOMAIN u :
                                    /\ u[i] # None
                                    /\ \A j \in 1 .. i - 1 : u[j] # u[i]
                                    /\ Cardinality({u[j] : j \in 1 .. i} \ {None}) <= most
                                    /\ open(u[i])}}
        BY <1>6 DEF RankAt, Seen
    <2>2. ToSet(shown) = {[rank |-> Cardinality({urls[j] : j \in 1 .. i} \ {None}),
                           url |-> urls[i]] :
                          i \in {i \in DOMAIN urls :
                                    /\ urls[i] # None
                                    /\ \A j \in 1 .. i - 1 : urls[j] # urls[i]
                                    /\ Cardinality({urls[j] : j \in 1 .. i} \ {None}) <= most
                                    /\ open(urls[i])}}
        <3> HIDE DEF urls
        <3>1. QED
            BY <1>3, <2>1
    <2> HIDE DEF urls
    <2>3. QED
        BY <1>2, <2>2 DEF AsShown, open, urls
<1>9. QED
    BY <1>2, <1>8 DEF shown, parsed

-------------------------------------------------------------------------------
\* Where a model's window is not reported, what is known of the model decides.
LEMMA WindowKnown ==
    ASSUME NEW model \in Family, NEW window \in Nat \cup {None}
    PROVE  Capabilities(model, window, Absent).window \in Nat \cup {None}
<1> DEFINE matching == {i \in DOMAIN Rules : model \in Rules[i].pattern}
           found == IF matching = {} THEN Unheard
                    ELSE Rules[CHOOSE i \in matching : \A j \in matching : i <= j].has
           known == Capabilities(model, window, Absent)
<1>1. /\ known = [found EXCEPT !.window = IF window # Absent THEN window ELSE @,
                               !.cap = IF Absent # Absent THEN Absent ELSE @]
      /\ Has(model) = [found EXCEPT !.window = IF Absent # Absent THEN Absent ELSE @,
                                    !.cap = IF Absent # Absent THEN Absent ELSE @]
    BY DEF Capabilities, Has
<1>2. "window" \in DOMAIN Has(model) /\ Has(model).window \in Nat \cup {Absent}
    BY HasOfModel
<1>3. Absent = None
    BY QuerySummaryAssumption
<1> HIDE DEF found, known
<1>4. "window" \in DOMAIN found
    BY <1>1, <1>2
<1>5. known.window = IF window # Absent THEN window ELSE found.window
    BY <1>1, <1>4
<1>6. Has(model).window = found.window
    BY <1>1, <1>4
<1>7. QED
    BY <1>2, <1>3, <1>5, <1>6 DEF known

\* There is room for no more characters than the ceiling, and never for less than none.
LEMMA BudgetCounts ==
    ASSUME NEW window \in Nat \cup {None}, NEW ceiling \in Nat
    PROVE  CharBudget(window, ceiling) \in Nat
<1>1. ReservedTokens \in Nat /\ CharsPerToken \in Nat \ {0}
    BY PageTextAssumption
<1>2. CASE window = None
    BY <1>2 DEF CharBudget
<1>3. CASE window # None
    <2>1. window \in Nat
        BY <1>3
    <2>2. ASSUME NEW usable \in Nat PROVE usable * CharsPerToken \in Nat
        BY <1>1
    <2>3. ~ (window - ReservedTokens <= 0) => window - ReservedTokens \in Nat
        BY <1>1, <2>1
    <2>4. QED
        BY <1>3, <2>2, <2>3 DEF CharBudget
<1>4. QED
    BY <1>2, <1>3

\* A snippet is a text of its result.
LEMMA SnippetFrom ==
    ASSUME NEW url \in Url
    PROVE  TextFrom(Snippet(url), url)
<1> DEFINE letter == Char("letter", url)
           text == Snippet(url)
<1>1. /\ letter \in Characters /\ Space \in Characters
      /\ letter.kind = "letter" /\ letter.rank = 0 /\ letter.of = url
      /\ Space.kind = "space" /\ Space.rank = 0
    BY DEF Characters, Char, Space, Kind
<1>2. ~ White(letter) /\ White(Space)
    BY <1>1 DEF White, Blank
<1>3. text = <<letter, Space, letter>>
    BY DEF Snippet
<1> HIDE DEF letter, text
<1>4. text \in Seq(Characters) /\ Len(text) = 3 /\ text # <<>>
    BY <1>1, <1>3
<1>5. text[1] = letter /\ text[2] = Space /\ text[3] = letter
    BY <1>1, <1>3
<1>6. \A i \in 1 .. 3 : i = 1 \/ i = 2 \/ i = 3
    OBVIOUS
<1>7. Tidy(text)
    <2>1. \A i \in 1 .. 3 : text[i].kind # "tab" /\ text[i].kind # "newline"
        BY <1>1, <1>5, <1>6
    <2>2. \A i \in 1 .. 2 : text[i].kind = "space" => i = 2
        BY <1>1, <1>5, <1>6
    <2>3. ~ White(text[2 + 1])
        BY <1>2, <1>5
    <2>4. \A i \in 1 .. 1 : text[i].kind # "newline" /\ i \in i .. i + 2
        BY <2>1
    <2>5. QED
        BY <1>4, <2>1, <2>2, <2>3, <2>4 DEF Tidy
<1>8. Proper(text)
    BY <1>2, <1>4, <1>5, <1>7 DEF Proper
<1>9. \A i \in 1 .. 3 : text[i].rank = 0 /\ (~ White(text[i]) => text[i].of = url)
    BY <1>1, <1>2, <1>5, <1>6
<1>10. QED
    BY <1>4, <1>8, <1>9 DEF TextFrom, text

\* What is extracted of a page is from the page's address.
LEMMA ExtractFrom ==
    ASSUME NEW document \in Seq(Seq(Seq(Kind))), NEW url \in Url,
           Extract(Drawn(document, url)) # <<>>
    PROVE  TextFrom(Extract(Drawn(document, url)), url)
<1> DEFINE S == {c \in [kind : Kind, of : {url, None}, rank : {0}] : ~ White(c) => c.of = url}
           drawn == Drawn(document, url)
           text == Extract(drawn)
<1>1. Space \in S /\ Newline \in S
    BY DEF Space, Newline, Char, Kind, White, Blank
<1>2. \A kind \in Kind : Char(kind, url) \in S
    BY DEF Char
<1>3. S \subseteq Characters
    BY DEF Characters
<1>4. \A c \in S : c.rank = 0 /\ (~ White(c) => c.of = url)
    OBVIOUS
<1> HIDE DEF S
<1>5. ASSUME NEW line \in Seq(Kind)
      PROVE  [i \in DOMAIN line |-> Char(line[i], url)] \in Seq(S)
    <2>1. Len(line) \in Nat /\ DOMAIN line = 1 .. Len(line) /\ \A i \in 1 .. Len(line) : line[i] \in Kind
        BY LenProperties, ElementOfSeq
    <2>2. [i \in DOMAIN line |-> Char(line[i], url)] \in [1 .. Len(line) -> S]
        BY <1>2, <2>1
    <2>3. QED
        BY <2>1, <2>2, FunctionIsSeq
<1>6. ASSUME NEW lines \in Seq(Seq(Kind))
      PROVE  [l \in DOMAIN lines |-> [i \in DOMAIN lines[l] |-> Char(lines[l][i], url)]]
                 \in Seq(Seq(S))
    <2>1. Len(lines) \in Nat /\ DOMAIN lines = 1 .. Len(lines)
        BY LenProperties
    <2>2. \A l \in 1 .. Len(lines) : lines[l] \in Seq(Kind)
        BY ElementOfSeq
    <2>3. [l \in DOMAIN lines |-> [i \in DOMAIN lines[l] |-> Char(lines[l][i], url)]]
              \in [1 .. Len(lines) -> Seq(S)]
        BY <1>5, <2>1, <2>2
    <2>4. QED
        BY <2>1, <2>3, FunctionIsSeq
<1>7. drawn \in Seq(Seq(Seq(S)))
    <2>1. Len(document) \in Nat /\ DOMAIN document = 1 .. Len(document)
        BY LenProperties
    <2>2. \A c \in 1 .. Len(document) : document[c] \in Seq(Seq(Kind))
        BY ElementOfSeq
    <2>3. drawn \in [1 .. Len(document) -> Seq(Seq(S))]
        BY <1>6, <2>1, <2>2 DEF Drawn
    <2> HIDE DEF drawn
    <2>4. QED
        BY <2>1, <2>3, FunctionIsSeq
<1> HIDE DEF drawn
<1>8. text \in Seq(S) /\ Proper(text)
    BY <1>1, <1>7, ExtractProper
<1>9. text # <<>>
    BY DEF drawn
<1> HIDE DEF text
<1>10. \A i \in 1 .. Len(text) : text[i] \in S
    BY <1>8, ElementOfSeq
<1>11. text \in Seq(Characters)
    <2>1. Len(text) \in Nat /\ DOMAIN text = 1 .. Len(text) /\ text = [i \in 1 .. Len(text) |-> text[i]]
        BY <1>8, LenProperties
    <2>2. text \in [1 .. Len(text) -> Characters]
        BY <1>3, <1>10, <2>1
    <2>3. QED
        BY <2>1, <2>2, FunctionIsSeq
<1>12. TextFrom(text, url)
    BY <1>4, <1>8, <1>9, <1>10, <1>11 DEF TextFrom
<1>13. QED
    BY <1>12 DEF text, drawn

\* Every section has its heading and what its result says.
LEMMA SectionFrom ==
    ASSUME NEW i, results[i] \in Item,
           i \in wanted => Gathered(i) = <<>> \/ TextFrom(Gathered(i), results[i].url)
    PROVE  Section(i) \in Seq(Characters) /\ SectionOf(Section(i), results[i])
<1> DEFINE item == results[i]
           head == Heading(item)
           body == Contents(i)
<1>1. item.url \in Url /\ item.rank \in Nat \ {0}
    BY DEF Item
<1>2. /\ head \in Characters /\ head.kind = "letter" /\ head.of = item.url
      /\ head.rank = item.rank
    BY <1>1 DEF Heading, Characters, Kind
<1>3. Newline \in Characters
    BY DEF Newline, Char, Characters, Kind
<1>4. TextFrom(body, item.url)
    BY <1>1, SnippetFrom DEF Contents
<1>5. ~ White(head) /\ head.kind # "tab"
    BY <1>2 DEF White, Blank
<1>6. Section(i) = <<head, Newline>> \o body
    BY DEF Section
<1> HIDE DEF item, head, body
<1>7. /\ body \in Seq(Characters) /\ body # <<>> /\ Proper(body)
      /\ \A k \in 1 .. Len(body) :
            body[k].rank = 0 /\ (~ White(body[k]) => body[k].of = item.url)
    BY <1>4 DEF TextFrom
<1>8. /\ <<head, Newline>> \o body \in Seq(Characters)
      /\ SectionOf(<<head, Newline>> \o body, item)
    BY <1>2, <1>3, <1>5, <1>7, HeadedSection
<1>9. QED
    BY <1>6, <1>8 DEF item

-------------------------------------------------------------------------------
\* The last heading at or above a character that is under one.
LEMMA LastHeading ==
    ASSUME NEW text, NEW n \in Nat, NEW i \in 1 .. n, UnderHeading(text, i)
    PROVE  text[i].of = text[Max({h \in {k \in 1 .. n : text[k].rank # 0} : h <= i})].of
<1> DEFINE above == {h \in {k \in 1 .. n : text[k].rank # 0} : h <= i}
<1>1. PICK h \in 1 .. i : /\ text[h].rank # 0
                          /\ \A k \in h + 1 .. i : text[k].rank = 0
                          /\ text[i].of = text[h].of
    BY DEF UnderHeading
<1>2. h \in above /\ above \in SUBSET (1 .. n)
    BY <1>1
<1>3. ASSUME NEW k \in above PROVE k <= h
    <2>1. k \in 1 .. i /\ text[k].rank # 0
        BY <1>3
    <2>2. ~ (k \in h + 1 .. i)
        BY <1>1, <2>1
    <2>3. QED
        BY <2>1, <2>2
<1> HIDE DEF above
<1>4. Max(above) \in above /\ \A k \in above : k <= Max(above)
    BY <1>2, LastExists
<1>5. Max(above) = h
    <2>1. Max(above) <= h
        BY <1>3, <1>4
    <2>2. h <= Max(above)
        BY <1>2, <1>4
    <2>3. \A k \in above : k \in 1 .. n
        BY <1>2
    <2>4. Max(above) \in 1 .. n
        BY <1>4, <2>3
    <2>5. h \in 1 .. n
        BY <1>2, <2>3
    <2>6. QED
        BY <2>1, <2>2, <2>4, <2>5
<1>6. QED
    BY <1>1, <1>5 DEF above

\* A text that cites the results shown is one whose citations match them.
LEMMA CitesMatch ==
    ASSUME NEW S, content \in Seq(S), results \in Seq(Item), Cites(content, results, Len(results))
    PROVE  CitationsMatchResults
<1>1. /\ Len(content) \in Nat /\ DOMAIN content = 1 .. Len(content)
      /\ DOMAIN results = 1 .. Len(results)
    BY LenProperties
<1>2. {i \in DOMAIN content : content[i].rank # 0} = Heads(content)
    BY <1>1 DEF Heads
<1>3. ToSet(results) = {results[i] : i \in 1 .. Len(results)}
    BY <1>1 DEF ToSet
<1>4. /\ {[rank |-> content[h].rank, url |-> content[h].of] : h \in Heads(content)}
             = {results[i] : i \in 1 .. Len(results)}
      /\ Cardinality(Heads(content)) = Len(results)
      /\ \A i \in 1 .. Len(content) : ~ White(content[i]) => UnderHeading(content, i)
    BY DEF Cites
<1>5. ASSUME NEW i \in DOMAIN content, ~ White(content[i])
      PROVE  content[i].of = content[Max({h \in Heads(content) : h <= i})].of
    <2>1. i \in 1 .. Len(content) /\ UnderHeading(content, i)
        BY <1>1, <1>4, <1>5
    <2>2. content[i].of
              = content[Max({h \in {k \in 1 .. Len(content) : content[k].rank # 0} : h <= i})].of
        BY <1>1, <2>1, LastHeading
    <2>3. QED
        BY <2>2 DEF Heads
<1>6. QED
    BY <1>2, <1>3, <1>4, <1>5 DEF CitationsMatchResults

\* A tidy text is cut at the edge.
LEMMA CutTidy ==
    ASSUME NEW S, NEW text \in Seq(S), Tidy(text), NEW limit \in Nat
    PROVE  LET cut == Truncate(text, limit)
           IN  /\ IsPrefix(cut.text, text)
               /\ Len(cut.text) <= limit
               /\ cut.text # text => cut.truncated
               /\ cut.truncated => Len(cut.text) >= (4 * limit) \div 5 - 2
<1> DEFINE cut == Truncate(text, limit)
<1>0. limit \in Int
    OBVIOUS
<1>1. PICK n \in 0 .. Len(text) : cut.text = SubSeq(text, 1, n) /\ (n > 0 => n <= limit)
    BY <1>0, TruncateKeepsABeginning
<1>2. (~ cut.truncated => cut.text = text) /\ (cut.truncated /\ limit > 0 => Len(text) > limit)
    BY <1>0, TruncateKeepsABeginning
<1>3. Len(text) \in Nat
    BY LenProperties
<1>4. /\ \A i \in 1 .. Len(text) : text[i].kind # "tab"
      /\ \A i \in 1 .. Len(text) - 3 : \E k \in i .. i + 3 : ~ White(text[k])
    BY FewWhites DEF Tidy
<1>5. cut.truncated /\ limit > 0 => Len(cut.text) >= (4 * limit) \div 5 - 2
    BY <1>2, <1>3, <1>4, TruncateLosesLittle
<1> HIDE DEF cut
<1>6. Len(cut.text) = n /\ Len(cut.text) \in Nat
    BY <1>1, <1>3, Beginning
<1>7. IsPrefix(cut.text, text)
    <2>1. SubSeq(cut.text, 1, Len(cut.text)) = SubSeq(text, 1, n)
        <3>1. SubSeq(SubSeq(text, 1, n), 1, n) = SubSeq(text, 1, n)
            BY <1>3, BeginningOfBeginning
        <3>2. QED
            BY <1>1, <1>6, <3>1
    <2>2. QED
        BY <1>3, <1>6, <2>1 DEF IsPrefix
<1>8. limit = 0 => Len(cut.text) >= (4 * limit) \div 5 - 2
    BY <1>6
<1>9. cut.truncated => Len(cut.text) >= (4 * limit) \div 5 - 2
    BY <1>5, <1>8
<1>10. Len(cut.text) <= limit
    BY <1>1, <1>6
<1>11. QED
    BY <1>2, <1>7, <1>9, <1>10 DEF cut

\* While a query is under way its texts and their parts are what they should be.
LEMMA ComposedCut ==
    ASSUME TextIInv
    PROVE  CutAtTheEdge
<1>1. SUFFICES ASSUME stage = "cut" PROVE CutAtTheEdge
    BY DEF CutAtTheEdge
<1> DEFINE window == Capabilities(chat.model, chat.window, Absent).window
           limit == CharBudget(window, query.ceiling)
<1>2. /\ content \in Seq(Characters) /\ Cites(content, results, Len(results))
      /\ chat.model \in Family /\ chat.window \in Nat \cup {None}
      /\ bounded = Truncate(content, limit)
    BY <1>1 DEF TextIInv, Composed
<1>3. window \in Nat \cup {None}
    BY <1>2, WindowKnown
<1>4. query.ceiling \in Nat
    BY <1>1 DEF TextIInv, Bounded
<1> HIDE DEF window
<1>5. limit \in Nat
    BY <1>3, <1>4, BudgetCounts
<1> HIDE DEF limit
<1>6. Tidy(content)
    BY <1>2 DEF Cites, Proper
<1>7. /\ IsPrefix(bounded.text, content)
      /\ Len(bounded.text) <= limit
      /\ bounded.text # content => bounded.truncated
      /\ bounded.truncated => Len(bounded.text) >= (4 * limit) \div 5 - 2
    BY <1>2, <1>5, <1>6, CutTidy
<1>8. QED
    BY <1>7 DEF CutAtTheEdge, limit, window

-------------------------------------------------------------------------------
LEMMA InitText == Init => TextIInv
<1>1. SUFFICES ASSUME Init PROVE TextIInv
    OBVIOUS
<1>2. stage \in {"searching", "posting"}
    BY <1>1 DEF Init
<1>3. stage = "searching" => query.max_results \in Nat \ {0} /\ query.ceiling \in Nat
    <2>1. SUFFICES ASSUME stage = "searching"
                   PROVE  query.max_results \in Nat \ {0} /\ query.ceiling \in Nat
        OBVIOUS
    <2>2. PICK asked \in Queries, person \in Persons, blocked \in Blocked :
             query = QueryFor(asked, Applied(person), blocked)
        BY <1>1, <2>1 DEF Init
    <2>3. query.max_results = asked.max_results
        BY <2>2 DEF QueryFor
    <2>4. query.ceiling = Applied(person).max_content_chars
        BY <2>2 DEF QueryFor
    <2>5. Applied(person).max_content_chars =
              Least(MaxContentChars, Usable(person.max_content_chars, Nat \ {0}, MaxContentChars))
        BY DEF Applied
    <2>6. MaxContentChars \in Nat
        BY PreferencesAssumption
    <2>7. Usable(person.max_content_chars, Nat \ {0}, MaxContentChars) \in Nat
        BY <2>6 DEF Usable
    <2>8. asked.max_results \in Nat \ {0}
        BY QuerySummaryAssumption
    <2>9. QED
        BY <2>3, <2>4, <2>5, <2>6, <2>7, <2>8 DEF Least
<1>4. fetched = <<>>
    BY <1>1 DEF Init
<1>5. QED
    BY <1>2, <1>3, <1>4 DEF TextIInv, Bounded, Listing, ResultsAsShown, Fetching, Composed

LEMMA SearchText ==
    ASSUME TextIInv, Search
    PROVE  TextIInv'
<1>1. /\ stage = "searching" /\ stage' \in {"parsed", "ended"}
      /\ UNCHANGED <<query, fetched>>
    BY DEF Search, End
<1>2. query.max_results \in Nat \ {0} /\ query.ceiling \in Nat
    BY <1>1 DEF TextIInv, Bounded
<1>3. ASSUME stage' = "parsed"
      PROVE  results' \in Seq(Item) /\ AsShown(page'.layouts, query, results')
    <2>1. page' \in Pages
        BY DEF Search
    <2>2. page'.layouts \in Seq(Seq(Container))
        BY <2>1, QuerySummaryAssumption
    <2>3. results' = Shown(Parse(page'.layouts, query.max_results), query.blocked, query.site)
        BY <1>3 DEF Search, End
    <2>4. QED
        BY <1>2, <2>2, <2>3, ShownAsExpected
<1>4. Bounded'
    BY <1>1, <1>2 DEF Bounded
<1>5. Listing'
    BY <1>1, <1>3 DEF Listing
<1>6. ResultsAsShown'
    BY <1>1, <1>3 DEF ResultsAsShown, AsShown
<1>7. Fetching' /\ Composed'
    BY <1>1 DEF TextIInv, Fetching, Composed
<1>8. QED
    BY <1>4, <1>5, <1>6, <1>7 DEF TextIInv

LEMMA EnrichText ==
    ASSUME TextIInv, Enrich
    PROVE  TextIInv'
<1>1. /\ stage = "parsed" /\ stage' \in {"fetching", "ended"}
      /\ UNCHANGED <<query, results, fetched>>
    BY DEF Enrich, End
<1>2. Bounded' /\ Listing'
    BY <1>1 DEF TextIInv, Bounded, Listing
<1>3. Fetching'
    <2>1. SUFFICES ASSUME stage' = "fetching" PROVE Fetching'
        BY <1>1 DEF Fetching
    <2>2. results # <<>> /\ wanted' \subseteq DOMAIN results
        BY <2>1 DEF Enrich, End
    <2>3. fetched' = <<>>
        BY <1>1 DEF TextIInv, Fetching
    <2>4. fetched' \in Seq([page : DOMAIN results, text : Seq(Characters)]) /\ 1 .. Len(fetched') = {}
        BY <2>3
    <2>5. QED
        BY <1>1, <2>1, <2>2, <2>3, <2>4 DEF Fetching
<1>4. ResultsAsShown' /\ Composed'
    BY <1>1 DEF ResultsAsShown, Composed
<1>5. QED
    BY <1>2, <1>3, <1>4 DEF TextIInv

LEMMA FetchText ==
    ASSUME TextIInv, NEW i \in wanted, Fetch(i)
    PROVE  TextIInv'
<1>1. stage = "fetching" /\ UNCHANGED <<stage, query, results, wanted>>
    BY DEF Fetch
<1> DEFINE Ends == [page : DOMAIN results, text : Seq(Characters)]
<1>2. /\ results # <<>> /\ wanted \subseteq DOMAIN results /\ results \in Seq(Item)
      /\ fetched \in Seq(Ends)
      /\ \A n \in 1 .. Len(fetched) : \/ fetched[n].text = <<>>
                                      \/ TextFrom(fetched[n].text, results[fetched[n].page].url)
    BY <1>1 DEF TextIInv, Fetching, Listing
<1>3. i \in DOMAIN results /\ results[i].url \in Url
    <2>1. i \in DOMAIN results /\ results[i] \in Item
        BY <1>2, LenProperties, ElementOfSeq
    <2>2. QED
        BY <2>1 DEF Item
<1>4. PICK text : /\ fetched' = Append(fetched, [page |-> i, text |-> text])
                  /\ text \in Seq(Characters)
                  /\ text = <<>> \/ TextFrom(text, results[i].url)
    <2>1. PICK text \in {<<>>} \cup {Extract(Drawn(document, results[i].url)) :
                                       document \in Documents} :
             fetched' = Append(fetched, [page |-> i, text |-> text])
        BY DEF Fetch
    <2>2. <<>> \in Seq(Characters)
        OBVIOUS
    <2>3. ASSUME NEW document \in Documents, text = Extract(Drawn(document, results[i].url)),
                 text # <<>>
          PROVE  TextFrom(text, results[i].url)
        <3>1. document \in Seq(Seq(Seq(Kind)))
            BY QuerySummaryAssumption
        <3>2. QED
            BY <1>3, <2>3, <3>1, ExtractFrom
    <2>4. text = <<>> \/ TextFrom(text, results[i].url)
        BY <2>1, <2>3
    <2>5. text \in Seq(Characters)
        BY <2>2, <2>4 DEF TextFrom
    <2>6. QED
        BY <2>1, <2>4, <2>5
<1> DEFINE ending == [page |-> i, text |-> text]
<1>5. ending \in Ends /\ ending.page = i /\ ending.text = text
    BY <1>3, <1>4
<1> HIDE DEF Ends, ending
<1>6. Fetching'
    <2>1. /\ Len(fetched') = Len(fetched) + 1 /\ Len(fetched) \in Nat
          /\ fetched' \in Seq(Ends)
          /\ \A n \in 1 .. Len(fetched) : fetched'[n] = fetched[n]
          /\ fetched'[Len(fetched) + 1] = ending
        BY <1>2, <1>4, <1>5, AppendProperties, LenProperties DEF ending
    <2>2. ASSUME NEW n \in 1 .. Len(fetched')
          PROVE  \/ fetched'[n].text = <<>>
                 \/ TextFrom(fetched'[n].text, results[fetched'[n].page].url)
        <3>1. n \in 1 .. Len(fetched) \/ n = Len(fetched) + 1
            BY <2>1
        <3>2. QED
            BY <1>2, <1>4, <1>5, <2>1, <3>1
    <2>3. QED
        BY <1>1, <1>2, <2>1, <2>2 DEF Fetching, Ends
<1>7. Bounded' /\ Listing'
    BY <1>1 DEF TextIInv, Bounded, Listing
<1>8. ResultsAsShown' /\ Composed'
    BY <1>1 DEF ResultsAsShown, Composed
<1>9. QED
    BY <1>6, <1>7, <1>8 DEF TextIInv

LEMMA CutText ==
    ASSUME TextIInv, Cut
    PROVE  TextIInv'
<1>1. stage = "fetching" /\ stage' = "cut" /\ UNCHANGED <<query, results>>
    BY DEF Cut
<1>2. /\ results # <<>> /\ results \in Seq(Item)
      /\ fetched \in Seq([page : DOMAIN results, text : Seq(Characters)])
      /\ \A n \in 1 .. Len(fetched) : \/ fetched[n].text = <<>>
                                      \/ TextFrom(fetched[n].text, results[fetched[n].page].url)
    BY <1>1 DEF TextIInv, Fetching, Listing
<1> DEFINE n == Len(results)
           sections == [i \in DOMAIN results |-> Section(i)]
<1>3. n \in Nat \ {0} /\ DOMAIN results = 1 .. n /\ \A i \in 1 .. n : results[i] \in Item
    BY <1>2, LenProperties, ElementOfSeq, EmptySeq
<1>4. ASSUME NEW i \in 1 .. n
      PROVE  Section(i) \in Seq(Characters) /\ SectionOf(Section(i), results[i])
    <2>1. ASSUME i \in wanted
          PROVE  \E k \in 1 .. Len(fetched) : fetched[k].page = i /\ Gathered(i) = fetched[k].text
        <3>1. DOMAIN fetched = 1 .. Len(fetched)
            BY <1>2, LenProperties
        <3>2. \E k \in DOMAIN fetched : fetched[k].page = i
            BY <2>1 DEF Cut, Ended
        <3>3. QED
            BY <3>1, <3>2 DEF Gathered
    <2>2. i \in wanted => Gathered(i) = <<>> \/ TextFrom(Gathered(i), results[i].url)
        BY <1>2, <2>1
    <2>3. results[i] \in Item
        BY <1>3
    <2>4. QED
        BY <2>2, <2>3, SectionFrom
<1>5. sections \in Seq(Seq(Characters)) /\ Len(sections) = n
    <2>1. sections \in [1 .. n -> Seq(Characters)]
        BY <1>3, <1>4
    <2>2. n \in Nat
        BY <1>3
    <2> HIDE DEF sections, n
    <2>3. QED
        BY <2>1, <2>2, FunctionIsSeq
<1>6. \A i \in 1 .. n : sections[i] = Section(i)
    BY <1>3
<1>7. content' = Joined(sections, <<Newline, Newline>>)
    BY DEF Cut
<1> HIDE DEF n, sections
<1>8. Newline \in Characters
    BY DEF Newline, Char, Characters, Kind
<1>9. content' \in Seq(Characters) /\ Cites(content', results, n)
    <2>1. sections # <<>>
        BY <1>3, <1>5
    <2>2. \A i \in 1 .. Len(sections) : /\ results[i] \in [rank : Nat \ {0}, url : Url]
                                        /\ SectionOf(sections[i], results[i])
        BY <1>3, <1>4, <1>5, <1>6 DEF Item
    <2>3. Cites(Joined(sections, <<Newline, Newline>>), results, Len(sections))
        BY <1>5, <1>8, <2>1, <2>2, JoinedSectionsCite
    <2>4. Joined(sections, <<Newline, Newline>>) \in Seq(Characters)
        <3>1. <<Newline, Newline>> \in Seq(Characters)
            BY <1>8
        <3>2. QED
            BY <1>5, <3>1, JoinedIs
    <2>5. QED
        BY <1>5, <1>7, <2>3, <2>4
<1>10. PICK choice \in Models, window \in Windows :
          /\ bounded' = Truncate(content',
                CharBudget(Capabilities(choice.model, window, Absent).window, query.ceiling))
          /\ chat' = ChatOf(choice, window, SummaryAsk)
    BY DEF Cut
<1>11. /\ chat'.model = choice.model /\ chat'.window = window
       /\ choice.model \in Family /\ window \in Nat \cup {None}
    <2>1. choice \in Served /\ Windows \subseteq Nat \cup {None}
        BY QuerySummaryAssumption
    <2>2. choice.model \in Family
        BY <2>1 DEF Served
    <2>3. chat'.model = choice.model /\ chat'.window = window
        BY <1>10 DEF ChatOf
    <2>4. QED
        BY <2>1, <2>2, <2>3
<1>12. bounded' = Truncate(content',
                           CharBudget(Capabilities(chat'.model, chat'.window, Absent).window,
                                      query'.ceiling))
    BY <1>1, <1>10, <1>11
<1>13. Composed'
    <2>1. Cites(content', results', Len(results'))
        BY <1>1, <1>9 DEF n
    <2>2. QED
        BY <1>9, <1>11, <1>12, <2>1 DEF Composed
<1>14. Bounded' /\ Listing'
    BY <1>1 DEF TextIInv, Bounded, Listing
<1>15. ResultsAsShown' /\ Fetching'
    BY <1>1 DEF ResultsAsShown, Fetching
<1>16. QED
    BY <1>13, <1>14, <1>15 DEF TextIInv

\* Once a model is called nothing more is said of the text.
LEMMA LaterText ==
    ASSUME Ask \/ Post \/ Retry
    PROVE  TextIInv'
<1>1. stage' \in {"posting", "retrying", "ended"}
    <2>1. CASE Ask
        BY <2>1 DEF Ask, End
    <2>2. CASE Post
        <3>1. stage' = "ended" \/ stage' = "retrying"
            BY <2>2, SettleEnds DEF Post, End
        <3>2. QED
            BY <3>1
    <2>3. CASE Retry
        BY <2>3, SettleEnds DEF Retry, End
    <2>4. QED
        BY <2>1, <2>2, <2>3
<1>2. QED
    BY <1>1 DEF TextIInv, Bounded, Listing, ResultsAsShown, Fetching, Composed

LEMMA NextText ==
    ASSUME TextIInv, [Next]_vars
    PROVE  TextIInv'
<1>1. CASE UNCHANGED vars
    <2>1. UNCHANGED <<stage, query, page, results, wanted, fetched, content, bounded, chat>>
        BY <1>1 DEF vars
    <2>2. Bounded' /\ Listing'
        BY <2>1 DEF TextIInv, Bounded, Listing
    <2>3. ResultsAsShown'
        <3>1. stage = "parsed" => AsShown(page.layouts, query, results)
            BY DEF TextIInv, ResultsAsShown, AsShown
        <3>2. stage' = "parsed" => AsShown(page'.layouts, query', results')
            BY <2>1, <3>1
        <3>3. QED
            BY <3>2 DEF ResultsAsShown, AsShown
    <2>4. Fetching'
        BY <2>1 DEF TextIInv, Fetching
    <2>5. Composed'
        BY <2>1 DEF TextIInv, Composed
    <2>6. QED
        BY <2>2, <2>3, <2>4, <2>5 DEF TextIInv
<1>2. QED
    BY <1>1, SearchText, EnrichText, FetchText, CutText, LaterText DEF Next

LEMMA AlwaysTextIInv == Spec => []TextIInv
<1>1. TextIInv /\ [Next]_vars => TextIInv'
    BY NextText
<1>2. QED
    BY <1>1, InitText, PTL DEF Spec

\* Whatever page Google answers with, the results shown are those of its first layout that
\* has any, each address once, in the order of the page, as many as were asked for and none a
\* person has blocked, with the ranks Google gave them (parse_google_serp, _make_query_runner).
THEOREM AlwaysResultsAsShown == Spec => []ResultsAsShown
<1>1. TextIInv => ResultsAsShown
    BY DEF TextIInv
<1>2. QED
    BY <1>1, AlwaysTextIInv, PTL

\* Whatever the pages say and whichever results are hidden, every character a model is given
\* is under the heading of the result it comes from, with the number shown beside that
\* result (_attach_summary).
THEOREM AlwaysCitationsMatchResults == Spec => []CitationsMatchResults
<1>1. TextIInv => CitationsMatchResults
    <2>1. SUFFICES ASSUME TextIInv, stage = "cut" PROVE CitationsMatchResults
        BY DEF CitationsMatchResults
    <2>2. /\ content \in Seq(Characters) /\ results \in Seq(Item)
          /\ Cites(content, results, Len(results))
        BY <2>1 DEF TextIInv, Listing, Composed
    <2>3. QED
        BY <2>2, CitesMatch
<1>2. QED
    BY <1>1, AlwaysTextIInv, PTL

\* Whatever the text, the window of the model and the ceiling of the person, what is submitted
\* is the beginning of the text, within the budget, is said to be cut whenever something is
\* missing, and keeps all but two characters of four fifths of the budget (truncate).
THEOREM AlwaysCutAtTheEdge == Spec => []CutAtTheEdge
<1>1. TextIInv => CutAtTheEdge
    BY ComposedCut
<1>2. QED
    BY <1>1, AlwaysTextIInv, PTL
===============================================================================
