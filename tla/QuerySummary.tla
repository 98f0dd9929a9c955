---------------------------- MODULE QuerySummary ----------------------------
(***************************************************************************)
(* One query from the page Google answers with to the summary of what it   *)
(* found: the results are read off the page, the top ones are fetched and  *)
(* cleaned, their texts are put together and cut (Summarizer.summarize),   *)
(* and a model is asked, once more if it names a parameter it does not     *)
(* take (OpenAICompatibleProvider.chat, AnthropicProvider.chat).  A chat   *)
(* may also begin with any other ChatRequest, since that is what           *)
(* ModelRegistry.complete takes.                                           *)
(*                                                                         *)
(* Which query of a batch waits for what is in SearchBatch, how a page is  *)
(* fetched in PageFetch, and whose model answers in CallerRequest.  The    *)
(* provider's adapter shapes the body, whatever the model's id: Claude's   *)
(* models are served by Anthropic and by OpenAI-compatible providers, the  *)
(* others by these alone; Ollama's chat is the OpenAI one.  What later     *)
(* steps no longer read is cleared.                                        *)
(***************************************************************************)
EXTENDS Preferences, ResultPage, ChatBody, FiniteSetsExt

CONSTANTS
    Persons,       \* what settings-api holds for the persons who ask (bound)
    Blocked,       \* the lists of blocked domains they may have (bound)
    Queries,       \* what requests and their queries may say (bound)
    Pages,         \* the pages Google may answer with (bound)
    Documents,     \* the pages results may lead to, as candidate containers (bound)
    Windows,       \* the context windows a provider may report (bound)
    Models,        \* the models, and their adapters, a summary may be of (bound)
    OtherAsks,     \* the ChatRequests that are no summary's (bound)
    Refusals,      \* the sets of keys a provider may not take (bound)
    Replies        \* what a model may answer (bound)

\* The models there are, each with the adapter of a provider that serves it.
Served ==
    {choice \in [adapter : {"anthropic", "openai_compatible"}, model : Family] :
        choice.adapter = "anthropic" => choice.model \in Claude}

\* What a model may answer: whether it is blank and has a fence, and what is read from the
\* fence, from the first object in it, from the whole and from the first object in that.
\* A blank answer has neither a fence nor an object.
Response ==
    LET Reading == {"prose", "summary", "useless"}
    IN  {answer \in [blank : BOOLEAN, fenced : BOOLEAN, fence : Reading,
                     fence_object : Reading, whole : Reading, whole_object : Reading] :
            answer.blank =>
                ~ answer.fenced /\ answer.whole = "prose" /\ answer.whole_object = "prose"}

ASSUME QuerySummaryAssumption ==
    /\ Absent = None
    /\ None \notin {"refused", "answered"}
    /\ Persons \subseteq Resolved
    /\ Blocked \subseteq SUBSET Domain
    /\ \A query \in Queries :
          /\ query.max_results \in Nat \ {0}
          /\ query.site \in Host \cup {None}
          /\ query.fetch_pages \in BOOLEAN \cup {Unset}
          /\ query.max_pages \in 1 .. MaxPages \cup {Unset}
    /\ Pages \subseteq [markers : SUBSET {"captcha", "consent"}, layouts : Seq(Seq(Container))]
    /\ Documents \subseteq Seq(Seq(Seq(Kind)))
    /\ Windows \subseteq Nat \cup {None}
    /\ Models \subseteq Served
    /\ OtherAsks \subseteq ChatRequest
    /\ Refusals \subseteq SUBSET (Key \ {"model"})
    /\ Replies \subseteq Response

VARIABLES
    stage,
    query,        \* the request, and the person's part of what it runs under
    page,         \* the page Google answered with, while it is read
    results,      \* the results shown
    wanted,       \* which of the results' pages are fetched
    fetched,      \* the fetches that ended, in that order: which, and the text or none
    content,      \* the text before it is cut
    bounded,      \* Truncation: what is left of it, and whether it was cut
    chat,         \* the model, its adapter and window, and what is asked of it
    refuses,      \* the keys its provider does not take
    posts,        \* the bodies sent
    notes,        \* param_adjustments
    reply,        \* what the model answered, and what became of it
    outcome

vars == <<stage, query, page, results, wanted, fetched, content, bounded, chat, refuses,
          posts, notes, reply, outcome>>

Stage == {"searching", "parsed", "fetching", "cut", "posting", "retrying", "ended"}

NoPage == [markers |-> {}, layouts |-> <<>>]
NoQuery == [max_results |-> 1, site |-> None, fetch_pages |-> FALSE, max_pages |-> Unset,
            blocked |-> {}, ceiling |-> 1, chosen |-> 0]
NoChat == [adapter |-> None, model |-> None, window |-> None, ask |-> None]
Uncut == [text |-> <<>>, truncated |-> FALSE]

\* What Summarizer.summarize asks of any model.
SummaryAsk ==
    [max_output_tokens |-> 2000, temperature |-> "default", json_mode |-> TRUE, effort |-> Absent]

\* The request under the person's preferences, one query of it.
QueryFor(asked, preference, blocked) ==
    [max_results |-> asked.max_results, site |-> asked.site,
     fetch_pages |-> asked.fetch_pages, max_pages |-> asked.max_pages,
     blocked |-> blocked, ceiling |-> preference.max_content_chars,
     chosen |-> preference.read_top_pages]

ChatOf(choice, window, ask) ==
    [adapter |-> choice.adapter, model |-> choice.model, window |-> window, ask |-> ask]

\* A summarised query, or a chat of its own.
Init ==
    /\ page = NoPage /\ results = <<>> /\ wanted = {} /\ fetched = <<>>
    /\ content = <<>> /\ bounded = Uncut
    /\ posts = <<>> /\ notes = {} /\ reply = None /\ outcome = None
    /\ \/ /\ stage = "searching"
          /\ \E asked \in Queries, person \in Persons, blocked \in Blocked :
                query = QueryFor(asked, Applied(person), blocked)
          /\ chat = NoChat /\ refuses = {}
       \/ /\ stage = "posting"
          /\ query = NoQuery
          /\ \E choice \in Served, ask \in OtherAsks : chat = ChatOf(choice, None, ask)
          /\ refuses \in Refusals

End(how) == stage' = "ended" /\ outcome' = how

-------------------------------------------------------------------------------
\* GoogleSearchBackend.search, and what run_search makes of its answer.
Search ==
    /\ stage = "searching"
    /\ page' \in Pages
    /\ IF Block(page') # None
       THEN End("blocked") /\ UNCHANGED results
       ELSE /\ results' = Shown(Parse(page'.layouts, query.max_results), query.blocked, query.site)
            /\ stage' = "parsed"
            /\ UNCHANGED outcome
    /\ UNCHANGED <<query, wanted, fetched, content, bounded, chat, refuses, posts, notes, reply>>

\* _attach_page_contents: the pages of the top results are to be fetched.  Without results
\* there is nothing to summarise.
Enrich ==
    /\ stage = "parsed"
    /\ IF results = <<>>
       THEN End("no_results") /\ UNCHANGED wanted
       ELSE /\ wanted' = {i \in DOMAIN results :
                             i <= PagesToRead(query.fetch_pages, query.max_pages, TRUE,
                                              query.chosen)}
            /\ stage' = "fetching"
            /\ UNCHANGED outcome
    /\ page' = NoPage
    /\ UNCHANGED <<query, results, fetched, content, bounded, chat, refuses, posts, notes, reply>>

\* A document's containers, with the address their text comes from.
Drawn(document, url) ==
    [c \in DOMAIN document |->
        [l \in DOMAIN document[c] |->
            [i \in DOMAIN document[c][l] |-> Char(document[c][l][i], url)]]]

\* Whether the fetch of a result's page has ended.
Ended(i) == \E n \in DOMAIN fetched : fetched[n].page = i

\* The fetch of a result's page ends, before or after the others: a page that cannot be
\* fetched, or says nothing, has no text (_make_page_fetch).
Fetch(i) ==
    /\ stage = "fetching"
    /\ ~ Ended(i)
    /\ \E text \in {<<>>} \cup {Extract(Drawn(document, results[i].url)) : document \in Documents} :
          fetched' = Append(fetched, [page |-> i, text |-> text])
    /\ UNCHANGED <<stage, query, page, results, wanted, content, bounded, chat, refuses, posts,
                   notes, reply, outcome>>

\* Mutant: the texts are gathered in the order the fetches ended.
Gathered_AsCompleted(i) == fetched[i].text

\* What bounded_gather returns for a result: gather keeps the order of the factories.
Gathered(i) == fetched[CHOOSE n \in DOMAIN fetched : fetched[n].page = i].text

Snippet(url) == <<Char("letter", url), Space, Char("letter", url)>>

\* What there is to say of a result: the text of its page, or else the snippet.
Contents(i) ==
    IF i \in wanted /\ Gathered(i) # <<>> THEN Gathered(i) ELSE Snippet(results[i].url)

Heading(item) == [kind |-> "letter", of |-> item.url, rank |-> item.rank]

\* Mutant: the sections are numbered in the order they come.
Section_Renumbered(i) == <<Heading([results[i] EXCEPT !.rank = i]), Newline>> \o Contents(i)

\* One section of _attach_summary's content: the rank, and what was found there.
Section(i) == <<Heading(results[i]), Newline>> \o Contents(i)

\* Summarizer.summarize as far as the text it submits; without any no model is called.
Cut ==
    /\ stage = "fetching"
    /\ \A i \in wanted : Ended(i)
    /\ content' = Joined([i \in DOMAIN results |-> Section(i)], <<Newline, Newline>>)
    /\ \E choice \in Models, window \in Windows :
          /\ bounded' = Truncate(content',
                CharBudget(Capabilities(choice.model, window, Absent).window, query.ceiling))
          /\ chat' = ChatOf(choice, window, SummaryAsk)
    /\ wanted' = {} /\ fetched' = <<>>
    /\ stage' = "cut"
    /\ UNCHANGED <<query, page, results, refuses, posts, notes, reply, outcome>>

\* The model is called, with a provider that may not take everything.
Ask ==
    /\ stage = "cut"
    /\ IF Stripped(bounded.text) = <<>>
       THEN End("empty") /\ UNCHANGED refuses
       ELSE stage' = "posting" /\ refuses' \in Refusals /\ UNCHANGED outcome
    /\ query' = NoQuery /\ results' = <<>> /\ content' = <<>> /\ bounded' = Uncut
    /\ chat' = [chat EXCEPT !.window = None]
    /\ UNCHANGED <<page, wanted, fetched, posts, notes, reply>>

-------------------------------------------------------------------------------
\* The body and the notes of the provider's adapter for what is asked of a model.
Body(adapter, model, ask) ==
    IF adapter = "anthropic" THEN AnthropicBody(model, ask) ELSE OpenAIBody(model, ask)

Notes(adapter, model, ask) ==
    IF adapter = "anthropic" THEN AnthropicNotes(model, ask) ELSE OpenAINotes(model, ask)

\* parse_summary_payload: the texts it tries to read an object from, in their order.
Attempts(answer) ==
    (IF answer.fenced THEN <<answer.fence, answer.fence_object>> ELSE <<>>)
        \o <<answer.whole, answer.whole_object>>

\* Mutant: only what is in the fence is tried.
ParsedReply_FenceOnly(answer) ==
    IF answer.blank THEN "blank"
    ELSE IF Head(Attempts(answer)) = "summary" \/ Attempts(answer)[2] = "summary"
         THEN "summary" ELSE "prose"

\* The summary it recovers, or the whole answer as prose.
ParsedReply(answer) ==
    IF answer.blank THEN "blank"
    ELSE IF SelectInSeq(Attempts(answer), LAMBDA text : text = "summary") # 0 THEN "summary"
    ELSE "prose"

\* What a call ends with when it is not the body that is at fault: the credential is
\* rejected or the host out of reach, too many calls, no answer in time, another status,
\* an answer of the wrong shape or one that declines.
Trouble == {"unavailable", "rate_limited", "timeout", "upstream"}

\* The provider takes the body, or the call fails.
Settle(body) ==
    \/ \E how \in Trouble : End(how) /\ UNCHANGED reply
    \/ /\ Keys(body) \cap refuses = {}
       /\ \E answer \in Replies : reply' = [answer |-> answer, summary |-> ParsedReply(answer)]
       /\ End("answered")

\* The keys of the body that the provider may name in its refusal.
Named(body) == {Offender(key, body) : key \in refuses} \ {Absent}

\* _post_chat, or Anthropic's messages.create, for the first time.
Post ==
    /\ stage = "posting"
    /\ LET body == Body(chat.adapter, chat.model, chat.ask)
       IN  /\ posts' = <<body>>
           /\ notes' = Notes(chat.adapter, chat.model, chat.ask)
           /\ \/ Settle(body)
              \/ /\ Named(body) # {}
                 /\ IF chat.adapter = "anthropic" THEN End("refused")
                    ELSE stage' = "retrying" /\ UNCHANGED outcome
                 /\ UNCHANGED reply
    /\ UNCHANGED <<query, page, results, wanted, fetched, content, bounded, chat, refuses>>

\* Mutant: the refusal of a retry is retried as well.
Retry_Again ==
    /\ stage = "retrying"
    /\ \E key \in Named(Last(posts)) :
          LET body == Without(Last(posts), key)
          IN  /\ posts' = Append(posts, body)
              /\ notes' = notes \cup {key}
              /\ \/ Settle(body)
                 \/ Named(body) # {} /\ UNCHANGED <<stage, outcome, reply>>
    /\ UNCHANGED <<query, page, results, wanted, fetched, content, bounded, chat, refuses>>

\* The one retry, without the parameter that was named.
Retry ==
    /\ stage = "retrying"
    /\ \E key \in Named(posts[1]) :
          LET body == Without(posts[1], key)
          IN  /\ posts' = Append(posts, body)
              /\ notes' = notes \cup {key}
              /\ \/ Settle(body)
                 \/ Named(body) # {} /\ End("refused") /\ UNCHANGED reply
    /\ UNCHANGED <<query, page, results, wanted, fetched, content, bounded, chat, refuses>>

Next ==
    \/ Search \/ Enrich \/ Cut \/ Ask \/ Post \/ Retry
    \/ \E i \in wanted : Fetch(i)

Spec == Init /\ [][Next]_vars

-------------------------------------------------------------------------------
\* The address each container of a layout leads to, or None where it is no result.
Found(layout) ==
    [i \in DOMAIN layout |->
        IF layout[i].via \in {"direct", "redirect"} /\ layout[i].title THEN layout[i].to ELSE None]

\* The results shown are those of the first layout that has any, each address once, in
\* the order of the page, as many as were asked for and none a person has blocked; a
\* result keeps the rank Google gave it although others are hidden (parse_google_serp,
\* _make_query_runner).
ResultsAsShown ==
    stage = "parsed" =>
        LET layouts == {n \in DOMAIN page.layouts :
                           \E i \in DOMAIN page.layouts[n] : Found(page.layouts[n])[i] # None}
            urls == IF layouts = {} THEN <<>> ELSE Found(page.layouts[Min(layouts)])
            rank(i) == Cardinality({urls[j] : j \in 1 .. i} \ {None})
            expected == {[rank |-> rank(i), url |-> urls[i]] : i \in
                            {i \in DOMAIN urls :
                                /\ urls[i] # None
                                /\ \A j \in 1 .. i - 1 : urls[j] # urls[i]
                                /\ rank(i) <= query.max_results
                                /\ HostOf[urls[i]] # None =>
                                      \A domain \in Within[HostOf[urls[i]]] \cap query.blocked :
                                         query.site # None /\ domain \in Within[query.site]}}
        IN  /\ ToSet(results) = expected
            /\ \A i, j \in DOMAIN results : i < j => results[i].rank < results[j].rank

\* In the text a model is given every character is under the heading of the result it
\* comes from, numbered as the caller is shown that result, so that a "[2]" in the
\* summary can be checked against result 2 (_attach_summary: "Numbered by rank, the
\* number the caller shows beside each result").
CitationsMatchResults ==
    stage = "cut" =>
        LET headings == {i \in DOMAIN content : content[i].rank # 0}
            above(i) == Max({h \in headings : h <= i})
        IN  /\ {[rank |-> content[h].rank, url |-> content[h].of] : h \in headings}
                   = ToSet(results)
            /\ Cardinality(headings) = Len(results)
            /\ \A i \in DOMAIN content :
                  ~ White(content[i]) => content[i].of = content[above(i)].of

\* What is submitted is the beginning of the text, within the budget of the model and
\* the person, and is said to be cut whenever something is missing; of a text that is
\* cut, at most two characters less than four fifths of the budget are kept, whatever
\* the cleaner left at the boundary (truncate, clean_text).
CutAtTheEdge ==
    stage = "cut" =>
        LET limit == CharBudget(Capabilities(chat.model, chat.window, Absent).window, query.ceiling)
        IN  /\ IsPrefix(bounded.text, content)
            /\ Len(bounded.text) <= limit
            /\ bounded.text # content => bounded.truncated
            /\ bounded.truncated => Len(bounded.text) >= (4 * limit) \div 5 - 2

\* The keys that say how much may be written, or how hard to think.
Limits == {"max_tokens", "max_completion_tokens"}
ReasoningKeys == {"reasoning_effort", "thinking", "output_config", "enable_thinking"}

\* The models known to refuse a temperature, and those that do not think with a budget
\* (tests/unit/test_capabilities.py).
NoTemperature == {"claude-fable-5", "claude-opus-5", "claude-sonnet-5", "o3", "gpt-5",
                  "deepseek-reasoner", "vendor/deepseek-r1"}
NoBudget == {"claude-fable-5", "claude-opus-5", "claude-sonnet-5"}

\* No model is sent what it is known to refuse, by whichever provider it is served: one
\* limit and under the right name, no temperature where there is none, and a thinking budget
\* that is large enough and leaves room for the answer; Anthropic's API is sent no temperature
\* along with such a budget either (anthropic.py: "The Messages API refuses a modified
\* temperature while extended thinking is on").  The OpenAI shape of a Claude model does have
\* both, as tests/unit/test_capabilities.py:137 wants it, and nothing is said of that here.
BodyAccepted ==
    posts # <<>> =>
        LET body == posts[1]
            thinking == body["thinking"]
        IN  /\ Keys(body) \cap Limits =
                   {IF chat.model \in {"o3", "gpt-5"} THEN "max_completion_tokens" ELSE "max_tokens"}
            /\ chat.model \in NoTemperature => body["temperature"] = Absent
            /\ thinking # Absent /\ thinking.budget # Absent =>
                  /\ chat.model \in Claude \ NoBudget
                  /\ thinking.budget \in MinBudget .. body["max_tokens"] - 1
                  /\ chat.adapter = "anthropic" => body["temperature"] = Absent

\* Of the temperature, the effort and the length that were asked of a model, and of the JSON
\* mode asked of an OpenAI-compatible provider, nothing is missing from the body it answered
\* without a note that says so (capabilities.py: "recording every adjustment so the
\* behaviour is observable rather than mysterious").  Anthropic's adapter drops JSON mode
\* without one, though README.md:181 says that every change is reported; of that nothing is
\* said here.
IntentsKeptOrNoted ==
    outcome = "answered" =>
        LET body == Last(posts)
            ask == chat.ask
            kept(intent, keys) == Keys(body) \cap keys # {} \/ notes \cap (keys \cup {intent}) # {}
        IN  /\ ask.temperature # Absent => kept("temperature", {"temperature"})
            /\ ask.json_mode /\ chat.adapter # "anthropic" => kept("json_mode", {"response_format"})
            /\ ask.effort # Absent => kept("effort", ReasoningKeys)
            /\ \/ \E key \in Limits : body[key] = ask.max_output_tokens
               \/ notes \cap (Limits \cup {"max_output_tokens"}) # {}

\* A body is sent again at most once, for nothing but a key of it that the provider named,
\* and without that key alone; a provider that does not take one key of the body is not
\* what such a chat fails of (OpenAICompatibleProvider.chat: "gets one retry without it,
\* so models released after this code was written degrade to a working request").
RetriedOnceWithoutTheNamed ==
    /\ Len(posts) <= 2
    /\ Len(posts) = 2 =>
          \E key \in refuses \cap Keys(posts[1]) :
             posts[2] = [k \in Key |-> IF k = key THEN Absent ELSE posts[1][k]]
    /\ outcome = "refused" /\ chat.adapter # "anthropic" =>
          Cardinality(refuses \cap Keys(posts[1])) > 1

\* An answer is never lost: it gives a summary unless it is blank, and the one in its JSON
\* wherever in the answer that is (parse_summary_payload: "All three are handled rather
\* than surfaced as an error").
ReplyNotLost ==
    reply # None =>
        /\ reply.summary = "blank" <=> reply.answer.blank
        /\ \/ reply.answer.fenced /\ "summary" \in {reply.answer.fence, reply.answer.fence_object}
           \/ "summary" \in {reply.answer.whole, reply.answer.whole_object}
           => reply.summary = "summary"
===============================================================================
