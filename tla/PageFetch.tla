------------------------------- MODULE PageFetch -------------------------------
(***************************************************************************)
(* Page fetches that share one robots.txt policy: PageFetcher              *)
(* (src/app/services/fetch/page.py) over HttpFetcher (.../fetch/http.py),  *)
(* the URL guard (src/app/services/urlsafety.py) and RobotsPolicy.         *)
(*                                                                         *)
(* An address is its origin, a text its length, counted so that Threshold  *)
(* is RENDER_FALLBACK_THRESHOLD.  One action is the code between two       *)
(* awaits: a request is opened, and its response handled up to the next.   *)
(*                                                                         *)
(*   queued      waits for the lock of its origin's robots.txt             *)
(*   asking      holds it and has asked for robots.txt                     *)
(*   requesting  has asked current for a document                          *)
(*   rendering   in BrowserSession.render                                  *)
(***************************************************************************)
EXTENDS RobotsPolicy

CONSTANTS
    Public,         \* the origins validate_url lets through
    MaxRedirects,   \* max_redirects
    Threshold       \* RENDER_FALLBACK_THRESHOLD

ASSUME PageFetchAssumption ==
    /\ Public \subseteq Site
    /\ MaxRedirects \in Nat
    /\ Threshold \in Nat

VARIABLES
    respect,     \* respect_robots
    browser,     \* whether a browser is configured
    phase,       \* where each fetch is, or how it ended
    origin,      \* the origin of its URL
    mode,        \* its render mode
    current,     \* the address it has asked, redirects followed
    hops,        \* the redirects it has followed
    text,        \* the length of the text HTTP brought
    shown        \* the length of the text returned

fetchVars == <<phase, origin, mode, current, hops, text, shown>>
vars == <<robotsVars, respect, browser, fetchVars>>

\* page; ForbiddenUrlError or ValidationProblem; UpstreamError; TimeoutProblem;
\* an exception of another kind; cancelled from outside.
Ended == {"page", "refused", "upstream", "timeout", "crashed", "cancelled"}

Length == 0 .. Threshold

NoText == -1

\* Which URLs are asked for, and how, is the caller's choice.
Init ==
    /\ RobotsInit
    /\ respect \in BOOLEAN
    /\ browser \in BOOLEAN
    /\ phase = [c \in Fetch |-> "idle"]
    /\ origin \in [Fetch -> Site]
    /\ mode \in [Fetch -> {"auto", "always", "never"}]
    /\ current = origin
    /\ hops = [c \in Fetch |-> 0]
    /\ text = [c \in Fetch |-> NoText]
    /\ shown = [c \in Fetch |-> NoText]

-------------------------------------------------------------------------------
\* How a fetch goes on.

Goes(c, where) == phase' = [phase EXCEPT ![c] = where]

\* _render, up to its await.
OpenBrowser == IF browser THEN "rendering" ELSE "upstream"

\* What follows the check of robots.txt.
OpenPage(c) == IF mode[c] = "always" THEN OpenBrowser ELSE "requesting"

\* What robots.txt leaves of it.
Obey(c, says) == IF Allows(says) THEN OpenPage(c) ELSE "refused"

\* fetch returns a page.
Show(c, length) ==
    /\ Goes(c, "page")
    /\ shown' = [shown EXCEPT ![c] = length]

-------------------------------------------------------------------------------
\* fetch, as far as its first await.

Reject(c) ==
    /\ phase[c] = "idle"
    /\ origin[c] \notin Public
    /\ Goes(c, "refused")
    /\ UNCHANGED <<robotsVars, respect, browser, origin, mode, current, hops, text, shown>>

Begin(c) ==
    /\ phase[c] = "idle"
    /\ origin[c] \in Public
    /\ \/ /\ ~respect
          /\ Goes(c, OpenPage(c))
          /\ UNCHANGED queue
       \/ /\ respect
          /\ Fresh(origin[c])
          /\ Goes(c, Obey(c, copy[origin[c]].says))
          /\ UNCHANGED queue
       \/ /\ respect
          /\ ~Fresh(origin[c])
          /\ JoinQueue(c, origin[c])
          /\ Goes(c, IF queue[origin[c]] = <<>> THEN "asking" ELSE "queued")
    /\ UNCHANGED <<now, refuses, since, copy, respect, browser,
                   origin, mode, current, hops, text, shown>>

\* Mutant: no second look at the copy once the lock is held.
Resume_AsksAgain(c) ==
    /\ phase[c] = "queued"
    /\ c = Head(queue[origin[c]])
    /\ Goes(c, "asking")
    /\ UNCHANGED <<robotsVars, respect, browser, origin, mode, current, hops, text, shown>>

\* The lock is acquired: another fetch may have brought the copy meanwhile.
Resume(c) ==
    /\ phase[c] = "queued"
    /\ c = Head(queue[origin[c]])
    /\ \/ /\ Fresh(origin[c])
          /\ Goes(c, Obey(c, copy[origin[c]].says))
          /\ QuitQueue(c, origin[c])
       \/ /\ ~Fresh(origin[c])
          /\ Goes(c, "asking")
          /\ UNCHANGED queue
    /\ UNCHANGED <<now, refuses, since, copy, respect, browser,
                   origin, mode, current, hops, text, shown>>

\* robots.txt has come, or has failed to, and the lock is released.
Asked(c) ==
    /\ phase[c] = "asking"
    /\ \/ \E says \in Answers(origin[c]) :
              /\ Keep(origin[c], says)
              /\ Goes(c, Obey(c, says))
       \/ Goes(c, "crashed") /\ UNCHANGED copy
    /\ QuitQueue(c, origin[c])
    /\ UNCHANGED <<now, refuses, since, respect, browser,
                   origin, mode, current, hops, text, shown>>

-------------------------------------------------------------------------------
\* HttpFetcher.fetch, one response at a time.

\* A redirect is followed to an address that passes the guard, MaxRedirects times.
Redirected(c, where) ==
    IF where \in Public /\ hops[c] < MaxRedirects
    THEN /\ Goes(c, "requesting")
         /\ current' = [current EXCEPT ![c] = where]
         /\ hops' = [hops EXCEPT ![c] = @ + 1]
    ELSE /\ Goes(c, "refused")
         /\ UNCHANGED <<current, hops>>

Redirect(c) ==
    /\ phase[c] = "requesting"
    /\ \E where \in Site : Redirected(c, where)
    /\ UNCHANGED <<robotsVars, respect, browser, origin, mode, text, shown>>

\* No answer in time; no Location, a status of 400 or more, no document, or a
\* failure of the transport; an exception of another kind.
RequestFails(c) ==
    /\ phase[c] = "requesting"
    /\ \E how \in {"timeout", "upstream", "crashed"} : Goes(c, how)
    /\ UNCHANGED <<robotsVars, respect, browser, origin, mode, current, hops, text, shown>>

\* Mutant: a thin text is rendered whatever the mode.
Document_AnyMode(c) ==
    /\ phase[c] = "requesting"
    /\ \E length \in Length :
           /\ text' = [text EXCEPT ![c] = length]
           /\ IF length < Threshold /\ browser
              THEN Goes(c, "rendering") /\ UNCHANGED shown
              ELSE Show(c, length)
    /\ UNCHANGED <<robotsVars, respect, browser, origin, mode, current, hops>>

\* A document: its text is returned, unless it is thin and a browser may do better.
Document(c) ==
    /\ phase[c] = "requesting"
    /\ \E length \in Length :
           /\ text' = [text EXCEPT ![c] = length]
           /\ IF mode[c] = "auto" /\ length < Threshold /\ browser
              THEN Goes(c, "rendering") /\ UNCHANGED shown
              ELSE Show(c, length)
    /\ UNCHANGED <<robotsVars, respect, browser, origin, mode, current, hops>>

-------------------------------------------------------------------------------
\* The render, the only one or the fallback.

\* Mutant: the rendered page is taken whatever HTTP brought.
Rendered_Unconditionally(c) ==
    /\ phase[c] = "rendering"
    /\ \E length \in Length : Show(c, length)
    /\ UNCHANGED <<robotsVars, respect, browser, origin, mode, current, hops, text>>

\* The fallback counts only if it brings more text (mode "always": text is NoText).
Rendered(c) ==
    /\ phase[c] = "rendering"
    /\ \E length \in Length : Show(c, IF length > text[c] THEN length ELSE text[c])
    /\ UNCHANGED <<robotsVars, respect, browser, origin, mode, current, hops, text>>

\* _try_render catches an UpstreamError; a TimeoutProblem, which is a DomainError
\* of its own, goes on to the caller, as everything does without a fallback.
RenderFails(c) ==
    /\ phase[c] = "rendering"
    /\ \/ /\ text[c] # NoText
          /\ Show(c, text[c])
       \/ /\ \E how \in {"timeout", "crashed"} \cup (IF text[c] = NoText THEN {"upstream"} ELSE {}) :
                 Goes(c, how)
          /\ UNCHANGED shown
    /\ UNCHANGED <<robotsVars, respect, browser, origin, mode, current, hops, text>>

-------------------------------------------------------------------------------
\* Mutant: a cancelled fetch keeps its place in the lock's queue.
Cancel_LockKept(c) ==
    /\ phase[c] \notin Ended \cup {"idle"}
    /\ Goes(c, "cancelled")
    /\ UNCHANGED <<robotsVars, respect, browser, origin, mode, current, hops, text, shown>>

\* The task of the fetch is cancelled at its await.
Cancel(c) ==
    /\ phase[c] \notin Ended \cup {"idle"}
    /\ Goes(c, "cancelled")
    /\ IF phase[c] \in {"queued", "asking"} THEN QuitQueue(c, origin[c]) ELSE UNCHANGED queue
    /\ UNCHANGED <<now, refuses, since, copy, respect, browser,
                   origin, mode, current, hops, text, shown>>

Progress(c) ==
    \/ Resume(c) \/ Asked(c)
    \/ Redirect(c) \/ RequestFails(c) \/ Document(c)
    \/ Rendered(c) \/ RenderFails(c)

Outside ==
    /\ PassTime \/ \E s \in Public : Rewrite(s)
    /\ UNCHANGED <<respect, browser, fetchVars>>

Next ==
    \/ \E c \in Fetch : Reject(c) \/ Begin(c) \/ Progress(c) \/ Cancel(c)
    \/ Outside

Spec == Init /\ [][Next]_vars

\* The event loop runs what is ready, and each request and render has a timeout.
FairSpec == Spec /\ \A c \in Fetch : WF_vars(Progress(c))

-------------------------------------------------------------------------------
\* The steps in which a fetch goes on to the page itself.
Opens(c) ==
    /\ phase[c] \in {"idle", "queued", "asking"}
    /\ phase'[c] \in {"requesting", "rendering"}

\* A site that starts refusing crawlers does not go on being crawled: once its
\* robots.txt has refused for Ttl, no fetch of its pages begins, unless the last
\* attempt to read robots.txt failed (RobotsPolicy._parser_for).
SiteRefusalHeeded ==
    [][\A c \in Fetch :
           LET s == origin[c]
           IN  Opens(c) /\ respect /\ refuses[s] /\ now - since[s] >= Ttl
                   => copy'[s].says = "unread"]_vars

\* robots.txt is fetched once per Ttl whoever asks at the same time: a copy is
\* replaced only when it is no longer trusted (RobotsPolicy._parser_for).
OnceInATtl ==
    [][\A s \in Site : copy'[s] # copy[s] => ~Fresh(s)]_vars

\* What the browser can cost a page that HTTP brought: a thin text in mode "auto",
\* when the render times out, raises something unforeseen or is cancelled, and
\* nothing else.  Any other text is returned, a browser that is unavailable or
\* refused costs nothing, and what is returned is never thinner than what HTTP
\* brought (PageFetcher.fetch and _try_render).
RendersRiskThinTextOnly ==
    \A c \in Fetch : text[c] # NoText =>
        /\ phase[c] \notin {"refused", "upstream"}
        /\ phase[c] = "page" => shown[c] >= text[c]
        /\ phase[c] \in {"rendering", "timeout", "crashed", "cancelled"} =>
               mode[c] = "auto" /\ browser /\ text[c] < Threshold

\* Every fetch ends, one that waits for another's robots.txt included, whatever
\* becomes of the other (RobotsPolicy._parser_for).
EveryFetchEnds == \A c \in Fetch : phase[c] # "idle" ~> phase[c] \in Ended

\* page.py: "Attempt a render, returning ``None`` rather than failing the request.
\* The HTTP result is already in hand at this point, so a browser problem should
\* degrade to the thinner text rather than lose the page entirely."
ThinTextKept ==
    \A c \in Fetch : text[c] # NoText => phase[c] # "timeout"
===============================================================================
