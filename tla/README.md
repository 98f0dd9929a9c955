# Web Search API: a verification project in TLA+

The Web Search API (`src/app`) is one asyncio process: a FastAPI service that
runs batches of searches and page fetches, summarises what they find with a
person's own model provider, and can do all of this as a background job. There
is no database and no second process of its own. What is hard about it is what
happens between two `await`s: jobs queue for a semaphore and are cancelled while
they do, requests sleep on the outcome of jobs that are purged and evicted, a
browser is started lazily by whoever comes first, caches are refreshed while
others wait for them, and one failing task of a batch leaves its siblings running.

The modules here describe that part: each action is the code between two awaits
that suspend, and the data (texts, URLs, payloads) is reduced to what the
properties tell apart. Pure code (preferences, page parsing, the cut, the shape
of a chat body) is written as operators, which the modules of requests and of one query use.
TLC checks small instances of every module; TLAPS proves, for every value of the
constants, the safety of every component that is modelled: every invariant and every property
but liveness that a passing run checks is a theorem. It also proves the two refinements: the job runner implements its abstract
lifecycle, and a batch two calls of the abstract `bounded_gather`.

## The system

| Component | State | Operations | Interacts with | Hard | Correct when |
|---|---|---|---|---|---|
| Job store (`services/jobs/memory.py`, `base.py`) | jobs by id, an Event per job, a lock | put, get, list, purge, evict, wait for an outcome | runner and requests share the Job objects | late puts of dropped jobs, waits on jobs that are purged | unfinished jobs are kept, Events and jobs match, no lost wake-up |
| Job runner (`services/jobs/runner.py`, `routes/jobs.py`) | a semaphore, a task per job | submit, cancel, get, list, aclose | work of any route; the store | cancellation at every point of a task's life; shutdown | slots conserved, FIFO, outcomes kept, everything settles |
| Browser session (`services/fetch/browser.py`) | `_playwright`, `_browser` | start, render, close | search and page fetching call render; shutdown calls close | check-then-await, failed and cancelled launches | one browser, kept while used, released |
| Search router and backends (`services/search`) | none of its own | search with failover | browser, HTTP client, keyring | which errors fail over, when nothing found is an answer | first results win, nothing found is said only when all were tried |
| Batch search and bounded_gather (`services/pipelines.py`, `core/concurrency.py`) | the tasks of a batch | queries, pages, summaries | router, page fetcher, summariser | exceptions and cancellation among concurrent tasks | at most the limit in flight, complete results, nothing left behind |
| Model catalogue (`core/cache.py`, `services/llm/registry.py`) | a bounded map of TTL caches, a lock each | catalog, refresh, resolve, complete | probes every provider; jobs and requests | refresh during a probe, eviction of a cache in use | own catalogue, no stampede, bounded |
| Page fetching (`services/fetch/page.py`, `http.py`, `services/robots.py`, `services/urlsafety.py`) | robots.txt by origin, a lock per origin | fetch, redirects, render fallback | browser, HTTP client | validation at every hop, stale robots.txt, which errors fall back | no hop unvalidated, robots respected within the hour |
| Preferences (`services/preferences.py`) | none | for_token, deployment fallbacks | settings-api | outage, refusal, two reads | a person narrows what the deployment allows; unknown is never taken for empty |
| Keyring and tokens (`services/keyring`, `api/deps.py`) | signing keys of a library | verify, resolve a credential | jobs carry a credential | credential resolved early, catalogue resolved late | nobody's profile is guessed, the credential is the provider's own |
| Result pages (`services/search/serp_parser.py`) | none | detect an interstitial, read the first layout that has results | the Google backend | several layouts, duplicates, redirect links | ranks count what is kept |
| LLM providers (`services/llm/providers`) | none | list models, chat, retry once without a parameter | HTTP client | families of models that refuse keys | an accepted body, one retry, a note for whatever is dropped |
| Summaries and text (`services/llm/summarizer.py`, `capabilities.py`, `services/text`) | none | clean, extract, budget, truncate, read the reply | registry | boundaries of the budget, replies in a fence or in prose | never above the limit, no reply lost, citations match the results |
| Wiring and HTTP layer (`main.py`, `bootstrap.py`, `core`, `schemas`) | settings | construction, middleware, shutdown | everything | order of shutdown | nothing used after it is closed |

`PROJECT.json` lists the same components with their status, and under
`hazards` the places in the code where such a thing can go wrong, with the
properties that would notice.

## The modules

| Module | What it is |
|---|---|
| `JobStore` | the in-memory store: the helpers and operations of `memory.py` as parts of a step |
| `JobRunner` | `EXTENDS JobStore`: the tasks, `asyncio.Semaphore`, the job routes and `aclose` |
| `JobRunnerProperties` | the properties of the two together |
| `JobLifecycle` | the abstract specification: what a client that polls a job may see |
| `JobRefinement` | the refinement mapping from the runner and store to `JobLifecycle` |
| `JobRunnerProofs` | the proofs |
| `BrowserSession` | `start`, `render` and `close` of the shared browser, await by await |
| `SearchRouter` | the failover loop, for several queries at once |
| `SearchBatch` | `EXTENDS SearchRouter`: `run_search` over `bounded_gather` |
| `BoundedGather` | the abstract specification: what one call of `bounded_gather` promises whoever awaits it |
| `BatchRefinement` | the refinement mapping from a batch to two such calls, for its queries and its pages |
| `ModelCatalog` | the TTL cache and the registry's bounded set of caches |
| `RobotsPolicy` | the copies of robots.txt and their locks |
| `PageFetch` | `EXTENDS RobotsPolicy`: page fetches over HTTP and the browser |
| `Preferences` | what a person chose inside what the deployment allows, as operators |
| `CallerRequest` | `EXTENDS Preferences`: a summarised request from its token to the chat, at once or in a job, while settings, keys and the clock move |
| `PageText` | the cleaner, the extractor, the budget and the cut, on sequences of kinds of characters |
| `ResultPage` | Google's results page: interstitials, layouts, links, ranks; blocked domains |
| `ChatBody` | the capability rules and the body and notes of a chat |
| `QuerySummary` | `EXTENDS Preferences, PageText, ResultPage, ChatBody`: one query from the page to its summary |
| `MC_SearchBatch`, `MC_CallerRequest`, `MC_QuerySummary` | instances for TLC |
| `BrowserSessionProofs`, `SearchBatchProofs`, `ModelCatalogProofs`, `PageFetchProofs`, `CallerRequestProofs`, `QuerySummaryProofs` | the proofs about these |
| `PageProofs` | the proofs about `PageText` and `ResultPage`, which `QuerySummaryProofs` uses |

### Jobs

`record` is the heap of Job objects, which the dictionary, the task and the
requests share; `jobs` is the ids in `_jobs` and `settled` the Events in
`_settled`. Ids are handed out in the order of submission, which is also
`created_at` order, so `Victims` (the eviction) needs no clock. No critical section of
the store's lock contains an await, so `put`, `get` and `list` never suspend and
are parts of the caller's step: `Put` purges, inserts, sets the Event and evicts
as one. `task[j]` is where the task of a job stands; the comment at the head of
`JobRunner` lists the values. `Semaphore` is modelled from its use: a free slot
goes to the first waiter, a waiter cancelled after it was granted a slot gives it
back, and a queued acquire that ends hands out what is free. `Cancel` records the
job as cancelled while its task still unwinds; `Finish` is the task's own end,
which may come later and may be a failure.

`JobLifecycle` says what may happen to the answer of `GET /v1/jobs/{id}`.
`JobRefinement` maps the concrete state to it: a job is shown as it is recorded
while it is stored and unexpired, and as lost afterwards.

### The browser

One action is the code between two awaits of `start`, `render` or `close`.
Processes are named after the render that launched them. `overlapped` and
`abandoned` are history variables: whether two launches, or a launch and a
close, were ever under way at once, and which renders were cancelled while they launched.
Cancelling the await of `chromium.launch` does not stop the launch in Playwright's driver:
what was starting may still come up (`ComesUpUnowned`), and no field names it. The three
properties are of launches that do not overlap, and say nothing of what cancelled launches
leave behind. What they except is real: `BrowserSessionSingle` ends with two browsers after
launches that overlap, and a launch that follows a cancelled one, seven steps from the start,
has the same end. `Crash` is a browser process that ends by
itself: `_browser` goes on naming it and later renders fail in it, as the code does.

### Search

`SearchRouter` keeps for each query the rest of its order, its counter and its
verdict. One action is one turn of the loop. A backend's answer is one of:
not configured, results, nothing, an error that fails over
(`SearchBlockedError`, `UpstreamError`), another `DomainError`, another exception.
`SearchBatch` runs the queries as the tasks of `bounded_gather`, then reads the
pages of the queries that found something (one per query stands for the top
pages), then writes the summaries in order. An exception ends the batch but not its other
tasks, as `asyncio.gather` does without `return_exceptions`; a cancellation
cancels them.

`BoundedGather` says what one call may do, whatever its tasks are: they start in their order and
below the limit, the call returns with the results of all, raises with the first exception, or
takes its tasks with it when it is cancelled; tasks an exception left behind still keep to the limit.
`BatchRefinement` reads a batch as two such calls. The first is made as the batch begins; the second, for the
pages, at most once, and only when the first has returned. Where a call stands is
derived from the batch's stage and from how its tasks ended; no history is kept for it.

### The catalogue

A cache is named after the call that created it and a catalogue after the call
whose probe it came from. `queue[c]` is a cache's lock: its head holds it, or is next to
resume. `Come` is `catalog` as far as its first await: look the cache up, evict
the oldest if there is no room, invalidate, first peek. `dropped` is history:
the catalogues that a refresh of the call's key had dropped when it came.

### Page fetches

An address is its origin: `Public` is those `validate_url` lets through, and any
origin may be redirected to. `queue[s]` is the lock of an origin's robots.txt. `Begin` is `fetch` as far
as its first await, which is robots.txt, the first request or the browser. A
document is the length of its text, in units of which `Threshold` make a page
that needs no browser. `refuses` and `since` are the site's: what its robots.txt
says, and since when. An answer is what the site says when it arrives: the hour
of the code is counted from there, and the few seconds it may be under way (the
request's timeout) come on top.

### A summarised request

`CallerRequest` follows a request over everything it asks of others: `Come` verifies the
token, `Read` and `Reread` are the two resolves of `for_token`, `Submit` and
`ResolveJobAuth` are `resolve_job_auth`, `Summarize` is the summariser as far as the text
is cut, `Complete` and `CompleteWithCredential` are `registry.complete`. Each is one await and
reads the other service as it then is; `Edit` changes what the person has chosen
or revokes a credential, and `PassTime` lets tokens and catalogues expire, in between.
`theirs` and `connected` are what settings-api and keyring hold. `Faults` names how they may fail: settings-api out of reach
(`outage`), refusing two of its keys (`refusing`) or refusing this service
(`rejected`), keyring out of reach (`keyring`). Two histories state the properties:
`meant[r]`, what the person held when the settings of `r` were read, and
`asked[r]`, which providers were contacted on its behalf. `ModelCatalog` has the
locks of the same cache; here a call finds a fresh catalogue or probes.

### One query

`QuerySummary` is sequential: what is hard is how numbers and texts pass from one
operator to the next. A character is its kind (letter, mark, space, tab, newline,
invisible) with the address or rank it came from, so that a text shows what it was made of;
a page is its containers, each with how it links to which address; a model is its id and a
body the value of each key. The sequence is `Search` (the page, parsed and filtered), `Enrich` and `Fetch` (the pages of the
top results), `Cut` (the sections, the budget and the cut), `Post` and `Retry` (the
chat). The fetches end in any order; `fetched` keeps that order, and `Gathered` is what `bounded_gather` makes of it, the results in
the order of the factories. A state may also start at the chat, with any `ChatRequest` to any family of models.
The provider decides which adapter shapes the body, not the model's id: `Served` has Claude's models
with Anthropic and with an OpenAI-compatible provider (an aggregator or a local runtime), the others with the latter.

## The runs

| Run | Instance | Shows |
|---|---|---|
| `JobRunnerSafety` | 4 jobs, 2 slots, a store of 2, 1 request, no clock | slots, FIFO, statuses, evictions and shutdown: `SlotsConserved`, `FreeSlotIsPassedOn`, `NoOvertaking`, `StatusMatchesTask`, `UnfinishedKept`, `RemovalJustified`, `NothingRunsAfterClose` |
| `JobRunnerTime` | 2 jobs, 1 slot, a store of 1, 2 requests, clock to 2, retentions 0, 1 and the default 2, fairness | `EventsMatchJobs`, `NoLostWakeUp`, `OutcomeKept`, the refinement `ImplementsLifecycle`, `EveryJobSettles`, `EveryPollAnswered` |
| `BrowserSession` | 3 renders and the shutdown, crashes | `SerialLaunchesOwnOne`, `RenderKeepsItsBrowser`, `CloseReleasesAll` |
| `BrowserSessionSingle` | 2 renders | violated: `OneBrowserProcess` |
| `SearchBatch` | 3 queries, 2 at a time, 2 backends, every choice of a preferred backend, fairness | `FirstResultsWin`, `NothingFoundOnlyWhenAllTried`, `NoTaskLeftBehind`, the refinement `BatchGathers` (which has `NeverAboveLimit` in it), `EveryBatchEnds` |
| `SearchBatchFails` | 2 queries, 3 backends | violated: `FailingQueryIsItsOwn` |
| `ModelCatalog` | 3 calls, 2 keys, room for 1 cache, a TTL of 1, fairness | `OwnCatalogue`, `NoStampede`, `RefreshDropsStored`, `EveryCallEnds` |
| `PageFetch` | 2 fetches, an origin that passes the guard and one that does not, 1 redirect, a TTL of 1, fairness | `SiteRefusalHeeded`, `OnceInATtl`, `RendersRiskThinTextOnly`, `EveryFetchEnds` |
| `PageFetchThin` | 1 fetch | violated: `ThinTextKept` |
| `CallerRequest` | 2 requests, a local provider and two that need a credential, 2 profiles, one edit, a token and a catalogue that live for 1, every fault | `DisabledNeverAsked`, `ProfileNeverGuessed`, `CutForTheModelAsked`, `OwnCredential` |
| `CallerRequestJob` | 1 job, no faults, no edits | violated: `AcceptedJobSucceeds` |
| `QuerySummary` | every page of up to 3 links, 5 documents, 4 persons, 6 queries, 4 windows; 36 chat requests to every family of models through each adapter that serves it, 8 sets of refused keys, 19 replies | `ResultsAsShown`, `CitationsMatchResults`, `CutAtTheEdge`, `BodyAccepted`, `IntentsKeptOrNoted`, `RetriedOnceWithoutTheNamed`, `ReplyNotLost` |

Each run has its `.cfg` beside the modules. The four violated properties quote a
sentence of the repository the code does not keep; `PROJECT.json` gives the
lines. Every other property has a mutant there, an operator of the module that
changes one definition the way a plausible bug would, under which TLC finds the
property violated.

### The bounds, and why they are enough

- Four jobs on two slots: the smallest instance in which a slot is granted to one
  waiter while another is cancelled, a third waits behind and a fourth works. A
  store of two is over its cap with unfinished jobs alone, and with a mixture.
- Two jobs with a store of one and a clock to 2: a job can be evicted while its
  work unwinds, be put back late, and expire; a retention of 0 never expires, 1
  and 2 (the default) do. Two requests, so one can be woken by the purge of another.
- The proofs remove these bounds for the properties they cover: what stays are
  parameters of any size (`NJobs`, `MaxTime`, `MaxEdits`, the sets of requests, calls and renders).
- Three renders: one uses a browser while a second fails to launch and a third
  launches. The shutdown is a fourth call of `close`.
- Three queries, two at a time: one waits while two run, and one can fail with an
  exception while another runs and the third has not started. Two backends, one
  always configured and one per caller, in either order: the deployment's default
  names a backend that is not there, so the orders come from the persons' choices.
- Three calls for two keys with room for one cache: the third call can find its
  key's cache evicted while the first still probes in it. The clock reaches the TTL.
- Two fetches: one asks for robots.txt while the other waits for the lock. Text
  lengths below the threshold come in two sizes, so a render can bring more, as much or less.
- Two requests of one account share catalogues: one can store what the other is
  served, after the person has changed the list, the profile or a key. One edit and
  a clock to 1 reach every order of a request's steps with one change of each
  kind; three bodies cover no profile, a named one and a named model, at once and in a job. Two profiles, since one is
  the configured one. `Bodies`, `Lists`, `Unreliable` and `Faults` are bounds of the run only.
- The texts of `QuerySummary` are a few characters long and its limits as small, so that a
  budget falls before, on and after a boundary of words and lines; the persons ask for less, for more and
  for nothing; the windows leave no room, a little, and more than the limit.

`CHECK_DEADLOCK FALSE` is set throughout because the system really stops: the
server is closed, the batch answered, or every call made.

### Fairness

`JobRunner!FairSpec` asks weak fairness of each job's task and of each woken
request: the event loop runs every ready callback, and `work()` ends, since every outside
call it makes has a timeout. No request, timeout, cancellation or shutdown is
owed, so `EveryPollAnswered` does not lean on the poll's own timeout.
`SearchBatch!FairSpec` asks it of the batch's progress, `ModelCatalog!FairSpec`
of each call that holds or is handed a lock: providers are probed under a
deadline. `PageFetch!FairSpec` asks it of each fetch: requests and renders have
timeouts. No strong fairness is assumed anywhere.

## The proofs

Every theorem is about the specification of its module, for every value of the
constants that satisfies the named assumptions beside them: positive limits
(`JobStoreAssumption`, `MaxConcurrentAssumption`, `SearchBatchAssumption`, `RobotsAssumption`, `PageTextAssumption`), a list of
backends without repetitions (`SearchRouterAssumption`), names that differ from the ones that
stand for nobody and nothing (`BrowserSessionAssumption`,
`ModelCatalogAssumption`, `PreferencesAssumption`, `ResultPageAssumption`), and types
(`PageFetchAssumption`, `QuerySummaryAssumption`, and `CallerRequestAssumption`, which also asks that among any
models one sorts first). `AbsentAssumption` says that a key that is missing from a body differs from
every value a key may have. TLC evaluates each on the runs of its module.

- `JobRunnerProofs` begins with the store: `StoreInv` (the store's type, `UnfinishedKept`,
  `EventsMatchJobs`, `NoLostWakeUp`, and that finished jobs have their finishing
  time), and what each of the store's operations preserves: a `Put` that
  moves one job forward, a purge, the two halves of a long poll. `IInv` joins `StoreInv` with the type and
  `StatusMatchesTask`. The join is needed because neither is inductive
  alone: that a put never drops an unfinished job rests on the status the task is about
  to record, and that a task records a legal status rests on what the store
  shows. One step per action; from it come `TypeCorrect`, `UnfinishedAlwaysKept`,
  `EventsAlwaysMatch`, `NeverALostWakeUp` and `StatusAlwaysMatches`.
  The semaphore follows: `SlotInv` joins `SlotsConserved`, `FreeSlotIsPassedOn`,
  `NoOvertaking` and `BegunInOrder` (tasks take their first step in the order they
  were created), which `NoOvertaking` needs. The counting steps use the
  library's cardinality theorems. The end of `aclose` follows from both invariants.
  Two action properties come next, `OutcomeAlwaysKept` and `RemovalAlwaysJustified`,
  the latter from what a put and a purge may drop (`PutRemoves`, `PurgeRemoves`), and at the end
  `RunnerImplementsLifecycle`: the initial states map to initial states, and every
  step, split on `Next`, to an allowed step of one job with the others only
  losing their record, or to a stutter.
- `BrowserSessionProofs`: while no two launches have overlapped, at most one call changes
  the session and what runs is what the fields name (`Owned`, `DriverOwned`); that the
  shutdown is alone with it is `Stopping`. None of the three properties is inductive without them:
  a second call between two awaits is what would break each. From them come all three
  properties of the run, for any number of renders. What cancelled launches leave is counted in none of them: that it is
  more than one browser is said under "What does not agree".
- `ModelCatalogProofs`: `OwnCatalogue` needs that stored catalogues and looked-up caches
  are of their key (`SameKey`, `Placed`); `RefreshDropsStored` needs that a key has one registered
  cache at a time (`Unique`) and that no waiting call's cache, evicted or not, holds what was dropped
  (`NotStored`). A probe that ends is new, so nothing has dropped it. `NoStampede` needs that whoever probes is at the head
  of its cache's lock (`Lock`), and that until something expires or is refreshed what was stored stays and whoever
  probes has found nothing (`Kept`): the second look at the cache, once the lock is held, is what the last step rests on.
- `SearchBatchProofs`: `NeverAboveLimit` by counting, and `NoTaskLeftBehind` from `Settled`, which says
  what a gather leaves at each stage. `FirstResultsWin` and `NothingFoundOnlyWhenAllTried` come from `RInv`: a query on its way has
  passed some first backends of its order, has asked none of the others, and has counted fewer than it passed if one
  was skipped (`OnItsWay`); one that has asked as many as there are has been answered by the last (`AllBeforeTheLast`). That a preferred backend moves to the front without being listed twice is `OrderedIsAnOrder`.
  The refinements need `Told`, what the stage of a batch tells about its tasks: none has raised or was cancelled while
  their call runs, and a batch that has raised has a task that did, or is past both calls. Without it a second exception, or the
  end of a task left behind, could not be told from the end of the call. `SearchGathered`, `FetchGathered`, `PagesMade` and the
  two lemmas about cancellation map each step to a step of the call or to a stutter, which gives `GathersItsQueries`, `GathersItsPages` and, of both, `GathersItsTasks`.
- `PageFetchProofs`: a fetch that asks for robots.txt is at the head of its origin's lock and
  no copy has come to be trusted since it looked (`Held`), which is `AlwaysOnceInATtl`; a copy that allows what is now refused
  is older than the refusal (`Dated`), which gives `AlwaysSiteRefusalHeeded`; and once HTTP has brought a
  text a fetch has been shown as much, or is or was in a fallback that only thin texts of automatic fetches are given to (`Brought`),
  which gives `RendersAlwaysRiskThinTextOnly`. That such a text may be lost to a navigation that times out, a crash or a
  cancellation is part of the property; a sentence of the code that says otherwise is what `PageFetchThin` violates. Any number of fetches,
  origins and redirects.
- `CallerRequestProofs`: `Sound(r)` says of one request when it has begun, whom it acts for, what it
  may contact, which model it chose and whose credential it holds; `Cached` that a stored catalogue
  holds no model of a provider its key disables, which is what makes sharing safe. A step of one
  request leaves the others sound (`OthersSound`), so each action is proved for the request that takes it. From it come
  all four properties of the run and `TypeCorrect`; `ChoicesOnlyNarrow` is about
  `Preferences` alone: a person can only narrow what the deployment allows.
- `QuerySummaryProofs` proves the chat for every `ChatRequest`, every set of refused keys and every answer. `IInv` says
  what was posted and noted at each stage (`Sent`), which gives `AlwaysRetriedOnce` together with `RefusedTwice`, and `AlwaysReplyNotLost` by
  `Settled`. `FirstRule` and `HasOfModel` work out what the table of rules says of each
  model, from the patterns' order; `AlwaysBodyAccepted` and `AlwaysIntentsKeptOrNoted` then follow one key at a time, for
  the OpenAI body, Anthropic's, and the body of a retry. Two things are excepted and neither theorem says anything of them: the OpenAI
  body of a Claude model may have a temperature along with a thinking budget, and Anthropic's adapter drops JSON mode without a note.
  The text has an invariant of its own, `TextIInv`: what is shown is as the page has it (`ResultsAsShown`, which here is part
  of the invariant); while pages are read, whatever order they come in, each text that came is of the address of its own result and as
  the cleaner leaves one (`TextFrom`); and what is cut has a section for each result, under the heading with its rank
  (`Cites`). `AlwaysResultsAsShown`, `AlwaysCitationsMatchResults` and `AlwaysCutAtTheEdge` follow, for pages, texts and lists of results of any length.
- `PageProofs` has what those rest on. The code's loops over lines, characters and containers are folds in the models. A fold is
  worked out from the sequence of its intermediate results, and the induction over its length is a search for the
  least length at which a claim fails, for the induction theorems of the library cannot be instantiated.
  `ParseRanks` says which addresses with which ranks are read off any page; `JoinedSectionsCite` that joining sections keeps every
  heading and leaves every character under its own; the cleaner never leaves four characters of whitespace in a row, nor a tab;
  and `TruncateKeepsABeginning` and `TruncateLosesLittle` are about the cut of any text at any limit.

Only model-checked: all liveness (`EveryJobSettles`, `EveryPollAnswered`, `EveryBatchEnds`, `EveryCallEnds`, `EveryFetchEnds`), which with
`ENABLED` is out of this prover's reach, and that the four violated properties are violated. `RECURSIVE` operators are
out of its reach too; no module declares one. Where the code takes an element out of a sequence, the models use the
library's `RemoveFirst`, which is not recursive and whose effect can be proved.

## What the models leave out

- Ids, timestamps other than `finished_at`, results, error payloads and logging. The clock
  never goes backwards, while `time.time` may be set back.
- `InMemoryJobStore.delete`, which no code of the program calls.
- Requests that arrive after `aclose` has begun: the server drains them before
  the lifespan ends.
- A `close` that is cancelled half-way; a cancelled `work()` that swallows its
  cancellation.
- The shutdown of tasks that a failed batch has left behind, which are no jobs
  (bootstrap.py:59).
- More than one page per query in `SearchBatch`, and the other two batch routes.
- What `validate_url` looks at, and that names may resolve differently later; the
  size cap of a body.
- How a token is verified, OAuth credentials that expire, and requests of several accounts
  (the account is part of a cache's key, which `ModelCatalog` has).
- Language, region, recency, the preferred backend, the length of a summary and a person's notes,
  which pass through `Preferences` unchanged.
- Which markup matches a selector, titles, snippets' wording, and the wording of the prompt.
- Construction, configuration, schemas, middleware, logging and the scripts under `src/scripts`: they
  keep no state a step of another component reads.

## What does not agree

The four violated runs are the findings of `PROJECT.json`: two first renders launch two
browsers; an exception that is no `DomainError` fails a batch; a navigation that times out loses the text HTTP had brought;
and a job accepted with a good credential fails because its model is looked up again with the caller's expired token.
The following were met while modelling and have no run of their own; the models do what the code does in each, and the
property named with it is stated so that it says nothing of the disputed case:

- A render cancelled while it awaits `chromium.launch` leaves `_browser` None, for `start` cleans up after an `Exception` and
  `CancelledError` is none (browser.py:159-164). Playwright's driver goes on with the launch; the next render finds no browser
  and launches a second, although docs/operations.md:223 says "One browser process is shared by every request in a replica".
  `SerialLaunchesOwnOne` and `CloseReleasesAll` do not count what was abandoned.
- An empty answer of the last backend is an error when another backend is not configured, for router.py:83 compares the
  backends attempted with all there are. README.md:222-223 says "Zero results from the last backend is returned as a genuine
  empty answer, not an error." `NothingFoundOnlyWhenAllTried` says when nothing found may be the end, not which of the two it is.
- Anthropic's adapter drops JSON mode, which every summary asks for, without reporting it (`_build_kwargs`, anthropic.py:127),
  although README.md:181-182 says "Every change is reported back in `param_adjustments`." `IntentsKeptOrNoted` asks it of
  JSON mode of the OpenAI-compatible providers only.

- A Claude model with a thinking budget that an OpenAI-compatible provider serves is sent a temperature as well, which
  tests/unit/test_capabilities.py:137-142 expects, while anthropic.py says of Anthropic's own API that sending both "turned
  every such call into a 400". Whether a provider refuses both is the provider's; `BodyAccepted` asks it of Anthropic only.
- `started` ("Whether the underlying browser process is running.", browser.py) stays true after a
  crash, or of a browser whose driver a failed launch has stopped.
- A terminal job may still become failed, by the end of its task after a cancellation (runner.py:154), although
  `is_terminal` in jobs/base.py:29 says that no further transition is possible.
- `?refresh=true` (README.md:162) may be answered with a probe that was already under way (cache.py:63).
- A job whose default model falls back to another provider's is sent with the first provider's credential
  (registry.py, `complete`); `OwnCredential` is therefore stated of requests answered at once.
- A model whose window leaves a budget of zero gives an empty summary without an error
  (truncate.py:83).
- A catalogue probed with an expired token, and so without any credentialed provider, is stored for the
  next request of that key (registry.py).

## Plan

Done: `JobStore`, `JobRunner`, `JobLifecycle` with their refinement; `BrowserSession`;
`SearchRouter` and `SearchBatch`, with the refinement of `BoundedGather`; `ModelCatalog`; `RobotsPolicy` and `PageFetch`;
`Preferences`, `CallerRequest`; `PageText`, `ResultPage`, `ChatBody`, `QuerySummary`; and the proofs above.
What would come next:

1. `Shutdown`: `SearchBatch`, `JobRunner` and `BrowserSession` composed in the order of
   `Services.aclose`, with the tasks a failed batch left behind.
2. `run_scrape` over `PageFetch`, with its numbering of pages.
3. An abstract specification of the catalogue (a key has one current catalogue, or none) that `ModelCatalog` implements,
   with its proof.
4. Several pages per query in `SearchBatch`.
