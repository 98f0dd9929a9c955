---------------------------- MODULE BrowserSession ----------------------------
(***************************************************************************)
(* The shared headless browser (src/app/services/fetch/browser.py).        *)
(*                                                                         *)
(* Renders run concurrently on one PlaywrightBrowserSession.  start tests  *)
(* _browser and then awaits twice before it sets it; close clears each     *)
(* field only after awaiting the process it names.  One action is the code *)
(* between two such awaits.  A driver and a browser are named after the    *)
(* render that launched them, for each render launches at most one pair,   *)
(* the browser always on its own driver.  Cancelling the await of a launch *)
(* does not stop the launch: what was starting may still come up, and then *)
(* no field names it.                                                      *)
(***************************************************************************)
EXTENDS Integers, FiniteSets

CONSTANTS
    Render,      \* calls of render, each made once
    Shutdown,    \* the call of close when the server stops
    None

ASSUME BrowserSessionAssumption == Shutdown \notin Render /\ None \notin Render \cup {Shutdown}

VARIABLES
    playwright,  \* _playwright: whose driver it is, or None
    browser,     \* _browser: whose browser it is, or None
    driver,      \* the driver processes
    chrome,      \* the browser processes
    pc,          \* where each call stands
    target,      \* the process a call of close awaits the end of
    using,       \* the browser a render has its context in
    overlapped,  \* history: a launch began while a launch or a close was under way
    abandoned,   \* history: the renders cancelled while they launched
    crashed      \* history: the browsers that ended by themselves

vars == <<playwright, browser, driver, chrome, pc, target, using, overlapped, abandoned, crashed>>

Caller == Render \cup {Shutdown}

Process == {"none", "starting", "running", "ended"}

\* The fields name processes, and a call of close that awaits an end has one to
\* await (close: the tests of _browser and _playwright).
TypeOK ==
    /\ playwright \in Render \cup {None}
    /\ browser \in Render \cup {None}
    /\ driver \in [Render -> Process]
    /\ chrome \in [Render -> Process]
    /\ pc \in [Caller -> {"idle", "driving", "launching", "rendering",
                          "closing", "stopping", "done", "failed"}]
    /\ target \in [Caller -> Render \cup {None}]
    /\ \A c \in Caller : pc[c] \in {"closing", "stopping"} => target[c] \in Render
    /\ using \in [Render -> Render \cup {None}]
    /\ overlapped \in BOOLEAN
    /\ abandoned \in SUBSET Render
    /\ crashed \in SUBSET Render

Init ==
    /\ playwright = None
    /\ browser = None
    /\ driver = [r \in Render |-> "none"]
    /\ chrome = [r \in Render |-> "none"]
    /\ pc = [c \in Caller |-> "idle"]
    /\ target = [c \in Caller |-> None]
    /\ using = [r \in Render |-> None]
    /\ overlapped = FALSE
    /\ abandoned = {}
    /\ crashed = {}

Running(process) == {r \in Render : process[r] = "running"}

\* A call is between the test and the assignments of start, or inside close.
Changing(c) == pc[c] \in {"driving", "launching", "closing", "stopping"}

-------------------------------------------------------------------------------
\* render.

\* Mutant: start without its first test.
Enter_AlwaysLaunches(r) ==
    /\ pc[r] = "idle"
    /\ pc[Shutdown] = "idle"
    /\ pc' = [pc EXCEPT ![r] = "driving"]
    /\ driver' = [driver EXCEPT ![r] = "starting"]
    /\ overlapped' = (overlapped \/ \E c \in Caller \ {r} : Changing(c))
    /\ UNCHANGED <<playwright, browser, chrome, target, using, abandoned, crashed>>

\* start finds a browser and returns at once, so the render opens its context
\* in it; or it begins to launch one, the driver first.
Enter(r) ==
    /\ pc[r] = "idle"
    /\ pc[Shutdown] = "idle"
    /\ \/ /\ browser # None
          /\ pc' = [pc EXCEPT ![r] = "rendering"]
          /\ using' = [using EXCEPT ![r] = browser]
          /\ UNCHANGED <<driver, overlapped>>
       \/ /\ browser = None
          /\ pc' = [pc EXCEPT ![r] = "driving"]
          /\ driver' = [driver EXCEPT ![r] = "starting"]
          /\ overlapped' = (overlapped \/ \E c \in Caller \ {r} : Changing(c))
          /\ UNCHANGED using
    /\ UNCHANGED <<playwright, browser, chrome, target, abandoned, crashed>>

\* The driver is up; the browser is launched on it.
DriverUp(r) ==
    /\ pc[r] = "driving"
    /\ pc' = [pc EXCEPT ![r] = "launching"]
    /\ driver' = [driver EXCEPT ![r] = "running"]
    /\ chrome' = [chrome EXCEPT ![r] = "starting"]
    /\ playwright' = r
    /\ UNCHANGED <<browser, target, using, overlapped, abandoned, crashed>>

\* The browser is up.  Nothing suspends between its assignment and the opening
\* of the context, so the assert in render holds.
BrowserUp(r) ==
    /\ pc[r] = "launching"
    /\ chrome[r] = "starting"
    /\ chrome' = [chrome EXCEPT ![r] = "running"]
    /\ browser' = r
    /\ using' = [using EXCEPT ![r] = r]
    /\ pc' = [pc EXCEPT ![r] = "rendering"]
    /\ UNCHANGED <<playwright, driver, target, overlapped, abandoned, crashed>>

\* Mutant: a render closes the browser and not just its context.
Rendered_ClosesBrowser(r) ==
    /\ pc[r] = "rendering"
    /\ pc' = [pc EXCEPT ![r] = "done"]
    /\ chrome' = [chrome EXCEPT ![using[r]] = "ended"]
    /\ browser' = None
    /\ UNCHANGED <<playwright, driver, target, using, overlapped, abandoned, crashed>>

\* The page has been read, or the navigation failed: the context is closed.
Rendered(r) ==
    /\ pc[r] = "rendering"
    /\ \/ chrome[using[r]] = "running" /\ pc' = [pc EXCEPT ![r] = "done"]
       \/ pc' = [pc EXCEPT ![r] = "failed"]
    /\ UNCHANGED <<playwright, browser, driver, chrome, target, using, overlapped, abandoned, crashed>>

\* A render is cancelled: CancelledError is no Exception, so start does not clean
\* up after it, and what it was starting goes on starting.
Cancelled(r) ==
    /\ pc[r] \in {"driving", "launching", "rendering"}
    /\ pc' = [pc EXCEPT ![r] = "failed"]
    /\ abandoned' = abandoned \cup {x \in {r} : pc[r] # "rendering"}
    /\ UNCHANGED <<playwright, browser, driver, chrome, target, using, overlapped, crashed>>

\* The driver or the browser of an abandoned launch comes up all the same.
ComesUpUnowned(r) ==
    /\ pc[r] = "failed"
    /\ \/ /\ driver[r] = "starting"
          /\ driver' = [driver EXCEPT ![r] = "running"]
          /\ UNCHANGED chrome
       \/ /\ chrome[r] = "starting"
          /\ chrome' = [chrome EXCEPT ![r] = "running"]
          /\ UNCHANGED driver
    /\ UNCHANGED <<playwright, browser, pc, target, using, overlapped, abandoned, crashed>>

-------------------------------------------------------------------------------
\* close, by a render whose launch failed or by the shutdown.

\* Where a call of close ends.
Ended(c) == IF c = Shutdown THEN "done" ELSE "failed"

\* The second half of close: stop the driver _playwright names, if any.
StopDriver(c) ==
    IF playwright = None
    THEN pc' = [pc EXCEPT ![c] = Ended(c)] /\ UNCHANGED target
    ELSE pc' = [pc EXCEPT ![c] = "stopping"] /\ target' = [target EXCEPT ![c] = playwright]

\* close as far as its first await.
BeginClose(c) ==
    IF browser = None
    THEN StopDriver(c)
    ELSE pc' = [pc EXCEPT ![c] = "closing"] /\ target' = [target EXCEPT ![c] = browser]

\* A process that was starting has not come up.
Fails(state) == IF state = "starting" THEN "ended" ELSE state

\* Mutant: a failed launch does not close the driver it started.
LaunchFails_NoClose(r) ==
    /\ pc[r] \in {"driving", "launching"}
    /\ driver' = [driver EXCEPT ![r] = Fails(@)]
    /\ chrome' = [chrome EXCEPT ![r] = Fails(@)]
    /\ pc' = [pc EXCEPT ![r] = "failed"]
    /\ UNCHANGED <<playwright, browser, target, using, overlapped, abandoned, crashed>>

\* The driver or the browser does not start, for whatever reason.
LaunchFails(r) ==
    /\ pc[r] \in {"driving", "launching"}
    /\ driver' = [driver EXCEPT ![r] = Fails(@)]
    /\ chrome' = [chrome EXCEPT ![r] = Fails(@)]
    /\ BeginClose(r)
    /\ UNCHANGED <<playwright, browser, using, overlapped, abandoned, crashed>>

\* The server stops: no request is left.
ShutDown ==
    /\ pc[Shutdown] = "idle"
    /\ \A r \in Render : pc[r] \in {"idle", "done", "failed"}
    /\ BeginClose(Shutdown)
    /\ UNCHANGED <<playwright, browser, driver, chrome, using, overlapped, abandoned, crashed>>

\* The browser has ended; _browser is cleared, whatever it names by now.
BrowserEnds(c) ==
    /\ pc[c] = "closing"
    /\ chrome' = [chrome EXCEPT ![target[c]] = "ended"]
    /\ browser' = None
    /\ StopDriver(c)
    /\ UNCHANGED <<playwright, driver, using, overlapped, abandoned, crashed>>

\* The driver has ended, and any browser still on it with it.
DriverEnds(c) ==
    /\ pc[c] = "stopping"
    /\ driver' = [driver EXCEPT ![target[c]] = "ended"]
    /\ chrome' = [chrome EXCEPT ![target[c]] = IF @ = "none" THEN "none" ELSE "ended"]
    /\ playwright' = None
    /\ pc' = [pc EXCEPT ![c] = Ended(c)]
    /\ UNCHANGED <<browser, target, using, overlapped, abandoned, crashed>>

\* A browser process dies by itself; _browser goes on naming it.
Crash(r) ==
    /\ chrome[r] = "running"
    /\ chrome' = [chrome EXCEPT ![r] = "ended"]
    /\ crashed' = crashed \cup {r}
    /\ UNCHANGED <<playwright, browser, driver, pc, target, using, overlapped, abandoned>>

-------------------------------------------------------------------------------
Next ==
    \/ \E r \in Render :
          \/ Enter(r) \/ DriverUp(r) \/ BrowserUp(r) \/ Rendered(r) \/ LaunchFails(r)
          \/ Cancelled(r) \/ ComesUpUnowned(r) \/ Crash(r)
    \/ ShutDown
    \/ \E c \in Caller : BrowserEnds(c) \/ DriverEnds(c)

Spec == Init /\ [][Next]_vars

-------------------------------------------------------------------------------
\* Launches that do not overlap leave at most one browser and one driver besides
\* those of abandoned launches: start, close and the failure path of a launch hand
\* over to each other without a leak, and a later launch displaces nothing but what
\* was abandoned.
SerialLaunchesOwnOne ==
    ~overlapped =>
        /\ Cardinality(Running(chrome) \ abandoned) <= 1
        /\ Cardinality(Running(driver) \ abandoned) <= 1

\* While launches do not overlap, no render has its browser closed under it: it is
\* in the one _browser names, which runs unless it has crashed.
RenderKeepsItsBrowser ==
    \A r \in Render : ~overlapped /\ pc[r] = "rendering" =>
        /\ using[r] = browser
        /\ chrome[using[r]] = "running" \/ using[r] \in crashed

\* After the shutdown's close no process is left but those of abandoned launches, if
\* launches did not overlap.
CloseReleasesAll ==
    pc[Shutdown] = "done" /\ ~overlapped =>
        /\ Running(chrome) \subseteq abandoned
        /\ Running(driver) \subseteq abandoned

\* browser.py: "owns a single browser process"; docs/operations.md: "One browser
\* process is shared by every request in a replica".  Two launches that overlap violate
\* it, and so does one that follows a launch that was cancelled.
OneBrowserProcess == Cardinality(Running(chrome)) <= 1
===============================================================================
