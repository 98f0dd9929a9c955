------------------------- MODULE BrowserSessionProofs -------------------------
(***************************************************************************)
(* What the browser session owns, for any number of renders, any crashes   *)
(* and any interleaving in which launches do not overlap.                  *)
(***************************************************************************)
EXTENDS BrowserSession, FiniteSetTheorems, TLAPS

\* As long as no two launches have overlapped, at most one call is changing the session,
\* and the fields name all that runs but what was abandoned: the running browser is the one
\* _browser names, the running driver the one _playwright names.
Owned ==
    ~overlapped =>
        /\ \A c, d \in Caller : Changing(c) /\ Changing(d) => c = d
        /\ \A r \in Render \ abandoned : chrome[r] = "running" => browser = r
        /\ browser # None => chrome[browser] = "running" \/ browser \in crashed
        /\ \A c \in Caller : pc[c] = "closing" => c = Shutdown /\ target[c] = browser
        /\ \A c \in Caller : pc[c] \in {"driving", "launching", "stopping"} => browser = None
        /\ \A r \in Render : pc[r] = "rendering" => browser # None /\ using[r] = browser

DriverOwned ==
    ~overlapped =>
        /\ \A r \in Render \ abandoned : driver[r] = "running" => playwright = r
        /\ \A c \in Caller : pc[c] = "driving" => playwright \in {None} \cup abandoned
        /\ \A c \in Caller : pc[c] = "launching" => playwright = c
        /\ \A c \in Caller : pc[c] = "stopping" => target[c] = playwright
        /\ browser = None /\ playwright \notin {None} \cup abandoned =>
               \E c \in Caller : pc[c] \in {"launching", "stopping"}

\* What is starting belongs to the render that is launching it, or was abandoned.
Starting ==
    \A r \in Render :
        /\ driver[r] = "starting" => pc[r] = "driving" \/ r \in abandoned
        /\ chrome[r] = "starting" => pc[r] = "launching" \/ r \in abandoned

\* Once the server is stopping no render goes on, and nothing is named at the end.
Stopping ==
    /\ pc[Shutdown] \notin {"driving", "launching", "rendering"}
    /\ pc[Shutdown] # "idle" => \A r \in Render : pc[r] \in {"idle", "done", "failed"}
    /\ pc[Shutdown] = "done" /\ ~overlapped => browser = None /\ playwright = None

IInv == TypeOK /\ Owned /\ DriverOwned /\ Starting /\ Stopping

-------------------------------------------------------------------------------
LEMMA InitIInv == Init => IInv
<1> SUFFICES ASSUME Init PROVE IInv
    OBVIOUS
<1> USE BrowserSessionAssumption DEF Init, Caller, Process, Changing
<1>1. TypeOK
    BY DEF TypeOK
<1>2. Owned
    BY DEF Owned
<1>3. DriverOwned
    BY DEF DriverOwned
<1>4. Starting
    BY DEF Starting
<1>5. Stopping
    BY DEF Stopping
<1>6. QED
    BY <1>1, <1>2, <1>3, <1>4, <1>5 DEF IInv

\* One lemma per action: what it keeps of the invariant.
LEMMA EnterIInv ==
    ASSUME IInv, NEW r \in Render, Enter(r) PROVE IInv'
<1> USE BrowserSessionAssumption
<1>1. /\ overlapped' \in BOOLEAN
      /\ ~overlapped' => ~overlapped
    BY Zenon DEF IInv, TypeOK, Enter
<1>2. TypeOK'
    BY <1>1 DEF IInv, TypeOK, Enter, Caller, Process
<1>3. CASE browser # None /\ pc' = [pc EXCEPT ![r] = "rendering"]
           /\ using' = [using EXCEPT ![r] = browser] /\ driver' = driver
    <2>1. Owned'
        BY <1>1, <1>3 DEF IInv, TypeOK, Enter, Owned, Caller, Changing
    <2>2. DriverOwned'
        BY <1>1, <1>3 DEF IInv, TypeOK, Enter, DriverOwned, Caller
    <2>3. QED
        BY <1>2, <2>1, <2>2, <1>3 DEF IInv, TypeOK, Enter, Starting, Stopping, Caller
<1>4. CASE browser = None /\ pc' = [pc EXCEPT ![r] = "driving"] /\ using' = using
           /\ driver' = [driver EXCEPT ![r] = "starting"]
    <2>1. ~overlapped' => \A c \in Caller \ {r} : ~Changing(c)
        BY <1>4, Zenon DEF Enter
    <2>2. Owned'
        BY <1>1, <1>4, <2>1 DEF IInv, TypeOK, Enter, Owned, Caller, Changing
    <2>3. DriverOwned'
        BY <1>1, <1>4, <2>1 DEF IInv, TypeOK, Enter, DriverOwned, Caller, Changing
    <2>4. Starting'
        BY <1>4 DEF IInv, TypeOK, Enter, Starting, Caller
    <2>5. QED
        BY <1>2, <2>2, <2>3, <2>4, <1>4 DEF IInv, TypeOK, Enter, Stopping, Caller
<1>5. QED
    BY <1>3, <1>4 DEF Enter

LEMMA DriverUpIInv ==
    ASSUME IInv, NEW r \in Render, DriverUp(r) PROVE IInv'
<1> USE BrowserSessionAssumption DEF IInv, TypeOK, DriverUp, Caller, Process, Changing
<1>1. TypeOK'
    OBVIOUS
<1>2. Owned'
    BY DEF Owned
<1>3. DriverOwned'
    BY DEF DriverOwned, Owned
<1>4. Starting'
    BY DEF Starting
<1>5. Stopping'
    BY DEF Stopping
<1>6. QED
    BY <1>1, <1>2, <1>3, <1>4, <1>5

LEMMA BrowserUpIInv ==
    ASSUME IInv, NEW r \in Render, BrowserUp(r) PROVE IInv'
<1> USE BrowserSessionAssumption DEF IInv, TypeOK, BrowserUp, Caller, Process, Changing
<1>1. TypeOK'
    OBVIOUS
<1>2. Owned'
    BY DEF Owned
<1>3. DriverOwned'
    BY DEF DriverOwned, Owned
<1>4. Starting'
    BY DEF Starting
<1>5. Stopping'
    BY DEF Stopping
<1>6. QED
    BY <1>1, <1>2, <1>3, <1>4, <1>5

\* A render that ends, however it does, changes nothing but where it stands; one that
\* is cancelled while it launches leaves what it started behind.
LEMMA RenderEndsIInv ==
    ASSUME IInv, NEW r \in Render, Rendered(r) \/ Cancelled(r) PROVE IInv'
<1> USE BrowserSessionAssumption
<1>1. /\ pc[r] \in {"driving", "launching", "rendering"}
      /\ UNCHANGED <<playwright, browser, driver, chrome, target, using, overlapped, crashed>>
      /\ pc' = [pc EXCEPT ![r] = "done"] \/ pc' = [pc EXCEPT ![r] = "failed"]
    BY DEF Rendered, Cancelled
<1>2. /\ abandoned' \in SUBSET Render
      /\ abandoned \subseteq abandoned'
      /\ pc[r] # "rendering" => r \in abandoned'
    <2>1. CASE Rendered(r)
        BY <2>1 DEF IInv, TypeOK, Rendered
    <2>2. CASE Cancelled(r)
        BY <2>2 DEF IInv, TypeOK, Cancelled
    <2>3. QED
        BY <2>1, <2>2
<1>3. /\ pc' \in [Caller -> {"idle", "driving", "launching", "rendering",
                            "closing", "stopping", "done", "failed"}]
      /\ pc'[r] \in {"done", "failed"}
      /\ \A c \in Caller : c # r => pc'[c] = pc[c]
      /\ r \in Caller /\ r # Shutdown
    BY <1>1 DEF IInv, TypeOK, Caller
<1>4. TypeOK'
    BY <1>1, <1>2, <1>3 DEF IInv, TypeOK
<1>5. \A c \in Caller : Changing(c)' => Changing(c)
    BY <1>3 DEF Changing
<1>6. Owned'
    BY <1>1, <1>2, <1>3, <1>5 DEF IInv, Owned, Caller
<1>7. DriverOwned'
    BY <1>1, <1>2, <1>3 DEF IInv, DriverOwned, Caller
<1>8. Starting'
    BY <1>1, <1>2, <1>3 DEF IInv, Starting, Caller
<1>9. Stopping'
    BY <1>1, <1>3 DEF IInv, Stopping, Caller
<1>10. QED
    BY <1>4, <1>6, <1>7, <1>8, <1>9 DEF IInv

\* What comes up unowned was abandoned: a launch that failed leaves nothing starting.
LEMMA ComesUpUnownedIInv ==
    ASSUME IInv, NEW r \in Render, ComesUpUnowned(r) PROVE IInv'
<1> USE BrowserSessionAssumption DEF IInv, TypeOK, ComesUpUnowned, Caller, Process, Changing
<1>1. TypeOK'
    OBVIOUS
<1>2. Owned'
    BY DEF Owned, Starting
<1>3. DriverOwned'
    BY DEF DriverOwned, Starting
<1>4. Starting'
    BY DEF Starting
<1>5. Stopping'
    BY DEF Stopping
<1>6. QED
    BY <1>1, <1>2, <1>3, <1>4, <1>5

LEMMA LaunchFailsIInv ==
    ASSUME IInv, NEW r \in Render, LaunchFails(r) PROVE IInv'
<1> USE BrowserSessionAssumption
    DEF IInv, TypeOK, LaunchFails, BeginClose, StopDriver, Fails, Ended, Caller, Process, Changing
<1>1. TypeOK'
    OBVIOUS
<1>2. Owned'
    BY DEF Owned
<1>3. DriverOwned'
    BY DEF DriverOwned, Owned
<1>4. Starting'
    BY DEF Starting
<1>5. Stopping'
    BY DEF Stopping
<1>6. QED
    BY <1>1, <1>2, <1>3, <1>4, <1>5

LEMMA ShutDownIInv ==
    ASSUME IInv, ShutDown PROVE IInv'
<1> USE BrowserSessionAssumption
    DEF IInv, TypeOK, ShutDown, BeginClose, StopDriver, Ended, Caller, Process, Changing
<1>1. TypeOK'
    OBVIOUS
<1>2. Owned'
    BY DEF Owned
<1>3. DriverOwned'
    BY DEF DriverOwned, Owned
<1>4. Starting'
    BY DEF Starting
<1>5. Stopping'
    BY DEF Stopping
<1>6. QED
    BY <1>1, <1>2, <1>3, <1>4, <1>5

LEMMA BrowserEndsIInv ==
    ASSUME IInv, NEW c \in Caller, BrowserEnds(c) PROVE IInv'
<1> USE BrowserSessionAssumption
    DEF IInv, TypeOK, BrowserEnds, StopDriver, Ended, Caller, Process, Changing
<1>1. TypeOK'
    OBVIOUS
<1>2. Owned'
    BY DEF Owned, Stopping
<1>3. DriverOwned'
    BY DEF DriverOwned, Owned
<1>4. Starting'
    BY DEF Starting
<1>5. Stopping'
    BY DEF Stopping, Owned
<1>6. QED
    BY <1>1, <1>2, <1>3, <1>4, <1>5

LEMMA DriverEndsIInv ==
    ASSUME IInv, NEW c \in Caller, DriverEnds(c) PROVE IInv'
<1> USE BrowserSessionAssumption
    DEF IInv, TypeOK, DriverEnds, Ended, Caller, Process, Changing
<1>1. TypeOK'
    OBVIOUS
<1>2. Owned'
    BY DEF Owned
<1>3. DriverOwned'
    BY DEF DriverOwned, Owned
<1>4. Starting'
    BY DEF Starting
<1>5. Stopping'
    BY DEF Stopping, Owned
<1>6. QED
    BY <1>1, <1>2, <1>3, <1>4, <1>5

LEMMA CrashIInv ==
    ASSUME IInv, NEW r \in Render, Crash(r) PROVE IInv'
<1> USE BrowserSessionAssumption DEF IInv, TypeOK, Crash, Caller, Process, Changing
<1>1. TypeOK'
    OBVIOUS
<1>2. Owned'
    BY DEF Owned
<1>3. DriverOwned'
    BY DEF DriverOwned
<1>4. Starting'
    BY DEF Starting
<1>5. Stopping'
    BY DEF Stopping
<1>6. QED
    BY <1>1, <1>2, <1>3, <1>4, <1>5

LEMMA NextIInv == IInv /\ [Next]_vars => IInv'
<1> SUFFICES ASSUME IInv, [Next]_vars PROVE IInv'
    OBVIOUS
<1>1. ASSUME NEW r \in Render,
             Enter(r) \/ DriverUp(r) \/ BrowserUp(r) \/ Rendered(r) \/ Cancelled(r)
                 \/ ComesUpUnowned(r) \/ LaunchFails(r) \/ Crash(r)
      PROVE IInv'
    BY <1>1, EnterIInv, DriverUpIInv, BrowserUpIInv, RenderEndsIInv, ComesUpUnownedIInv,
          LaunchFailsIInv, CrashIInv
<1>2. CASE ShutDown
    BY <1>2, ShutDownIInv
<1>3. ASSUME NEW c \in Caller, BrowserEnds(c) \/ DriverEnds(c) PROVE IInv'
    BY <1>3, BrowserEndsIInv, DriverEndsIInv
<1>4. CASE UNCHANGED vars
    BY <1>4 DEF vars, IInv, TypeOK, Owned, DriverOwned, Starting, Stopping, Changing
<1>5. QED
    BY <1>1, <1>2, <1>3, <1>4 DEF Next

LEMMA AlwaysIInv == Spec => []IInv
<1>1. QED
    BY InitIInv, NextIInv, PTL DEF Spec

-------------------------------------------------------------------------------
\* A set with at most one member has at most one.
LEMMA AtMostOne ==
    ASSUME NEW S, NEW x, S \subseteq {x}
    PROVE  Cardinality(S) <= 1
<1>1. IsFiniteSet({x}) /\ Cardinality({x}) = 1
    BY FS_Singleton
<1>2. QED
    BY <1>1, FS_Subset

\* Launches that do not overlap leave at most one browser and one driver besides those of
\* abandoned launches (browser.py, start and close).
THEOREM SerialLaunchesAlwaysOwnOne == Spec => []SerialLaunchesOwnOne
<1>1. IInv => SerialLaunchesOwnOne
    <2> SUFFICES ASSUME IInv, ~overlapped
                 PROVE  /\ Cardinality(Running(chrome) \ abandoned) <= 1
                        /\ Cardinality(Running(driver) \ abandoned) <= 1
        BY DEF SerialLaunchesOwnOne
    <2>1. Running(chrome) \ abandoned \subseteq {browser}
        BY DEF IInv, Owned, Running
    <2>2. Running(driver) \ abandoned \subseteq {playwright}
        BY DEF IInv, DriverOwned, Running
    <2>3. QED
        BY <2>1, <2>2, AtMostOne
<1>2. QED
    BY AlwaysIInv, <1>1, PTL

\* While launches do not overlap, no render has its browser closed under it (browser.py,
\* close against render).
THEOREM RenderAlwaysKeepsItsBrowser == Spec => []RenderKeepsItsBrowser
<1>1. IInv => RenderKeepsItsBrowser
    BY DEF IInv, Owned, RenderKeepsItsBrowser
<1>2. QED
    BY AlwaysIInv, <1>1, PTL

\* After the shutdown's close no process is left but those of abandoned launches, if launches
\* did not overlap (browser.py, close).
THEOREM CloseAlwaysReleasesAll == Spec => []CloseReleasesAll
<1>1. IInv => CloseReleasesAll
    <2> SUFFICES ASSUME IInv, pc[Shutdown] = "done", ~overlapped
                 PROVE  Running(chrome) \subseteq abandoned /\ Running(driver) \subseteq abandoned
        BY DEF CloseReleasesAll
    <2>1. browser = None /\ playwright = None /\ None \notin Render
        BY BrowserSessionAssumption DEF IInv, Stopping
    <2>2. QED
        BY <2>1 DEF IInv, Owned, DriverOwned, Running
<1>2. QED
    BY AlwaysIInv, <1>1, PTL
===============================================================================
