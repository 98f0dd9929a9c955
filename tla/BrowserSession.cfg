SPECIFICATION Spec
CONSTANTS
    Render = {r1, r2, r3}
    Shutdown = Shutdown
    None = None
INVARIANTS
    SerialLaunchesOwnOne
    RenderKeepsItsBrowser
    CloseReleasesAll
CHECK_DEADLOCK FALSE
