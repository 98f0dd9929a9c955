SPECIFICATION Spec
CONSTANTS
    Render = {r1, r2}
    Shutdown = Shutdown
    None = None
INVARIANTS
    OneBrowserProcess
CHECK_DEADLOCK FALSE
