SPECIFICATION Spec
CONSTANTS
    handler = handler
    lazy = lazy
    dependent = dependent
    shutdown = shutdown
    Handlers = {handler}
    LazyWatchers = {}
    Starters = {}
    Stoppers = {}
    HandlerActs = {"start", "restart"}
    MaxCalls = 2
    ChanCap = 1
    QueueCap = 1
    BadFrameBudget = 1
    MaxBadFrames = 0
    ReloadAnnounces = FALSE
INVARIANT RestartTakesEffect
CHECK_DEADLOCK FALSE
