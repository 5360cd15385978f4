SPECIFICATION Spec
CONSTANTS
    handler = handler
    lazy = lazy
    dependent = dependent
    shutdown = shutdown
    Handlers = {handler}
    LazyWatchers = {}
    Starters = {}
    Stoppers = {}
    HandlerActs = {"start"}
    MaxCalls = 1
    ChanCap = 1
    QueueCap = 1
    BadFrameBudget = 1
    MaxBadFrames = 0
    ReloadAnnounces = FALSE
INVARIANT NoDeadRunning
CHECK_DEADLOCK FALSE
