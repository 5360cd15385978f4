SPECIFICATION FairSpec
CONSTANTS
    handler = handler
    lazy = lazy
    dependent = dependent
    shutdown = shutdown
    Handlers = {handler}
    LazyWatchers = {}
    Starters = {}
    Stoppers = {}
    HandlerActs = {"start", "stop", "reload", "restart", "initialize"}
    MaxCalls = 2
    ChanCap = 1
    QueueCap = 1
    BadFrameBudget = 0
    MaxBadFrames = 1
    ReloadAnnounces = TRUE
INVARIANT NoOrphan
PROPERTY CallReturns
CHECK_DEADLOCK FALSE
