SPECIFICATION Spec
CONSTANTS
    handler = handler
    lazy = lazy
    dependent = dependent
    shutdown = shutdown
    Handlers = {handler}
    LazyWatchers = {lazy}
    Starters = {dependent}
    Stoppers = {}
    HandlerActs = {"start", "stop"}
    MaxCalls = 2
    ChanCap = 1
    QueueCap = 1
    BadFrameBudget = 1
    MaxBadFrames = 1
    ReloadAnnounces = FALSE
INVARIANT RunningWasAnnounced
INVARIANT ExitReportedOnce
INVARIANT SlotReaped
INVARIANT OneStartInFlight
PROPERTY AnnouncedExitKept
CHECK_DEADLOCK FALSE
