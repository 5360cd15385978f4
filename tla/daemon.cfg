SPECIFICATION MCDaemonSpec
CONSTANTS
    Agents = {a1, a2}
    MaxRequests = 2
    MaxRuns = 2
    MaxArms = 2
    PyTypes = {"service", "oneshot"}
    MaxSignals = 2
    MaxTerms = 2
INVARIANT ShutdownInOrder
INVARIANT OneRunOneWatch
INVARIANT ControlHeard
PROPERTY ShutdownCompletes
PROPERTY TrafficServed
PROPERTY AnnouncesInOrder
PROPERTY TermEnds
CHECK_DEADLOCK FALSE
