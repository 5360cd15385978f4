SPECIFICATION Spec
CONSTANTS
    Pids = {1, 2}
    MaxProcs = 2
    Stoppers = {s1, s2}
    SignalFails = FALSE
    TimerCallers = {c1, c2}
    MaxLoops = 2
    MaxTime = 3
    Durations <- MCDurations
    FireTimeout = 1
INVARIANT OneLiveLoop
INVARIANT FiresAreDue
INVARIANT SignalHitsRecorded
INVARIANT EndedOnce
PROPERTY ClaimExpires
PROPERTY LoopsEnd
CHECK_DEADLOCK FALSE
