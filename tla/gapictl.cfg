SPECIFICATION MCGapictlSpec
CONSTANTS
    start1 = start1
    stop1 = stop1
    reload1 = reload1
    restart1 = restart1
    query1 = query1
    stray = stray
    read1 = read1
    web = web
    ghost = ghost
    Requests = {read1, reload1, stray}
    Agents = {web}
    Verb <- MCVerb
    Target <- MCTarget
    MaxAttempts = 1
    Listings <- MCListings
    NameHits <- MCNameHits
    MaxFetches = 1
    MaxStreams = 2
    MaxLines = 2
    LogCap = 1
    Daemons = {d1, d2}
    PidSpace = {1, 2}
    HasXDG = {d1}
    ClientXDG = TRUE
INVARIANT VerbServedOnce
INVARIANT ReadIsComplete
INVARIANT TailFollows
INVARIANT AddressDefensible
PROPERTY ReadAnswered
PROPERTY ClientReturns
CHECK_DEADLOCK FALSE
