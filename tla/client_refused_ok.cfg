SPECIFICATION Spec
CONSTANTS
    start1 = start1
    stop1 = stop1
    reload1 = reload1
    restart1 = restart1
    query1 = query1
    stray = stray
    read1 = read1
    web = web
    ghost = ghost
    Requests = {restart1}
    Agents = {web}
    Verb <- MCVerb
    Target <- MCTarget
    MaxAttempts = 0
INVARIANT RefusedIsFailure
CHECK_DEADLOCK FALSE
