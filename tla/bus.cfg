SPECIFICATION MCFairSpec
CONSTANTS
    p1 = p1
    p2 = p2
    status = status
    control = control
    r1 = r1
    r2 = r2
    plain = plain
    twin = twin
    prefix = prefix
    watch = watch
    once = once
    reply1 = reply1
    reply2 = reply2
    gate = gate
    Publishers = {p1, p2}
    Subs = {plain, watch, reply1, reply2}
    Topics = {status}
    IDs = {r1, r2}
    Kind <- MCKind
    Watches <- MCWatches
    CorrID <- MCCorrID
    Site <- MCSite
    Depth = 2
    MaxEvents = 2
INVARIANT NoSendOnClosed
INVARIANT OrderKept
INVARIANT LeavesForItself
PROPERTY AcceptedIsHandled
CHECK_DEADLOCK FALSE
