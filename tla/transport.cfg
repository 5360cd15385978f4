SPECIFICATION FairSpec
CONSTANTS
    c1 = c1
    c2 = c2
    p1 = p1
    p2 = p2
    Conns = {c1, c2}
    Dialed = {c1}
    Publishers = {p1}
    MaxEvents = 2
INVARIANT NilMeansWritten
INVARIANT DialedIsPeer
PROPERTY PublishReturns
CHECK_DEADLOCK FALSE
