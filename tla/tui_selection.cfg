SPECIFICATION TuiSpec
CONSTANTS
    Listings <- MCListings
    NameHits <- MCNameHits
    MaxFetches = 1
    MaxStreams = 1
    MaxLines = 1
    LogCap = 1
INVARIANT ActsOnHighlighted
CHECK_DEADLOCK FALSE
