\* The last answer is a 5xx: the workers other than 0 never see the queue close.
CONSTANTS
    Concurrency = 2
    Tries = 2
    MaxDepth = 9
    Cancellable = FALSE
    Url <- MCUrl
    HostOf <- MCHostOf
    PathOf <- MCPathOf
    WebUrl <- MCWebUrl
    StartURL = "home"
    Sites <- OverloadedSites
SPECIFICATION FairSpec
\* The hang is what this run shows.
CHECK_DEADLOCK FALSE
PROPERTIES
    CloseStopsPool
