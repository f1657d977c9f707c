\* Two workers, a depth limit, servers that throttle, fail and do not answer,
\* and a context that may be cancelled.
CONSTANTS
    Concurrency = 2
    Tries = 2
    MaxDepth = 1
    Cancellable = TRUE
    Url <- MCUrl
    HostOf <- MCHostOf
    PathOf <- MCPathOf
    WebUrl <- MCWebUrl
    StartURL = "home"
    Sites <- HostileSites
SPECIFICATION FairSpec
\* A worker that failed, or a lockdown at the end, stops the system for good.
CHECK_DEADLOCK FALSE
INVARIANTS
    Accounting
    ClosedMeansDone
    OkMeansDone
    
    AtMostOnce
    WithinDepth
    LostOnlyByDepth
PROPERTIES
    EveryItemTaken
    StopsUnlessLockedDown
