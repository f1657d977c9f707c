\* Three workers crawl servers that answer every request, at unlimited depth.
\* The pool never deadlocks.
CONSTANTS
    Concurrency = 3
    Tries = 1
    MaxDepth = 9
    Cancellable = FALSE
    Url <- MCUrl
    HostOf <- MCHostOf
    PathOf <- MCPathOf
    WebUrl <- MCWebUrl
    StartURL = "home"
    Sites <- CalmSites
SPECIFICATION FairSpec
INVARIANTS
    OnlyAdmissible
    Complete
PROPERTIES
    EventuallyReturns
    ImplementsSearch
