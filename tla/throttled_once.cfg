\* A URL that is answered 429 is refused as already processed when it comes back.
CONSTANTS
    Concurrency = 2
    Tries = 1
    MaxDepth = 9
    Cancellable = FALSE
    Url <- MCUrl
    HostOf <- MCHostOf
    PathOf <- MCPathOf
    WebUrl <- MCWebUrl
    StartURL = "home"
    Sites <- ThrottledSites
SPECIFICATION Spec
INVARIANTS
    RetriedLater
