\* A page is found first by the longer way, too deep, and then never fetched.
CONSTANTS
    Concurrency = 2
    Tries = 1
    MaxDepth = 2
    Cancellable = FALSE
    Url <- MCUrl
    HostOf <- MCHostOf
    PathOf <- MCPathOf
    WebUrl <- MCWebUrl
    StartURL = "home"
    Sites <- TwoWaysSites
SPECIFICATION Spec
INVARIANTS
    Complete
