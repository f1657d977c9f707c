\* Three sites, a client beside the crawl, and any number of restarts.
CONSTANTS
    Query <- MCQuery
    Handlers = {h1}
    Crawler = crawler
    Hosts <- MCHosts
    NoHost = "none"
    URLs <- MCURLs
    Requests <- MCRequests
    Locations <- MCLocations
    NoLocation = NoLocation
    Sites <- MCSites
SPECIFICATION FairSpec
INVARIANTS
    TypeOK
    RedirectsWereGiven
    LastAnswerRecorded
    DownloadedIsServed
PROPERTIES
    EveryRequestAnswered
