\* A site of pages, one of which has a name without extension.
CONSTANTS
    Query <- MCQuery
    Handlers = {h1}
    Crawler = crawler
    Hosts <- MCHosts
    NoHost = "none"
    URLs <- MCURLs
    Requests <- BareRequests
    Locations <- MCLocations
    NoLocation = NoLocation
    Sites <- PlainSites
SPECIFICATION Spec
PROPERTY
    StoredIsServed
