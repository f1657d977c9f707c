\* A page without extension, next to pages in a directory of the same name.
CONSTANTS
    Crawler = "crawl"
    Handlers = {}
    Kinds = {"barePage"}
    Servers <- MCServers
    Failing = {}
    MaxVersion = 1
    None = None
SPECIFICATION Spec
INVARIANTS
    ConditionalHasCopy
