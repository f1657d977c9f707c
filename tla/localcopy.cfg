\* A crawl and one on-demand handler, over two versions, any number of runs and
\* crashes; every operation but closing a file may fail.
CONSTANTS
    Crawler = "crawl"
    Handlers = {"handler"}
    Kinds <- AllKinds
    Servers <- MCServers
    Failing = {"body", "create", "write", "rename", "stamp"}
    MaxVersion = 1
    None = None
SPECIFICATION Spec
INVARIANTS
    FileIsWhole
    NoTemporaryLeft
    Trustworthy
PROPERTIES
    NotModifiedIsTrue
