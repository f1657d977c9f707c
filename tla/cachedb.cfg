\* Stores, syncs, Close, crashes and restarts in any order, on a disk that works.
CONSTANTS
    Key <- MCKey
    Unparsable <- MCUnparsable
    Text <- MCText
    Item <- MCItem
    MaxUnsaved = 3
    DiskMayFail = FALSE
    NoFile = NoFile
SPECIFICATION FairSpec
INVARIANTS
    Consistent
    BoundedLoss
PROPERTIES
    CloseSaves
    QuietWhenClosed
    ImplementsDurableMap
    EventuallySaved
