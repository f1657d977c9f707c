\* Nineteen documents, references of every form, alone and in pairs, with and without a base element.
SPECIFICATION Spec
CONSTANTS
    Query <- MCQuery
    Name <- MCNames
    Hosts <- MCHosts
    NoHost = "none"
    OtherScheme = "scheme"
    StartHost = "start"
    Documents <- MCDocuments
    Elements <- MCElements
    Sheets <- MCSheets
    Bases <- MCBases
    NoBase = NoBase
    MaxSet = 3
INVARIANTS
    TypeOK
    FixedAsOnce
    LinksLeadToTargets
    LinksOpenFiles
    SameReferencesAgain
    BareOnlyFromBase
