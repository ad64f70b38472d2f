SPECIFICATION FairReaderSpec
CONSTANTS
    m1 = m1
    m2 = m2
    e1 = e1
    Items <- MCItems
    Errors <- MCErrors
    NoResult = NoResult
    MaxResults = 4
INVARIANTS
    TypeOK
    NothingLost
    EndAfterLast
    NoStrandedResult
    CleanEndIsComplete
    SurplusNeedsErrors
PROPERTIES
    ImplementsItemStream
    EveryResultDelivered
    EndIsReported
