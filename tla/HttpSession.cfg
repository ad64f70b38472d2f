SPECIFICATION HelloSpec
CONSTANTS
    q1 = q1
    q2 = q2
    r1 = r1
    r2 = r2
    Requests <- MCRequests
    Replies <- MCReplies
    Unencodable <- MCUnencodable
    SvcCodes <- MCSvcCodes
    MaxLines = 3
    MaxReplies = 2
    InCap = 2
    OutCap = 1
    Hello = r1
INVARIANTS
    HttpTypeOK
    FailureIsVisible
    CleanEndMeansBodyComplete
PROPERTIES
    ImplementsReplyStream
    EveryLineIsAnswered
    HalfDuplexCompletes
