SPECIFICATION FairEchoSpec
CONSTANTS
    q1 = q1
    q2 = q2
    r1 = r1
    r2 = r2
    Requests <- MCRequests
    Replies <- MCReplies
    Unencodable <- MCUnencodable
    SvcCodes <- MCSvcCodes
    MaxFrames = 2
    MaxReplies = 4
    OutCap = 1
    Echo = r1
    Greeting = r2
    MaxGreetings = 1
INVARIANTS
    OkMeansAllEchoed
    StayingClientHasEchoes
PROPERTIES
    StopsWhenClientDisconnects
    EveryRequestIsEchoed
