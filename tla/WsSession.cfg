SPECIFICATION Spec
CONSTANTS
    q1 = q1
    q2 = q2
    r1 = r1
    r2 = r2
    Requests <- MCRequests
    Replies <- MCReplies
    Unencodable <- MCUnencodable
    SvcCodes <- MCSvcCodes
    MaxFrames = 2
    MaxReplies = 2
    OutCap = 1
INVARIANTS
    WsTypeOK
    NoSilentEnd
    CleanEndMeansClientFinished
    RequestIsFirst
PROPERTIES
    ImplementsReplyStream
    NoReplyAfterLastRequest
