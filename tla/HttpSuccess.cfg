SPECIFICATION HelloSpec
CONSTANTS
    q1 = q1
    q2 = q2
    r1 = r1
    r2 = r2
    Requests <- MCRequests
    Replies <- MCReplies
    Unencodable <- MCUnencodable
    SvcCodes <- MCSvcCodes
    MaxLines = 1
    MaxReplies = 1
    InCap = 2
    OutCap = 1
    Hello = r1
INVARIANT SuccessCarriesReply
