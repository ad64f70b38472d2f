SPECIFICATION Spec
CONSTANTS
    M = M
    N = N
    S = S
    E = E
    other = other
    a = a
    b = b
    c = c
    n = n
    x = x
    Unit = Unit
    NoRule = NoRule
    NoBody = NoBody
    Star = Star
    BodySuffix = "Body"
    QuerySuffix = "Query"
    Fields <- MCFields
    Methods <- MCMethods
    MaxMethods = 1
INVARIANT
    EmptyRequestExtractsNothing
