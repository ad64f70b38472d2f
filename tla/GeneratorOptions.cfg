SPECIFICATION Spec
CONSTANTS
    A = A
    B = B
    S = S
    T = T
    RawS = RawS
    Req = Req
    Imported = Imported
    m1 = m1
    m2 = m2
    a = a
    b = b
    c = c
    pa = pa
    pb = pb
    pab = pab
    plain = plain
    Unit = Unit
    NoRule = NoRule
    NotWritten = NotWritten
    Builds <- MCBuilds
INVARIANTS
    OptionIsOwn
