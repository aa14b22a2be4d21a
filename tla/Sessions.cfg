SPECIFICATION PasswordResetSpec
CONSTANTS
    u1 = u1
    u2 = u2
    e1 = e1
    e2 = e2
    s1 = s1
    s2 = s2
    r1 = r1
    r2 = r2
    c1 = c1
    c2 = c2
    p1 = p1
    Nothing = Nothing
    Unknown = Unknown
    User = {u1}
    Email = {e1}
    Password = {p1}
    SessionId = {s1, s2}
    Request = {r1, r2}
    Code = {c1}
    MaxTokens = 3
    MaxSends = 2
    MaxAttempts = 1
    MaxStores = 1
INVARIANTS
    RotationIsALine
    ResetEndsSessions
PROPERTIES
    EndedForGood
SYMMETRY MCSessionsSymmetry
