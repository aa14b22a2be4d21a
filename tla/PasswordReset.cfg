SPECIFICATION PasswordResetSpec
CONSTANTS
    u1 = u1
    u2 = u2
    e1 = e1
    e2 = e2
    s1 = s1
    s2 = s2
    r1 = r1
    r2 = r2
    c1 = c1
    c2 = c2
    p1 = p1
    Nothing = Nothing
    Unknown = p1
    User = {u1, u2}
    Email = {e1, e2}
    Password = {p1}
    SessionId = {}
    Request = {r1, r2}
    Code = {c1, c2}
    MaxTokens = 0
    MaxSends = 1
    MaxAttempts = 1
    MaxStores = 2
INVARIANTS
    PasswordResetTypeOK
PROPERTIES
    ResetOnlyByStandingCode
SYMMETRY MCResetSymmetry
