SPECIFICATION RegistrationSpec
CONSTANTS
    r1 = r1
    r2 = r2
    r3 = r3
    c1 = c1
    c2 = c2
    p1 = p1
    p2 = p2
    Request = {r1, r2, r3}
    Code = {c1, c2}
    Profile = {p1, p2}
    Nothing = Nothing
    Elsewhere = Elsewhere
    MaxSends = 2
    MaxAttempts = 2
    MaxStores = 2
INVARIANTS
    RegistrationTypeOK
    FailuresCounted
PROPERTIES
    CreatedByStandingCode
    VerifyAllOrNothing
SYMMETRY MCSymmetry
