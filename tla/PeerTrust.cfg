CONSTANTS
    p1 = p1
    p2 = p2
    c1 = c1
    c2 = c2
    t1 = t1
    NoPhone = NoPhone
    Phone = {p1, p2}
    Conn = {c1, c2}
    Tab = {t1}
    MaxSavers = 2
    MaxFaults = 1
    MaxStarts = 2
SYMMETRY Symmetry
VIEW Seen
SPECIFICATION Spec
INVARIANTS
    TrustWasGranted
    OnlyAdmittedAreServed
    RevokedUnlessOverlap
    FileIsCurrent
    WelcomedStaysTrusted
