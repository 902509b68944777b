CONSTANTS
    p1 = p1
    p2 = p2
    c1 = c1
    c2 = c2
    t1 = t1
    NoPhone = NoPhone
    Phone = {p1, p2}
    Conn = {c1}
    Tab = {t1}
    MaxSavers = 1
    MaxFaults = 0
    MaxStarts = 2
SYMMETRY Symmetry
SPECIFICATION Spec
INVARIANTS
    RevokedSendsNothing
