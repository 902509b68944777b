CONSTANTS
    pc1 = pc1
    phone = phone
    x = x
    xx = xx
    y = y
    m = m
    j = j
    Home = {pc1, phone}
    File = {f}
    Line = {x, xx, y, m}
    Text = {"x", "y", "m"}
    Strip <- Stripped
    Marker = m
    Absent = Absent
    Written <- Notes
    Importer = {i1, j}
    Where <- Places
    MaxEdits = 1
    MaxFaults = 1
SPECIFICATION FairSpec
INVARIANTS
    KeptUnlessClash
    NoTextTwice
PROPERTY Converge
