CONSTANTS
    s1 = s1
    s2 = s2
    x = x
    y = y
    i1 = i1
    i2 = i2
    i3 = i3
    Nobody = Nobody
    Session = {s1, s2}
    Text = {x, y}
    LocalSession = {s1}
    LocalMessage <- Local
    Bundle <- RetryOnly
    Importer = {i1, i2}
    MaxBusy = 2
    MaxImports = 3
SYMMETRY Symmetry
SPECIFICATION Spec
INVARIANT NoDuplicates
CHECK_DEADLOCK FALSE
