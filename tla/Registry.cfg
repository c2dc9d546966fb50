SPECIFICATION Spec
CONSTANTS
    Sessions = {s1, s2}
    Ids = {a, b}
    a = a
    i1 = i1
    i2 = i2
    Infos = {i1, i2}
    Flagged <- WithFlag
    File <- OneInFile
    NoRow = NoRow
    Ptrs = {p1, p2, p3}
    NoPtr = NoPtr
    MaxRequests = 3
    MaxFailures = 1
SYMMETRY Symmetry
INVARIANTS
    NeverDangling
    RowsListed
    AddsSurvive
    RowsCurrent
