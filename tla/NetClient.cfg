CONSTANTS
    c1 = c1
    c2 = c2
    NetCallers = {c1, c2}
    MaxNetCalls = 3
    MaxNotes = 2
SPECIFICATION NetSpec
INVARIANTS OwnResponse NoLateTouch
SYMMETRY Symmetry
CHECK_DEADLOCK FALSE
