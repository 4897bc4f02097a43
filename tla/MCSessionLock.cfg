SPECIFICATION Spec
CONSTANTS
    Pids = {p1, p2, p3}
    Sessions = {s1}
    Own = own
    Nobody = nobody
    MaxSaves = 3
INVARIANT WriterHolds
PROPERTY UpdatesKept
SYMMETRY Symmetry
CHECK_DEADLOCK FALSE
