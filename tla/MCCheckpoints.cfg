SPECIFICATION Spec
CONSTANTS
    Files = {f, g}
    None = None
    MaxEvents = 4
    MaxEdits = 2
    MaxRewinds = 2
    MaxEscs = 1
    MaxFails = 1
INVARIANT Undone
PROPERTY OthersKept
CHECK_DEADLOCK FALSE
SYMMETRY Symmetry
