SPECIFICATION FairSpec
CONSTANTS
    Calls = {a, b}
    None = None
    MaxProcs = 2
    MaxStops = 1
INVARIANTS Matched Heard
PROPERTIES Returns
CHECK_DEADLOCK FALSE
