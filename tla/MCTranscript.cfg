SPECIFICATION TranscriptSpec
CONSTANTS
    Calls = {c1, c2, c3}
    Commands = {k1}
    None = None
    Done = Done
    Cancelled = Cancelled
    MaxBatch = 3
    MaxLen = 7
INVARIANTS OpenIsRunning Paired
PROPERTY ResultsStay
SYMMETRY Symmetry
CHECK_DEADLOCK FALSE
