SPECIFICATION FairSpec
CONSTANTS
    Attempts = {warmup, ui}
    Warmups = {warmup}
    MaxClients = 2
    MaxStops = 1
INVARIANTS SharedProcess Handled
PROPERTIES StopsAll
CHECK_DEADLOCK FALSE
