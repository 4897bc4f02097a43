SPECIFICATION Spec
CONSTANTS
    l1 = l1
    l2 = l2
    l3 = l3
    l4 = l4
    l5 = l5
    l6 = l6
    l7 = l7
    l8 = l8
    l9 = l9
    Lists = {l1, l2, l3, l4, l5, l6, l7, l8, l9}
    None = None
    Text <- MCText
    MaxMessages = 4
    MaxSessions = 3
    MaxSaves = 1
    MaxCommands = 2
    CacheSize = 2
INVARIANTS
    Isolated
    InOrder
PROPERTY ContextKept
CHECK_DEADLOCK FALSE
