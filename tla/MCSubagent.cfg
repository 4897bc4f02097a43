SPECIFICATION FairSpec
CONSTANTS
    Subs = {s1, s2}
    Isolated = {s1}
    Messages = {m1, m2}
    MaxConcurrent = 1
    None = None
INVARIANTS StatusIsTrue WorktreePresent LimitOfSpawns
PROPERTIES ParentHears QueuedIsDrained
CHECK_DEADLOCK FALSE
