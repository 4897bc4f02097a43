SPECIFICATION ShellFairSpec
CONSTANTS
    Modes = {"sync", "wait", "background"}
    Shapes = {"plain", "detaches", "closes"}
INVARIANTS ReportedTruly ReportedOnce
PROPERTIES StoppedIsDead PromiseKept
CHECK_DEADLOCK FALSE
