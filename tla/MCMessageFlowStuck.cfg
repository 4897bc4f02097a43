SPECIFICATION Spec
CONSTANTS
    p1 = p1
    p2 = p2
    s1 = s1
    c1 = c1
    n1 = n1
    Prompts = {p1}
    Shells = {s1}
    Compacts = {c1}
    ShellNotes = {n1}
    None = None
    MaxEsc = 2
    MaxNew = 0
INVARIANT FlagReleased
CHECK_DEADLOCK FALSE
