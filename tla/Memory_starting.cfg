SPECIFICATION Spec
CONSTANTS
    s1 = s1
    s2 = s2
    e1 = e1
    p1 = p1
    Signals = {s1}
    Alone = {}
    Patterns = {p1}
    MaxActive = 2
    MaxEdits = 1
    MaxCrashes = 0
    EditsWhileStarting = TRUE
INVARIANTS RebuiltOnChange
CHECK_DEADLOCK FALSE
