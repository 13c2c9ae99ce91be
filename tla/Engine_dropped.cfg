SPECIFICATION ScopedSpec
CONSTANTS
    r1 = r1
    r2 = r2
    c1 = c1
    c2 = c2
    a = a
    b = b
    NoRun = NoRun
    Runs = {r1, r2}
    AgentOf <- TwoAgents
    Shell = {r1}
    Caps = {c1, c2}
    MaxRounds = 2
    MaxRuns = 2
INVARIANTS AlwaysActedOn
CHECK_DEADLOCK FALSE
