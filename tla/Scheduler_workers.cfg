SPECIFICATION ScopedFairSpec
CONSTANTS
    p = p
    e = e
    o = o
    q = q
    a = a
    b = b
    c = c
    Scopes = {"any"}
    Jobs <- EachJobs
    Agents = {a, b, c}
    AgentOf <- MCAgentOf
    KindOf <- MCKindOf
    QueueDepth = 3
    MaxActive = 3
    OneWorkers = 2
    Reserved = 1
    TwoWorkers = 0
    MaxRounds = 1
    MaxRuns = 3
    MaxReasonings = 1
    MaxPanics = 1
    NoJob = NoJob
INVARIANTS
    QueuesMove
PROPERTIES Answered
