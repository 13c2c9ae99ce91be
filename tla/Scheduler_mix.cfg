SPECIFICATION ScopedSpec
CONSTANTS
    p = p
    e = e
    o = o
    q = q
    a = a
    b = b
    c = c
    Scopes = {"mix", "rounds"}
    Jobs <- MCJobs
    Agents = {a, b, c}
    AgentOf <- MCAgentOf
    KindOf <- MCKindOf
    QueueDepth = 2
    MaxActive = 2
    OneWorkers = 2
    Reserved = 1
    TwoWorkers = 1
    MaxRounds = 2
    MaxRuns = 3
    MaxReasonings = 1
    MaxPanics = 1
    NoJob = NoJob
INVARIANTS
    CountsAgree
    EngineAgrees
    AdmittedNeverRefused
    UndoKeepsAnswered
    AbandonedErrorUndone
PROPERTIES
    ImplementsIngest
