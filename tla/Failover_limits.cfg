SPECIFICATION ScopedSpec
CONSTANTS
    a1 = a1
    b1 = b1
    c1 = c1
    Scopes = {"any"}
    Models = {a1, b1}
    NoModel = NoModel
    Ignored = Ignored
    Catalog <- MCCatalog
    MaxCandidates = 2
    Blacklists <- NoBlacklist
    Default = a1
    Listings <- AllListed
    Selectable = {a1}
    Faults <- Limit
    MaxExecutions = 1
    MaxChoices = 1
    MaxPrompts = 0
    MaxSteps = 0
PROPERTIES LimitsHonoured
CHECK_DEADLOCK FALSE
