SPECIFICATION ScopedSpec
CONSTANTS
    a1 = a1
    b1 = b1
    c1 = c1
    Scopes = {"chain", "return"}
    Models = {a1, b1, c1}
    NoModel = NoModel
    Ignored = Ignored
    Catalog <- MCCatalog
    MaxCandidates = 2
    Blacklists <- ExcludesOrigin
    Default = a1
    Listings <- AllListed
    Selectable = {a1, b1}
    Faults <- LimitOrUnusable
    MaxExecutions = 2
    MaxChoices = 1
    MaxPrompts = 1
    MaxSteps = 1
INVARIANTS
    RouterFollows
PROPERTIES
    NoStaleSwitch
    RetriesSafely
    BlacklistHonoured
    SwitchesEnd
CHECK_DEADLOCK FALSE
