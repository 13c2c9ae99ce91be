SPECIFICATION Spec
CONSTANTS
    a1 = a1
    a2 = a2
    w1 = w1
    w2 = w2
    s1 = s1
    u1 = u1
    u2 = u2
    n1 = n1
    n2 = n2
    none = none
    Scopes = {"rules", "versions", "sources", "approval", "monitors", "gate", "exposure", "startup",
              "warming", "renewal"}
    Agents = {a1}
    Tools = {"t"}
    Shipped <- OwnRules
    Project <- ProjectRules
    Shelf <- TwoBooks
    Continues = TRUE
    MaxDeliveries = 2
    MaxRunning = 2
    MaxSessions = 1
    MaxCommands = 2
    MaxNow = 1
    Slots = {s1}
    Order <- OneSlot
    Urls = {u1, u2}
    Http = {u2}
    Names = {n1}
    Versions = {1, 2}
    Unconfigured = none
    ConcurrentReviews = 2
    MaxRevisions = 2
    MaxChanges = 2
    MaxConfigs = 1
    MaxAccepts = 1
    MaxCrashes = 1
    MaxDeaths = 1
    MaxLost = 1
    Approvers = {a1, a2}
    Selectors = {"one", "two", "apart", "all", "mixed"}
    Registry <- FiveSelections
    Consents <- TwoConsents
    FirstSources <- ThreeFiles
    OwnSources <- OwnSource
    Folders <- SixFolders
    ScreenChars = 3
    MaxFile = 2
    MaxFilesBytes = 3
    MaxPaths = 2
    MaxSources = 3
    MaxRepositorySkills = 2
    Escalates = {"unsure", "failed"}
    MaxByHand = 1
    Followers = {a1, a2}
    Watches = {w1, w2}
    MaxCandidates = 2
    MaxFollowers = 1
    MaxJudged = 2
    MaxCalls = 3
    MaxMeddling = 1
    MaxEvents = 1
    Exposed = {"skill", "mcp_a", "mcp_b", "never"}
    GroupOf <- FourTools
    NeverExposed = {"never"}
    Base = {"skill"}
    Skills = {"k"}
    MaxAttached = 1
    ParentHides <- HiddenByParents
    MaxPrompts = 2
    MaxAsked = 1
    MaxCompactions = 1
    Plugins = {a1, a2}
    VersionOf <- OldAndNew
    TokenOf <- OneToken
    Configurable = {a2}
    Releases = {1, 2}
    Undated = {1}
    NoToken = none
    Unanswered = none
    StopAttempts = 2
    StartAttempts = 1
    MaxDaemons = 3
    MaxReopened = 1
    MaxSent = 1
    MaxFaults = 1
    Sessions = {a1, a2}
    Providers = {w1, w2, s1}
    Own = w1
    Fast = {w2}
    Free = {s1}
    Pins = {}
    Banned = {}
    LongSessions = {a1}
    Lifetime = 2
    LeadSeconds = 1
    MaxSeconds = 3
    Prices <- ReadsPayTwice
    MaxTracked = 1
    PendingSeconds = 0
    PassOverSeconds = 3
    MaxClock = 4
    MaxTurns = 2
    MaxTrials = 1
    MaxRestarts = 1
INVARIANTS
    BooksRestrained
    OnlyVouched
    ApprovedStays
    MonitorsKept
    ExposureKept
    
PROPERTIES
    BooksSpeak
    
    RenewalKept
CHECK_DEADLOCK FALSE
