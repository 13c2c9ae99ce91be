SPECIFICATION ScopedSpec
CONSTANTS
    no = no
    rm = rm
    a1 = a1
    a2 = a2
    s1 = s1
    e1 = e1
    p1 = p1
    none = none
    Questions = {1, 2, 3}
    Never = {3}
    Wide = {}
    WithFallback = TRUE
    WithReview = TRUE
    Timeout = 2
    RetryAfter = 3
    RoundReserve = 1
    MinSecond = 1
    MinReview = 1
    MaxReviewed = 1
    LoginTime = 0
    Deadlines = {0, 5}
    MaxClock = 6
    Scale = 4
    Candidates = {1, 2, 3}
    Steps <- StepsOf
    ScreenYes <- Likely
    ScreenNo <- Unlikely
    Escalation = {"unsure", "failed"}
    Settles <- ReadAs
    AnswerScale = {0, 4}
    MaxRounds = 2
    Askers = {a1, a2}
    Requests <- ThreeRequests
    Contracts <- TwoContracts
    Commands = {no, rm}
    NoCommand = no
    Learnable = {rm}
    MaxLearned = 2
    MaxCooldowns = 2
    MaxRequests = 2
    MaxTime = 1
    Speakers = {a1, a2}
    Sayings <- FourSayings
    FollowUps <- TwoFollowUps
    ShapeOf <- Shapes
    NoShape = "plain"
    Keys = {none, "key", "other"}
    NoKey = none
    KnownFormats = {"k"}
    Hashes = {"hex"}
    Clips <- TwoClips
    MaxEntries = 2
    MaxStateChars = 6
    MinStateChars = 3
    HeaderChars = 1
    MaxAgents = 1
    MaxShapes = 2
    MaxKnown = 1
    MaxSignals = 3
    MaxAt = 0
    Callers = {a1, a2}
    NoCaller = none
    MaxAsked = 2
    MaxIssued = 2
    MaxLogins = 2
    MaxFaults = 1
    Signals = {s1, e1}
    Alone = {e1}
    Patterns = {p1}
    MaxActive = 2
    MaxEdits = 2
    MaxCrashes = 2
    EditsWhileStarting = FALSE
INVARIANTS
    AnswersKept
    VerdictEarned
    DecisionsEarned
    HarmRemembered
    LoginKept
    SavedSurvives
    UndoneNeverSaved
    NoStaleEngine
PROPERTIES
    
    AskEnds
    LearnedNeverForgotten
    ActivityShown
CHECK_DEADLOCK FALSE
