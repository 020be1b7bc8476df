SPECIFICATION Spec
CONSTANTS
    AllowCloseSSH = TRUE
    MaxHost = 3
    Messages = {m1, m2}
    MaxSessions = 3
    MaxEditFails = 1
    MaxCrashes = 1
    Callers = {c1, c2, c3}
    Burst = 2
    RetryWaits = {1, 3}
    maxRetryWait = 2
    MaxCalls = 4
    MaxCancels = 1
    MaxPaceTime = 6
    Limit = 11
    Footer = 1
    MaxDepth = 2
    MaxTokens = 7
    Scanners = {a, b}
    Window = 4
    Threshold = 3
    MaxBruteTime = 7
    MaxAttempts = 6
    Keys = {k1}
    ConfigTrusted = {}
    maxTelegramTrusted = 1
    MaxLogins = 2
    MaxTrustFaults = 1
    MaxTrustRestarts = 1
    pressBurst = 2
    MaxPresses = 4
    MaxGateTime = 2
    MaxAsks = 2
    MaxHands = 1
    MaxLookFails = 1
    ua = ua
    ub = ub
    WatchUnits <- UnitList
    WatchPorts <- PortList
    MaxThr = 2
    PowerCooldown = 2
    MaxLooks = 5
    MaxUntold = 1
INVARIANTS OffersWhatRuns NoOrphan Paced SplitFaithful PruneHarmless StoresKept
    PressGated OutcomeTrue ActsGuarded SavedAsTold LastWordTrue
PROPERTIES SilentVouched ButtonMeansItem
CHECK_DEADLOCK FALSE
