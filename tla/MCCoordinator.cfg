SPECIFICATION MCSpec
CONSTANTS
    NULL = NULL
    RpmLimit = 2
    DailyLimit = 2
    Minute = 3
    Day = 4
    MaxSeconds = 5
    MaxCrashes = 1
    MaxCommits = 3
    MaxPromotions = 2
    u1 = u1
    u2 = u2
    f1 = f1
    f2 = f2
    x = x
    y = y
    z = z
    Jobs <- MCJobs
    Units = {u1, u2}
    Refs = {f1}
    Corpora <- MCCorpora
    BatchCorpora <- MCBatchCorpora
    UnitTexts <- MCUnitTexts
    PayloadDims <- MCPayloadDims
    Collections = {c1}
    Tasks = {k1, k2}
    Replicas = {e1, e2}
    MaxRestarts = 1
    Desks = {1, 2}
    Times = {0, 1, 2}
    HourOf <- MCHourOf
    MinBucket = 2
    Prior <- MCPrior
    Weight <- MCWeight
    EstDuration = 1
    Threshold <- MCThreshold
    MaxLines = 3
    ChatBodies <- MCChatBodies
    Retrieved <- MCRetrieved
    Allowlist = {1, 3, 4}
    Served = {1, 2, 4}
    LargeModels = {4}
    MaxK = 1
    Small = 2
    Large = 8
    Coding = 4
    Few = 1
    Many = 3
    Odd = Odd
    JoinFiles <- MCJoinFiles
    Profiles <- MCProfiles
    Hosts <- MCHosts
    Noise <- MCNoise
    MaxCandidates = 2
    MaxChanges = 1
    MaxDesks = 3
    Invocations = 2
    Conditions <- MCConditions
    MaxTokens = 3
    Configurations <- MCConfigurations
    Modulus = 4
    MaxNow = 7
    Smoothing <- MCSmoothing
    HISTORY = 2
    MIN_WINDOWS = 2
    AwayIdle = 9
SYMMETRY PartsSymmetry
INVARIANTS
    QuotaExact
    SnapshotsAreWhole
    IngestionSound
    
    ContextIsFenced
    AssignmentsSound
    JoiningSound
    IdentitySound
    LifeSound
CHECK_DEADLOCK FALSE
