SPECIFICATION MCSpec
CONSTANTS
    news = news
    Recs = {news}
    Streamed = {news}
    Clash = {}
    Slots = {s1, s2, s3}
    MaxBegun = 1
    MaxEvents = 2
    Presses = {"force", "stop", "remove"}
    PromptAnswers = TRUE
    GuideSources = {"tv", "films"}
    Fetchers = {"f"}
    GuideIds = {"tvg", "name"}
    MaxVersion = 2
    Urls = {"news", "film"}
    Live = {"news"}
    Calls = {"c1", "c2"}
    MaxRetries = 1
    MaxPresses = 2
    MaxTrouble = 2
    Devices = {"box", "phone"}
    Start <- MCStart
    Tolerance = 0
    MaxTime = 2
    MaxActs = 4
    MaxFaults = 1
    People = {"default", "kid", "teen"}
    Guarded = {"kid"}
    Handlers = {"h1", "h2"}
    MaxEdits = 4
    Recurring <- MCRecurring
    Day = 4
    Week = 2
    Zone = 0
    MaxHour = 8
    MaxRemovals = 2
    Household = {"kid"}
    Viewers = {"kid", "guest"}
    Clock = {1, 2}
    MaxUses = 2
INVARIANTS
    TypeOK CaptureNotScheduled
    GuideTypeOK NoGuideOfDeletedSource
    PlayerTypeOK RequestedPlays
    CloudTypeOK HalfImportNotUploaded ConflictOnlyAfterFault
    ProfilesTypeOK ScreenShowsRows
    OncePerSlot WeekIsScheduled
    EitherMergesAlike MergeAgainIsIdle
PROPERTIES
    ResyncKeepsGuide
SYMMETRY Symmetry
CHECK_DEADLOCK FALSE
