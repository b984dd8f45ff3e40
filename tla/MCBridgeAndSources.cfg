SPECIFICATION MCSpec
CONSTANTS
    Domains = {"channels", "history"}
    Ids = {"r1", "r2"}
    Asks <- MCAsks
    RingCap = 1
    QueueCap = 1
    MaxTries = 2
    MaxEvents = 2
    MaxCuts = 1
    Sources = {"tv", "list", "films"}
    SourceType <- MCSourceType
    Url <- MCUrl
    Items <- MCItems
    Syncs = {"s1", "s2"}
    MaxChanges = 1
    MaxSyncs = 2
INVARIANTS
    WsTypeOK RequestsAccounted ChangesOnTheWay
    SourceTypeOK RowsAreOneFetch
PROPERTIES
    ChangesRead FavouriteKept
CHECK_DEADLOCK FALSE
