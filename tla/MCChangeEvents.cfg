CONSTANTS
    channels = channels
    vod = vod
    recordings = recordings
    Domains <- MCDomains
    SyncEvents <- MCSyncEvents
    BulkDataRefresh = BulkDataRefresh
    Threads = {t1, t2, t3}
    MaxCommits = 3
SPECIFICATION FairSpec
INVARIANTS TypeOK FlagHasHolder NoChangeForgotten
PROPERTY ImplementsFeed
