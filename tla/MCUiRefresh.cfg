CONSTANTS
    channels = channels
    vod = vod
    Domains = {channels, vod}
    SyncEvents <- MCSyncEvents
    BulkDataRefresh = BulkDataRefresh
    OnBulk = {channels, vod}
    Refetched = {vod}
    Threads = {t1, t2}
    MaxCommits = 3
SPECIFICATION FairUiSpec
INVARIANTS UiTypeOK StaleHasNotice
PROPERTY EventuallyFresh
