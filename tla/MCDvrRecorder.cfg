CONSTANTS
    news = news
    film = film
    Recs = {news, film}
    Streamed = {}
    Clash <- MCClash
    Slots = {s1, s2, s3}
    MaxBegun = 1
    MaxEvents = 1
    Presses = {"policy"}
    PromptAnswers = TRUE
SPECIFICATION MCFairSpec
INVARIANT MemoryCatchesUp
PROPERTY DueIsStarted
CHECK_DEADLOCK FALSE
