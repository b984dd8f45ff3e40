CONSTANTS
    news = news
    film = film
    Recs = {news}
    Streamed = {news}
    Clash = {}
    Slots = {s1, s2, s3}
    MaxBegun = 1
    MaxEvents = 2
    Presses = {}
    PromptAnswers = TRUE
SPECIFICATION Spec
INVARIANT NoCaptureCut
SYMMETRY Symmetry
CHECK_DEADLOCK FALSE
