SPECIFICATION ProfilesSpec
CONSTANTS
    People = {"default", "kid"}
    Guarded = {"kid"}
    Handlers = {"h1", "h2"}
    MaxEdits = 4
INVARIANT PickedStaysActive
CHECK_DEADLOCK FALSE
