SPECIFICATION ExpansionSpec
CONSTANTS
    Recurring <- MCRecurring
    Day = 4
    Week = 2
    Zone = 1
    MaxHour = 8
    MaxRemovals = 1
INVARIANT OncePerSlot
CHECK_DEADLOCK FALSE
