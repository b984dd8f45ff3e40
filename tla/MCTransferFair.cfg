CONSTANTS
    NTasks = 2
    Downloads = {2}
    Runners = {r1, r2}
    MayLose = {}
    MaxPresses = 2
    MaxRestarts = 1
SPECIFICATION FairSpec
INVARIANT QueuedHasLoop
PROPERTY QueuedIsServed
CHECK_DEADLOCK FALSE
