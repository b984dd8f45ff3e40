CONSTANTS
    NTasks = 2
    Downloads = {2}
    Runners = {r1, r2}
    MayLose = {1}
    MaxPresses = 2
    MaxRestarts = 1
SPECIFICATION Spec
PROPERTY PausedStaysPaused
SYMMETRY Symmetry
CHECK_DEADLOCK FALSE
