CONSTANTS
    NTasks = 2
    Downloads = {2}
    Runners = {r1, r2}
    MayLose = {1}
    MaxPresses = 3
    MaxRestarts = 1
SPECIFICATION Spec
INVARIANTS TypeOK AtMostOneTransfer CompletedMeansMoved TaskSurvives
SYMMETRY Symmetry
CHECK_DEADLOCK FALSE
