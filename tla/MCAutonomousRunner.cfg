SPECIFICATION Spec
CONSTANTS
    daily = daily
    single = single
    Tasks = {daily, single}
    Trigger <- MCTrigger
    Custom = {daily}
    Loops = {l1, l2}
    Requests = {r1}
    NoLoop = NoLoop
    Plans = {p1}
    NumSteps = 2
    MaxRetries = 1
    Executions = {e1, e2}
INVARIANTS TypeOK ExecutingIsExecuted OneLoopPerTask
PROPERTIES ActiveKeepsLoop
CHECK_DEADLOCK FALSE
SYMMETRY MCSymmetry
