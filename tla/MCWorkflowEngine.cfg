\* Two threads of one workflow, one statement that fails, one restart.
CONSTANTS
    Workflows = {w1}
    Threads = {th1, th2}
    Steps = 2
    MaxFaults = 1
    MaxRestarts = 1
SPECIFICATION FairSpec
INVARIANTS
    TypeOK
    RunningHasThread
    DeletedEndsWithStep
PROPERTIES
    RunsEnd
