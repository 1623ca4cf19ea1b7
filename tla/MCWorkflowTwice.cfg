\* A stop before the thread raised its flag.
CONSTANTS
    Workflows = {w1}
    Threads = {th1, th2}
    Steps = 1
    MaxFaults = 0
    MaxRestarts = 0
SPECIFICATION Spec

INVARIANTS
    OneThreadAtATime
