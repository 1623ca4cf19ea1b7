\* Two workers, one of which may crash and claim.
CONSTANTS
    Tasks = {t1}
    Workers = {w1, w2}
    BatchSize = 2
    MaxRetries = 2
    MaxStreamLen = 10
    ReportOutcomes = {"applied", "lost_reply", "lost_call"}
    MaxClaims = 1
    MaxCrashes = 1
    MaxAborts = 0
    MaxExpiries = 0
SPECIFICATION FairSpec
CHECK_DEADLOCK FALSE
INVARIANTS
    NothingStranded
PROPERTIES
    TasksFinish
