\* Two workers; nothing crashes, no message is claimed from a live worker.
CONSTANTS
    Tasks = {t1, t2}
    Workers = {w1, w2}
    BatchSize = 2
    MaxRetries = 1
    MaxStreamLen = 2
    ReportOutcomes = {"applied", "lost_reply", "lost_call"}
    MaxClaims = 0
    MaxCrashes = 0
    MaxAborts = 1
    MaxExpiries = 1
SPECIFICATION Spec
SYMMETRY Symmetry
CHECK_DEADLOCK FALSE
INVARIANTS
    TypeOK
    NothingStranded
    CompletedResultsExpire
PROPERTIES
    KeepsContract
