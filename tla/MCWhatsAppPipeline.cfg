CONSTANTS
    d1 = d1 d2 = d2
    m1 = m1 m2 = m2 ok1 = ok1 ok2 = ok2 hi = hi
    ann = ann owner = owner
    Deliveries <- MCDeliveries
    Batch <- MCBatch
    Kind <- MCKind
    From <- MCFrom
    SweepSize = 1
    MaxRetries = 2
    MaxFaults = 2
SPECIFICATION Spec
INVARIANTS
    TypeOK AnsweredOnce ForgettingTakesThree LockedMeansAnswering SentWasReceived IntakeAccounted
CHECK_DEADLOCK FALSE
