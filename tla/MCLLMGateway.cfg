CONSTANTS
    r1 = r1 r2 = r2 r3 = r3 r4 = r4
    Requests <- MCRequests
    Ask <- MCAsk
    Limits <- MCLimits
    Fallback = "gpt-4o"
    BatchMax = 2
    NoTimer = NoTimer
    NoModel = "nobody"
SPECIFICATION FairSpec
INVARIANTS TypeOK NoneStranded AnsweredInKind
PROPERTIES EveryoneAnswered
CHECK_DEADLOCK FALSE
