CONSTANTS
    s1 = s1 s2 = s2 s3 = s3 c1 = c1 c2 = c2
    Suggestions = {s1, s2, s3}
    HasAction = {s1, s2, s3}
    Callable = {s1, s2, s3}
    Type <- MCType
    User <- MCUser
    Cycles = {c1, c2}
    Clerks = {1}
    FollowUp = "follow_up"
    DefaultLevel <- MCDefaultLevel
    FollowupLimit = 1
    MaxRuleChanges = 1
    MaxCalls = 1
    MaxCalled = 1
    MaxMisheard = 1
SPECIFICATION Spec
SYMMETRY Symmetry
INVARIANTS TypeOK AutoNeedsConsent FollowupBound AppliedMeansDone
CHECK_DEADLOCK FALSE
