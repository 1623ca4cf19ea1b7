\* Two requests at a time on two runs.
CONSTANTS
    Handlers = {h1, h2}
    RunIds = {r1, r2}
    Periods = {p1, p2}
    PayoutKeys = {k1}
    NoKey = NoKey
    MaxAborts = 1
SPECIFICATION Spec
SYMMETRY Symmetry
INVARIANTS
    TypeOK
    OneActiveRunPerPeriod
    OneRunPerPayoutKey
    EveryStageSigned
    LogTellsTruth
