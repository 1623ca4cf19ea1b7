\* One request at a time, two of which may die half-way.
CONSTANTS
    Handlers = {h1}
    RunIds = {r1, r2, r3}
    Periods = {p1}
    PayoutKeys = {k1, k2}
    NoKey = NoKey
    MaxAborts = 2
SPECIFICATION Spec
PROPERTIES
    ImplementsLifecycle
    PaidRunIsFinal
    PeriodPaidOnce
