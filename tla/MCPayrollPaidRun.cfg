\* Two requests at a time: is a paid run final?
CONSTANTS
    Handlers = {h1, h2}
    RunIds = {r1, r2}
    Periods = {p1}
    PayoutKeys = {k1}
    NoKey = NoKey
    MaxAborts = 0
SPECIFICATION Spec
PROPERTY PaidRunIsFinal
