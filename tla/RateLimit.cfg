SPECIFICATION Spec
CONSTANTS
    Requests = {r1, r2}
    Limit = 2
    Window = 3
    Second = 2
    Grace = 1
    MaxLag = 1
    MaxSkew = 1
    MaxTime = 7
SYMMETRY RequestSymmetry
INVARIANTS
    QuotaHolds
    RetryAfterHonest
PROPERTIES
    NoFalseRejection
