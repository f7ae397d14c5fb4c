SPECIFICATION FairSpec
CONSTANTS
    w1 = w1
    w2 = w2
    j1 = j1
    NoJob = NoJob
    NoQuery = NoQuery
    Jobs = {j1}
    Workers = {w1, w2}
    Items = 2
    MaxLosses = 2
INVARIANTS
    NoJobLost
    CompletedIsWhole
PROPERTIES
    CompletedStays
    JobFinishes
