SPECIFICATION FairSpec
CONSTANTS
    r0 = r0
    r1 = r1
    None = None
    Torn = Torn
    Ranks = {r0, r1}
    Main = r0
    Configs <- TwoConfigs
    NumEpochs = 2
    Batches = 4
    StartEpochs = {0, 1}
    MaxNan = 2
    MaxLaunches = 2
    MaxMishaps = 3
CHECK_DEADLOCK FALSE
INVARIANTS
    LatestIsWhole
    EarlyExitKeepsWork
    MetricsDescribeWeights
    ScheduleSpansRun
PROPERTIES
    RunEnds
