SPECIFICATION Spec
CONSTANTS
    c1 = c1
    d1 = d1
    c2 = c2
    None = None
    Pretrained = Pretrained
    Mine = Mine
    Shapes = Shapes
    u1 = u1
    u2 = u2
    Uuids = {u1, u2}
    RunOrder <- ThreeRuns
    Task <- Tasks
    Labelled = {c1, d1, c2}
    Saved = {c1, d1, c2}
    Scores <- Top1
    Timings <- Milliseconds
    SizeOf <- Megabytes
    DefaultSpecs <- Specs
    Flags <- SomeFlags
    Selections = {{"embedder"}}
    Before = 2
    Faults = 1
    Jobs = 2
CHECK_DEADLOCK FALSE
INVARIANTS
    SplitHasSidecar
    WorkspaceKept
    ForcedPublishAgrees
PROPERTIES
    BaselineKeepsItsMetrics
