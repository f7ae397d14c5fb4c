SPECIFICATION Spec
CONSTANTS
    Writer = writer
    Stopper = stopper
    Flushers = {}
    QueueSize = 2
    BatchSize = 2
    MaxRecords = 5
INVARIANTS
    RowsInOrder
PROPERTIES
    NeverDropsRecent
    ImplementsTrail
