SPECIFICATION FairSpec
CONSTANTS
    Writer = writer
    Stopper = stopper
    Flushers = {f1, f2}
    QueueSize = 2
    BatchSize = 2
    MaxRecords = 2
INVARIANTS
    NoRecordTwice
    EveryRecordCounted
    SettledOnReturn
PROPERTIES
    RecordSettles
    CallsReturn
