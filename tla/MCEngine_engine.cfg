CONSTANTS
    Key = {k1}
    Value = {v1}
    None = None
    Txn = {t1}
    SegmentSize = 1
    MaxRecords = 3
    MaxOps = 2
SPECIFICATION Spec
\* the engine stops for good on a torn log
CHECK_DEADLOCK FALSE
INVARIANT TypeOK
INVARIANT ReplayInAppendOrder
INVARIANT AckedIsSynced
INVARIANT MemoryIsReplay
PROPERTY TruncateKeepsSnapshotted
PROPERTY DurableSpec
