CONSTANTS
    Key = {k1}
    Value = {v1}
    None = None
    Txn = {}
    SegmentSize = 1
    MaxRecords = 2
    MaxOps = 1
SPECIFICATION Spec
CHECK_DEADLOCK FALSE
INVARIANT AckedWritesLogged
