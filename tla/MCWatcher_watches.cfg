SPECIFICATION FairSpec
CONSTANTS
    Key <- MCKey
    Pattern <- MCPattern
    None = None
    EventCap = 1
    WatchCap = 1
    ResultCap = 1
    MaxWatch = 2
    MaxEvents = 2
\* the process ends in a panic, or with everything closed
CHECK_DEADLOCK FALSE
INVARIANT TypeOK
INVARIANT EventsInOrder
INVARIANT LostOnlyWhenFull
INVARIANT PanicOnlyOnceStopped
PROPERTY CancelledWatchEnds
