SPECIFICATION FairSpec
CONSTANTS
    Key <- MCKey
    Pattern <- MCNamed
    None = None
    EventCap = 1
    WatchCap = 1
    ResultCap = 2
    MaxWatch = 1
    MaxEvents = 2
\* the process ends in a panic, or with everything closed
CHECK_DEADLOCK FALSE
PROPERTY EventsNotLost
