SPECIFICATION FairSpec
CONSTANTS
    Key = {k1}
    None = None
    Commands <- MCCommands
    Deliverer = {d1}
    MessageCap = 1
    ApplyCap = 1
\* the process ends in a panic, or stopped with its channels empty
CHECK_DEADLOCK FALSE
INVARIANT TypeOK
INVARIANT EntriesReachMachineOnce
INVARIANT MachineFollowsLog
INVARIANT NodeKeepsTime
PROPERTY LockIsReleased
PROPERTY QueuedEntriesLeave
