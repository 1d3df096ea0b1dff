SPECIFICATION Spec
CONSTANTS
    Server = {n1, n2, n3}
    None = None
    MaxTerm = 2
    MaxLog = 2
    MaxNet = 2
SYMMETRY ServerSymmetry
\* every bound reached and every message handled: nothing is left to do
CHECK_DEADLOCK FALSE
INVARIANT TypeOK
INVARIANT ElectionInv
INVARIANT ElectionSafety
INVARIANT AppendsReflectLeaderLog
INVARIANT MatchWithinLeaderLog
PROPERTY LeaderAppendOnly
