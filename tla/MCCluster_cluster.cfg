SPECIFICATION Spec
CONSTANTS
    n1 = n1
    n2 = n2
    n3 = n3
    n4 = n4
    Node = {n1, n2, n3, n4}
    Templates <- MCTemplates
    None = None
    MaxArrays = 2
    MaxChanges = 2
\* the process ends in a panic
CHECK_DEADLOCK FALSE
INVARIANT TypeOK
INVARIANT MajoritiesOverlap
INVARIANT MajoritiesOverlapOverTime
INVARIANT ListsNameMembers
INVARIANT AddressesKnown
INVARIANT PanicOnlyOnceHalted
