SPECIFICATION Spec
CONSTANTS
    Key = {k1, k2}
    Client = {c1}
    MaxLease = 3
    MaxObject = 3
    MaxListed = 2
SYMMETRY KeySymmetry
\* every bound reached and every key gone: nothing is left to do
CHECK_DEADLOCK FALSE
INVARIANT TypeOK
INVARIANT MappedKeyIsListed
INVARIANT LeasedKeyIsListed
PROPERTY RevokedLeaseLeavesNoKey
