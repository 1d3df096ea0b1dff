SPECIFICATION Spec
CONSTANTS
    Key = {1, 2}
    Value = {1, 2}
    None = None
    Client = {c1, c2}
    Request <- MCRequest
SYMMETRY Symmetry
INVARIANT TypeOK
INVARIANT TransactionAsIfAlone
INVARIANT BatchAsIfAlone
INVARIANT BranchWasCalledFor
INVARIANT OpenTransactionsAreServed
