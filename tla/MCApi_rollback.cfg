SPECIFICATION Spec
CONSTANTS
    Key = {1, 2}
    Value = {1, 2}
    None = None
    Client = {c1, c2}
    Request <- MCTogether
SYMMETRY Symmetry
INVARIANT RefusedTransactionLeavesNothing
