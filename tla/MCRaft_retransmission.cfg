SPECIFICATION Spec
CONSTANTS
    Server = {n1, n2, n3}
    None = None
    MaxTerm = 1
    MaxLog = 3
    MaxNet = 3
SYMMETRY ServerSymmetry
\* every bound reached and every message handled: nothing is left to do
CHECK_DEADLOCK FALSE
INVARIANT StateMachineAgreement
