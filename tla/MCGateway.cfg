CONSTANTS
    Outputs = {c1, c2}
    MaxAttempts = 6
    MaxN = 3
SPECIFICATION Spec
SYMMETRY OutputSymmetry
INVARIANTS
    GwTypeOK
    ResultShape
