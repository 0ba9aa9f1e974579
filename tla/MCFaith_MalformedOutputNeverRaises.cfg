CONSTANTS
    MaxAttempts = 6
    LoaderRetries = 1
    MaxStmts = 2
    MaxVerdicts = 2
    NaN = NaN
SPECIFICATION Spec
INVARIANT
    MalformedOutputNeverRaises
