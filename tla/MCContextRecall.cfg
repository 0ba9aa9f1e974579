CONSTANTS
    MaxAttempts = 6
    LoaderRetries = 1
    MaxItems = 2
    NaN = NaN
SPECIFICATION Spec
INVARIANTS
    RecallTypeOK
    RecallScoreIsAttributedFraction
    RecallUndefinedOnBadOutput
