CONSTANTS
    Modes = {"qac", "qa", "qc"}
    MaxRows = 1
SPECIFICATION Spec
INVARIANT
    EvaluateAgreesWithCall
