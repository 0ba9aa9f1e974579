CONSTANTS
    Modes = {"qac", "qa", "qc"}
    MaxRows = 2
SPECIFICATION Spec
INVARIANTS
    CallScoresIffComplete
    BatchFailFast
