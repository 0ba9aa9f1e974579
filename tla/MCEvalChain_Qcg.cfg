CONSTANTS
    Modes = {"qcg"}
    MaxRows = 1
SPECIFICATION Spec
INVARIANT
    CallScoresIffComplete
