CONSTANTS
    Models = {m1}
    NoModel = NoModel
    MaxTok = 1
SPECIFICATION Spec
INVARIANT
    SameModelSumDefined
