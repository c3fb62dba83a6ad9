CONSTANTS
    Calls       = {c1}
    Listener    = Listener
    MaxLate     = 1
SPECIFICATION FairSpec
INVARIANTS
    TypeOK
    OneEvaluation
PROPERTIES
    ModesPassThroughOff
    EvaluationEnds
    AutoHeatsColdRoom
