SPECIFICATION Spec
CONSTANTS
    Ids <- MCIds
    Procs = {p1, p2}
    MaxRows = 2
    KeepRows = 2
    MaxWrites = 4
    MaxAborts = 1
    MaxPulls = 1
    NoProc = NoProc
SYMMETRY MCProcs
INVARIANTS TypeOK AckedSurvives ForgottenStaysHidden BodyErased RetiredStaysRetired
CHECK_DEADLOCK FALSE
