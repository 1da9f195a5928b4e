SPECIFICATION FairSpec
CONSTANTS
    Requests <- MCOneRequest
    ReviewRequired <- MCOneRequest
    AcceptanceRequired <- MCOneRequest
    Procs = {p1}
    MaxAttempts = 1
    MaxAborts = 1
    NoFile = NoFile
    NoProc = NoProc
PROPERTY ProcessingEnds
