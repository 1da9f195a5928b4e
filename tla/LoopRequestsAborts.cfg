SPECIFICATION FairSpec
CONSTANTS
    Requests <- MCOneRequest
    ReviewRequired <- MCOneRequest
    AcceptanceRequired <- MCOneRequest
    Procs = {p1, p2}
    MaxAttempts = 2
    MaxAborts = 1
    NoFile = NoFile
    NoProc = NoProc
INVARIANTS TypeOK NeverLost OneHome BoundedClaims DoneWasApproved
PROPERTIES NoRevokedWrite EveryRequestSettles
