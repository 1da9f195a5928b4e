SPECIFICATION Spec
CONSTANTS
    Jobs <- MCJobs
    PriorityOf <- MCSamePriority
    Procs = {p1, p2}
    MaxAttemptsLimit = 2
    MaxAborts = 1
    NoFile = NoFile
    Torn = Torn
    NoProc = NoProc
INVARIANTS TypeOK NeverLost BoundedAttempts OneHome ClosedOnce
SYMMETRY ProcsSymmetry
PROPERTIES NoRevokedClose ImplementsJobQueue
