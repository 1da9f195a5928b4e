SPECIFICATION FairSpec
CONSTANTS
    Jobs <- MCJobs
    PriorityOf <- MCTwoPriorities
    Procs = {p1}
    MaxAttemptsLimit = 2
    MaxAborts = 0
    NoFile = NoFile
    Torn = Torn
    NoProc = NoProc
PROPERTY EveryJobSettles
