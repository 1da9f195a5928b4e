SPECIFICATION FairSpec
CONSTANTS
    Jobs <- MCJobs
    PriorityOf <- MCTwoPriorities
    Procs = {p1}
    MaxAttemptsLimit = 1
    MaxAborts = 1
    NoFile = NoFile
    Torn = Torn
    NoProc = NoProc
PROPERTY ExpiredLeasesAreTakenBack
