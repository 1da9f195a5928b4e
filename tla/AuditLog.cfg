SPECIFICATION Spec
CONSTANTS
    Sizes <- MCSizes
    MaxBytes = 3
    MaxEvents = 4
    MaxSegments = 4
    MaxAborts = 2
    MaxDamage = 1
INVARIANTS TypeOK WritersSatisfyDoctor IndexTrue AckedReadable RepairRelinks
