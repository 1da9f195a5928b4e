SPECIFICATION Spec
CONSTANTS
    Sizes <- MCSizes
    MaxBytes = 3
    MaxEvents = 4
    MaxSegments = 4
    MaxAborts = 0
    MaxDamage = 1
INVARIANT LossIsRefused
