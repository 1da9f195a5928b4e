SPECIFICATION Spec
CONSTANTS
    Sizes <- MCSizes
    MaxBytes = 3
    MaxEvents = 4
    MaxSegments = 4
    MaxAborts = 1
    MaxDamage = 0
INVARIANT SealedOnce
