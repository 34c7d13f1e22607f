SPECIFICATION FairSpec
CONSTANTS
    Keys = {"gpu", "host"}
    Cap = 1
    Window = 1
    Drift = 2
    Faults = {"request", "answer", "late", "crash"}
    MaxLosses = 2
    MaxStatus = 3
    MaxBoots = 2
    MaxNow = 2
    MaxFaults = 1
INVARIANTS
    LossesAreToldOnce SequenceAgrees
PROPERTIES
    LossesAreSettled
CHECK_DEADLOCK FALSE
