SPECIFICATION FairSpec
CONSTANTS
    MaxRecords = 2
    MaxBoots = 3
    MaxNow = 1
    Sources <- MCSources
    SourceOf <- MCSourceOf
    SizeOf <- UnitSize
    GenerationOf <- MCGenerationOf
    Window = 1
    CurrentAge = 0
    MaxAge = 1
    Capacity = 2
    SegmentCap = 2
    MaxSegments = 2
    Failing = {"write", "journal", "remove"}
INVARIANTS
    NoSilentLoss AlwaysRecovers
PROPERTIES
    QuarantineHolds Promise BacklogDrains
CHECK_DEADLOCK FALSE
