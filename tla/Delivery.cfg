SPECIFICATION FairSpec
CONSTANTS
    Configs = {"a", "b"}
    Aligned = {TRUE, FALSE}
    Span = 1
    CurrentAge = 1
    Faults = {"request", "answer", "late", "busy", "store", "append", "crash", "edit"}
    MaxFrames = 3
    MaxBoots = 2
    MaxNow = 4
    MaxFaults = 1
INVARIANTS
    SidesAgree CurrentNeverRegresses TransitionIsExact
PROPERTIES
    EveryFrameArrives
CHECK_DEADLOCK FALSE
