SPECIFICATION FairSpec
CONSTANTS
    Destinations = {d1}
    Lease = 2
    Lifetime = 4
    Delays <- ShortDelays
    RetryAfter = {3}
    MuteFor = 2
    Operator = {"mute", "revise", "test", "retry", "rule"}
    Faults = {"lost", "busy", "rejected", "timeout", "crash", "late", "parent"}
    Slack = 3
    MaxFaults = 1
    MaxSeq = 2
    MaxEdits = 2
    MaxClock = 5
INVARIANTS
    ReceiversAreKnown
PROPERTIES
    OvertakenIsDeclared EveryIntentEnds NewsArrives
CHECK_DEADLOCK FALSE
