SPECIFICATION Spec
CONSTANTS
    Need <- MCNeed
    Limit <- MCLimit
    Payload <- MCPayload
    PauseAt = 4
    MaxAge = 0
    MaxNow = 2
    Handlers = {h1, h2}
    Operators = {o1}
    MaxCases = 3
    TitledAt = {3}
    MaxRevision = 3
    OpenLimit = 2
    RetainedLimit = 2
    ResolvedLimit = 1
    Retention = 2
    ReceiptFor = 1
INVARIANTS
    EveryByteIsCharged LossIsTold RetryCreatesOnce
PROPERTIES
    EvidenceLeavesByRule ChangeIsOfWhatWasRead
SYMMETRY HandlerSymmetry
CHECK_DEADLOCK FALSE
