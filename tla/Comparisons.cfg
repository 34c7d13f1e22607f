SPECIFICATION Spec
CONSTANTS
    Clients = {c1, c2}
    Keys = {k1}
    ProbeIds = {p1, p2}
    ImportIds = {i1, i2}
    ResultIds = {r1, r2}
    Warmths = {0, 1}
    Artifacts <- MCArtifacts
    Declarations <- MCDeclarations
    MaxNow = 5
    ReceiptFor = 1
    ImportGap = 1
    Retention = 2
    MaxResults = 1
INVARIANTS
    OneRunPerKey ClaimIsEarned
PROPERTIES
    AnswersHold
SYMMETRY MCSymmetry
CHECK_DEADLOCK FALSE
