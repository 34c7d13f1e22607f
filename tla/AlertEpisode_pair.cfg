SPECIFICATION Spec
CONSTANTS
    Rules = {1, 2}
    Trigger <- FirstAtOnce
    Recovery <- Dwell
    MaxGap = 2
    Decisions <- MostDecisions
    MaxVersion = 2
    MaxEpisodes = 2
    MaxNow = 4
PROPERTIES
    FiringIsEarned ResolutionIsEarned LedgerSpec
CHECK_DEADLOCK FALSE
