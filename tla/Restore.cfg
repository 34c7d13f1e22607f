CONSTANTS
  MaxGen = 3
  MaxRowid = 1
  MaxBackups = 2
  MaxSecret = 2
  MaxFault = 1
SPECIFICATION RestoreSpec
INVARIANTS
    HubIsOfOneGeneration EvidenceIsComplete
PROPERTIES
    RestoreFinishes AtomicReplacement
CHECK_DEADLOCK FALSE
