CONSTANTS
  MaxToken = 2
  MaxFresh = 3
  MaxCert = 3
  MaxClock = 4
  MaxFault = 1
  TokenLife = 1
  ReceiptLife = 2
  Overlap = 3
  RenewBefore = 4
  CertLife = 5
SPECIFICATION EnrollSpec
CHECK_DEADLOCK FALSE
INVARIANTS OneIdentity OverlapIsExact
PROPERTY SetupFinishes
