CONSTANTS
  Files = 2
  FileSize = 2
  MaxRequest = 2
  Age = 3
  Life = 1
  MaxNow = 3
  MaxGrant = 2
  MaxKey = 2
  MaxSession = 2
  MaxFault = 1
SPECIFICATION Spec
INVARIANTS
    CursorFollowsHub BooksAreTrue
PROPERTIES
    RecoveryFinishes
CHECK_DEADLOCK FALSE
