SPECIFICATION FairSpec
CONSTANTS
  MaxConns = 2
  ForkId = "etrog"
  ForkIds = {"etrog", "elderberry"}
  SanityCheck = TRUE
  Texts = {"root", "otherRoot", "mock"}
INVARIANTS
  TypeOK
  OneJobAtATime
  AnswersMatchRequests
  ForkIdHolds
  BatchStateRootsMatch
PROPERTIES
  LoopsGoOn
  IdleAgain
CHECK_DEADLOCK FALSE
