SPECIFICATION Spec
CONSTANTS
  MaxConns = 1
  ForkId = "etrog"
  ForkIds = {"etrog", "elderberry"}
  SanityCheck = TRUE
  Texts = {"root", "unreadable"}
INVARIANTS
  BatchStateRootsMatch
CHECK_DEADLOCK FALSE
