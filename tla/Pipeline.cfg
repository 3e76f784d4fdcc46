SPECIFICATION Spec
CONSTANTS
  p1 = p1
  p2 = p2
  p3 = p3
  sender = sender
  Provers = {p1, p2, p3}
  Sender = sender
  LastBatch = 3
  L1Sequences <- SingleAndPair
  Configs <- ToL1OrUnprofitable
  Faults = {"prover", "storage", "settle", "crash"}
  MaxFaults = 2
  PromptHolders = TRUE
  LateMining = FALSE
  WrongRoot = {}
SYMMETRY ProverSymmetry
INVARIANTS
  TypeOK
  RowsDisjoint
  ClaimsExclusive
  ClaimsLocked
  OnlyGeneratedProofsUsed
  RowsFollowSequences
  SingleFinalProof
  FinalProofExtendsVerified
PROPERTIES
  UnlockedProofsKept
  ImplementsPool
