SPECIFICATION Spec
CONSTANTS
  p1 = p1
  p2 = p2
  sender = sender
  Provers = {p1, p2}
  Sender = sender
  LastBatch = 3
  L1Sequences <- PairAndSingle
  Configs <- AnyBackend
  Faults = {"prover", "storage", "settle", "crash", "timeout"}
  MaxFaults = 2
  PromptHolders = TRUE
  LateMining = TRUE
  WrongRoot = {}
SYMMETRY ProverSymmetry
INVARIANTS
  RowsDisjoint
  SettlesWholeSequences
  RowsFollowSequences
