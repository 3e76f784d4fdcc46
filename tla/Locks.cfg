SPECIFICATION Spec
CONSTANTS
  p1 = p1
  p2 = p2
  sender = sender
  Provers = {p1, p2}
  Sender = sender
  LastBatch = 4
  L1Sequences <- TwoPairs
  Configs <- ThroughAgglayer
  Faults = {"prover", "settle", "crash"}
  MaxFaults = 2
  PromptHolders = TRUE
  LateMining = FALSE
  WrongRoot = {4}
SYMMETRY ProverSymmetry
INVARIANTS
  LocksHaveHolder
CHECK_DEADLOCK FALSE
