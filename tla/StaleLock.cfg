SPECIFICATION Spec
CONSTANTS
  p1 = p1
  p2 = p2
  sender = sender
  Provers = {p1, p2}
  Sender = sender
  LastBatch = 1
  L1Sequences <- Singles
  Configs <- ToL1
  Faults = {}
  MaxFaults = 0
  PromptHolders = FALSE
  LateMining = FALSE
  WrongRoot = {}
SYMMETRY ProverSymmetry
INVARIANTS
  ClaimsExclusive
