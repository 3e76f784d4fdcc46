SPECIFICATION Spec
CONSTANTS
  p1 = p1
  sender = sender
  Provers = {p1}
  Sender = sender
  LastBatch = 1
  L1Sequences <- Singles
  Configs <- Unprofitable
  Faults = {}
  MaxFaults = 0
  PromptHolders = TRUE
  LateMining = FALSE
  WrongRoot = {}
INVARIANTS
  ProcessSurvives
