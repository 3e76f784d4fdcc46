SPECIFICATION FairSpec
CONSTANTS
  p1 = p1
  p2 = p2
  sender = sender
  Provers = {p1, p2}
  Sender = sender
  LastBatch = 3
  L1Sequences <- SingleAndPair
  Configs <- AnyBackend
  Faults = {"prover", "storage", "settle", "crash", "timeout"}
  MaxFaults = 1
  PromptHolders = TRUE
  LateMining = TRUE
  WrongRoot = {}
PROPERTIES
  SequencesVerified
