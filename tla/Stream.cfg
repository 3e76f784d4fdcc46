SPECIFICATION FairSpec
CONSTANTS
  w1 = w1
  w2 = w2
  Workers = {w1, w2}
  NumBatches = 3
  Blocks <- OneOrTwoBlocks
  MaxReorgs = 1
  MaxFaults = 2
  NoWitness = {}
INVARIANTS
  TypeOK
  BatchesMatchL1
PROPERTIES
  WitnessKept
  BatchesGetReady
CHECK_DEADLOCK FALSE
