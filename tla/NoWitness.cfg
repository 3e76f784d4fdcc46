SPECIFICATION FairSpec
CONSTANTS
  w1 = w1
  w2 = w2
  Workers = {w1, w2}
  NumBatches = 3
  Blocks <- OneBlockEach
  MaxReorgs = 1
  MaxFaults = 1
  NoWitness = {2}
PROPERTIES
  BatchesGetReady
CHECK_DEADLOCK FALSE
