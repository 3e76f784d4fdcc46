SPECIFICATION Spec
CONSTANTS
  w1 = w1
  Workers = {w1}
  NumBatches = 2
  Blocks <- OneBlock
  MaxReorgs = 1
  MaxFaults = 0
  NoWitness = {}
INVARIANTS
  ReorgedProofsDeleted
CHECK_DEADLOCK FALSE
