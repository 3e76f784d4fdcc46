SPECIFICATION Spec
CONSTANTS
  Height = 3
  Base = 32
  c0 = 24
  shortRlp = 5
  changeL2Block = 11
  sizeUInt32 = 2
  RawTxs <- MCRawTxs
  DeltaTimestamps <- MCDeltaTimestamps
  MaxItems = 4
  MaxLeaves = 4
  MaxReorgs = 1
INVARIANTS
  TypeOK
  TreeFollowsLeaves
  DecodesToBlocks
  ForcedBatchesDecode
  CutDataNeverMisread
  InputFitsBatch
  MismatchAfterReorgOnly
