SPECIFICATION FairStageSpec
CONSTANTS
  w1 = w1
  w2 = w2
  Workers = {w1, w2}
  MinIdle = 1
  MaxIdle = 1
  NeedCap = 1
  HalfCloses <- StreamCarrier
  Window = 1
INVARIANT TypesOK
INVARIANT StoppedOnce
INVARIANT EndAfterData
PROPERTY GenerationDrains
PROPERTY KeepsMinIdle
 
CHECK_DEADLOCK FALSE
