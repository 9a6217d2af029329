CONSTANTS
  n = 5
  t = 2
  Block <- MCBlock
  zero_block = 0
  Add <- MCAdd
  Sub <- MCSub
  PermTables <- MixedTables
  Masks <- MCMasks
SPECIFICATION Spec
INVARIANTS DeltaCorrelates
CHECK_DEADLOCK FALSE
