CONSTANTS
  n = 6
  t = 2
  Block <- MCBlock
  zero_block = 0
  Add <- MCAdd
  Sub <- MCSub
  PermTables <- MixedTables
  Masks <- MCMasks
SPECIFICATION Spec
INVARIANTS TypeOK DeltaCorrelates
CHECK_DEADLOCK FALSE
