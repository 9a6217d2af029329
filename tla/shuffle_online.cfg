CONSTANTS
  N = 3
  Flat = FALSE
  Block <- MCBlock
  zero_block = 0
  Add <- MCAdd
  Sub <- MCSub
  Perms <- MCPerms
  Inputs <- MCInputs
  Masks <- MCMasks
SPECIFICATION FairSpec
INVARIANTS TypeOK SharesOfShuffled ConnectionDrained
PROPERTIES Returns
