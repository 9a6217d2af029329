CONSTANTS
  depth = 3
  Block <- MCBlock
  zero_block = 0
  Add <- MCAdd
  Sub <- MCSub
  Xor <- MCXor
  DLenPRG <- MCPRG
  Roots = {2, 14}
  Perms <- MCPerms
SPECIFICATION Spec
INVARIANTS QueueIsPuncturedLevel Correlated
