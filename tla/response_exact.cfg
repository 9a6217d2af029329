CONSTANTS
  w = 5
  p = 3
  Pub = 4099
  N = 2
  Masks = {0, 1, 17, 31}
  Rans = {6, 8}
  Draws = {0, 29}
SPECIFICATION Spec
INVARIANTS ExactLocations
CHECK_DEADLOCK TRUE
