CONSTANTS
  client = client
  server = server
  k1 = k1
  k2 = k2
  Object <- MCObject
  ContextKeys <- MCContextKeys
  MaxRetries = 1
  MaxBatch = 2
  MaxPairs = 2
  MaxEvals = 2
SYMMETRY MCSymmetry
SPECIFICATION ContextSpec
INVARIANTS ContextTypeOK HonestProofsAgree ProofTellsBatchAndTurns
