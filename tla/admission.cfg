CONSTANTS
  s = s
  t = t
  SignalId = {s, t}
  KeyShare = {"A", "B", "C", "short"}
  Registry <- MCRegistry
  NoKey = "none"
  WellFormed <- MCWellFormed
  Pair <- MCPair
  Proof <- MCProof
  ProofValue <- MCProofValue
  NullProof <- MCNull
  Garbled <- MCGarbled
  MaxPrepared = 2
SYMMETRY MCSymmetry
SPECIFICATION Spec
INVARIANTS TypeOK StoredIsVouched DivergenceHasCause
PROPERTIES StoreIsWriteOnce LedgerSpec
