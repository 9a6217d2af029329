CONSTANTS
  P = 17
  Degree = 8
  Dim = 3
  Ell = 2
  Root = 4
  RangeToCheck = 1
  RangeCheckIndices <- MCIndices
  Word = 65536
  Buckets = 3
  Repetition = 2
  Copies = 2
  PayloadSize = 2
  RhsSlots = 2
  Step = 4
  MaxCount = 24
  Sizes <- MCSizes
  PertinentSets <- MCPertinentSets
  Key <- MCKey
  ForeignKeys <- MCForeignKeys
  Mask <- MCMask
  Noise <- MCNoise
  EdgeChoices <- MCEdgeChoices
  SlotChoices <- MCSlotChoices
SPECIFICATION Spec
INVARIANTS OwnDetected IndicesExact PayloadsUnlessShared CorrectReported
