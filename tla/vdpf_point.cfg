CONSTANTS
  Modulus = 5
  Size = 3
  BlockBits <- MCBlockBits
  AesEcb <- MCAesEcb
  FromBlock <- MCFromBlock
  Identifier <- MCIdentifier
  GetBit <- MCGetBit
  Betas <- MCBetas
  Inputs <- MCInputs
  MaxRetries = 1
SPECIFICATION FullSpec
INVARIANTS TypeOK TreeInvariant SharesOfPointFunction OneSelectorAtAlpha FullDomainShares
CHECK_DEADLOCK FALSE
