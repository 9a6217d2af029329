CONSTANTS
  Configs <- MCConfigs
  Capacity = 42
  Holds <- MCHolds
SPECIFICATION FairSpec
INVARIANTS TypeOK TypedReceives RefusedTogether HangsOnPipeOrDesertedOnly NothingLeft ParsedIsWholeRun
PROPERTIES DriverEnds RetrievalSpec
