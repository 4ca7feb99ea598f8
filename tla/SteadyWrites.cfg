CONSTANTS
  Files <- ThreeFiles
  Names <- TwoNames
  Name <- NameOf
  Ignored <- Temporary
  EngineFiles <- EngineWritten
  Rewritten <- InPlace
  CheckTicks = 2
  CooldownTicks = 2
  ExpiryTicks = 3
  MaxWrites = 3
  MaxTicks = 4
SPECIFICATION FairSpec
INVARIANT SummonsAfterWriting
PROPERTY UserWriteSummoned
