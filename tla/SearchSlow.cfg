SPECIFICATION SearchSpec
CONSTANTS
  Submode <- MCSubmode
  SampleSize = 1200
  SamplesPerPeriod <- MCPeriod
  SamplesNeeded <- MCNeeded
  StartDelay <- MCDelay
  SymbolSamples <- MCSymbols
  SearchFirst <- MCFirst
  SearchLast <- MCLast
  ClockError = 0
  MaxStep = 17
INVARIANT
  FramesAreSearched
