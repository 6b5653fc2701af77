SPECIFICATION Spec
CONSTANTS
  Submode <- MCSubmode
  SampleSize = 120
  SamplesPerPeriod <- MCPeriod
  SamplesNeeded <- MCNeeded
  MaxStep = 1
  StartDelay <- MCDelay
  SymbolSamples <- MCSymbols
  SearchFirst <- MCFirst
  SearchLast <- MCLast
  ClockError = 0
INVARIANTS
  CursorInv
  WindowHoldsSlot
  FramesAreSearched
PROPERTY
  OneWindowPerSlot
