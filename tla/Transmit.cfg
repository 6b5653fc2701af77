SPECIFICATION FairSpec
CONSTANTS
  Submode <- MCSubmode
  PeriodMs <- MCPeriod
  StartDelayMs <- MCStartDelay
  DataMs <- MCData
  LateNum <- MCLateNum
  LateDen <- MCLateDen
  TxDelayMs = 1
  TrPeriodMs = 0
  FramesPerMs = 2
  NumSymbols = 3
  SymbolFrames <- MCSymbol
  TuneFrames <- MCTune
  ClockMs = 12
  MaxRender = 5
  MaxUngated = 2
INVARIANTS
  KeepsItsPlace
  SymbolsOnTime
  SoundsInPayloadWindow
  GatedFramesLoseLittle
  NextViableStartIsViable
  LatestStartAgreesWithGate
PROPERTY
  EndsIdle
