SPECIFICATION Spec
CONSTANTS
  Submode = {"Slow", "Fast", "Other"}
  Polled = {"Slow", "Fast"}
  Text = {"a"}
  SampleSize = 13
  SamplesPerPeriod <- MCPeriod
  SamplesForSymbols <- MCSymbols
  SamplesForOneSymbol <- MCOneSymbol
  StrideLimit <- MCLimit
  Reach <- MCReach
  NStep <- MCStep
  NFft <- MCFft
  History = 10
  Jitter = 1
  MaxStep = 2
  Occasions = {6, 10, 14}
  Horizon = 16
  MaxSent = 2
  MaxClears = 1
INVARIANTS
  NoFrameFallsBetween
  ReportedOnce
  SpectraAreOfTheWindow
CHECK_DEADLOCK FALSE
