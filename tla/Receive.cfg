SPECIFICATION Spec
CONSTANTS
  SampleSize = 12
  Ndown = 2
  FramesPerMs = 2
  MsPerSecond = 2
  PeriodSeconds = 6
  BlockSizes = {1, 2}
  Blank = Blank
  Submode = {"Fast", "Slow"}
  SamplesPerPeriod <- MCPeriod
  SamplesNeeded <- MCNeeded
  MaxStep = 5
  MaxLag = 2
  MaxLost = 2
  MaxTroubles = 2
  Slips <- MCSlips
  MaxSkew = 6
  Horizon <- MCHorizon
INVARIANTS
  HeardInOrder
  WindowHoldsItsAudio
PROPERTIES
  PolledAsExpected
  PeriodHeardOut
CHECK_DEADLOCK FALSE
