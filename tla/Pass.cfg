SPECIFICATION FairSpec
CONSTANTS
  Frame = {f1, f2}
  Snr = {1, 2}
  Unheard = Unheard
  Bin = {b1}
  Signature <- OneSignature
  MaxHamming = 0
  Ttl = 0
  Horizon = 1
  Rescues = 1
  RescueChecks = 2
  AidedChecks = 1
  Checks = {1, 3}
  MaxCandidates = 2
INVARIANTS
  TypeOK
  ReportsImprove
  SavedResidualIsSearched
  DeepBandIsNotForgotten
  OnlyReceivedAudioIsSummed
PROPERTIES
  ReturnsDistinctFrames
  CallsReturn
