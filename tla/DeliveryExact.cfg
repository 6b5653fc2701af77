SPECIFICATION FairSpec
CONSTANTS
  Submode = {"Normal"}
  HzUnit = 10
  MaxHz = 2
  Call = {"alice", "bob", "@APRSIS"}
  Placeholder = "<....>"
  Aprsis = "@APRSIS"
  Command = {"MSG", "STATUS", "none"}
  NoCommand = "none"
  BufferedCommand = {"MSG", "STATUS"}
  CheckedCommand = {"MSG"}
  AprsMsgCommand = {"MSG"}
  Char <- MCChar
  Space <- MCSpace
  Checksum16 <- MCChecksum16
  ChecksumLen = 1
  NoBuffer = NoBuffer
  Channel = {"c1", "c2"}
  SubmodeOf <- MCSubmodeOf
  Estimates <- Steady
  Traffic <- ExactTraffic
  FragmentLen = 2
  MayMiss = FALSE
  MaxDecodes = 1
  MaxMessages <- TwoEach
  MayClear = FALSE
  Silence = Silence
INVARIANTS
  ExactDelivery
PROPERTY
  EveryMessageReported
CHECK_DEADLOCK FALSE
