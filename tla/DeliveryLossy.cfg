SPECIFICATION Spec
CONSTANTS
  Submode = {"Normal"}
  HzUnit = 10
  MaxHz = 1
  Call = {"alice", "bob", "@APRSIS"}
  Placeholder = "<....>"
  Aprsis = "@APRSIS"
  Command = {"MSG", "STATUS", "none"}
  NoCommand = "none"
  BufferedCommand = {"MSG", "STATUS"}
  CheckedCommand = {"MSG"}
  AprsMsgCommand = {"MSG"}
  Char <- MCChar
  Space <- MCSpace
  Checksum16 <- MCChecksum16
  ChecksumLen = 1
  NoBuffer = NoBuffer
  Channel = {"c1", "c2"}
  SubmodeOf <- MCSubmodeOf
  Estimates <- Meeting
  Traffic <- LossyTraffic
  FragmentLen = 2
  MayMiss = TRUE
  MaxDecodes = 2
  MaxMessages <- TwoThenOne
  MayClear = TRUE
  Silence = Silence
INVARIANTS
  AirTypeOK
  DeliveredInOrder
PROPERTY
  Delivery
CHECK_DEADLOCK FALSE
