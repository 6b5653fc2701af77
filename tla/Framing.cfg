SPECIFICATION Spec
CONSTANTS
  Ranked <- MCRanked
  Crc16 <- MCCrc16
  Jobs <- MCJobs
INVARIANTS
  TypeOK
  SenderIsNamed
  MessageVerifies
  ParserAgrees
  PrefiltersAgree
PROPERTIES
  DataReadsBack
  HeadersReadBack
  TurnsShorten
