SPECIFICATION Spec
CONSTANTS
  Ranked <- MCRanked
  Crc16 <- MCCrc16
  Jobs <- UnsupportedJobs
INVARIANT
  StopsOnUnsupportedInput
