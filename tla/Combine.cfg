SPECIFICATION Spec
CONSTANTS
  Bin = {b1}
  Signature <- MCSignature
  MaxHamming = 1
  Ttl = 2
  Part <- MCPart
  TimeOf <- MCTimeOf
  Horizon = 5
INVARIANTS
  EntriesFarApart
  SumsHaveNoGaps
