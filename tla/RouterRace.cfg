SPECIFICATION RaceSpec
CONSTANTS
  Calls = {c1, c2}
  expectDownResponseTimeout = 1
  MaxAT = 0
  MaxParts = 0
  MaxPartial = 0
PROPERTY RejectUntilIdle
