SPECIFICATION Spec
CONSTANTS
  Calls = {c1, c2}
  expectDownResponseTimeout = 2
  MaxAT = 0
  MaxParts = 0
  MaxPartial = 0
PROPERTY UnblockedByResponse
