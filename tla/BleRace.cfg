SPECIFICATION RaceSpec
CONSTANTS
  Commands = {c1}
  MaxLink = 1
  MaxPieces = 1
  MaxParts = 0
INVARIANT AwaitsAConfirmation
