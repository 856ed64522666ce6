SPECIFICATION Spec
CONSTANTS
  Commands = {c1, c2}
  MaxLink = 4
  MaxPieces = 2
  MaxParts = 1
INVARIANTS
  TypeOK
  OwnResponsesInOrder
  OnePieceAtATime
  
PROPERTIES
  
  DiscoverableAgain
