SPECIFICATION Spec
CONSTANTS
  Calls = {c1, c2}
  expectDownResponseTimeout = 2
  MaxAT = 1
  MaxParts = 1
  MaxPartial = 1
INVARIANTS
  TypeOK
  CallbackKept
  PrintedInOrder
  OwnAnswerIfUndisturbed
PROPERTIES
  TimeoutGrantsTheTime
  ImplementsExchange
  
