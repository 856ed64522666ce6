SPECIFICATION Spec
CONSTANTS
  Password = 123456
  Challenges = {52, 143}
  Speeds = {}
  Used <- MCUsed
  RequestInterval = 1
  MaxRestarts = 1
  MaxLost = 1
  MaxCommands = 2
  MaxUnderway = 2
INVARIANTS
  TypeOK
  SameKey
  OwnLinesReadable
  DesiredIsTold
