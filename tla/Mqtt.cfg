SPECIFICATION Spec
CONSTANTS
  StaAbortTimeout = 0
  OffStopTimeout = 1
  Payloads = {"off", "min", "other"}
  RobotStates = {0, 1}
  Scenarios <- MCScenarios
  ReconnectWait = 1
  BackoffMin = 1
  BackoffMax = 2
  BackoffFactor = 2
  PublishInterval = 1
  PropsInterval = 1
  RequestInterval = 1
INVARIANTS
  TypeOK
  SubscribedAndOnline
  LastRequestWins
PROPERTIES
  OnlineAgain
  
  StatePublished
